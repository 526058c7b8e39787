--------------------------- MODULE TransEditProofs ---------------------------
(***************************************************************************)
(* Theorems about TransEdit, for every set of transactions, splits,        *)
(* accounts and amounts, any book loaded and any bound on the calls.       *)
(***************************************************************************)
EXTENDS TransEdit, TLAPS, SequenceTheorems, SumsProofs

-----------------------------------------------------------------------------
(* The objects the helpers build have their types.                         *)

LEMMA FreedTypes ==
    /\ FreedSplit \in SplitRec
    /\ NoCopy \in Copy
    /\ FreedTrans \in TransRec
<1>1. (CHOOSE d \in Description : TRUE) \in Description
  BY TransEditAssumption
<1>2. FreedSplit \in SplitRec
  BY TransEditAssumption DEF FreedSplit, SplitRec
<1>3. NoCopy \in Copy
  BY <1>1, TransEditAssumption DEF NoCopy, Copy
<1>4. FreedTrans \in TransRec
  BY <1>1, <1>3 DEF FreedTrans, TransRec
<1>5. QED
  BY <1>2, <1>3, <1>4

LEMMA NewSplitType ==
    ASSUME NEW t \in Trans, NEW a \in Account, NEW v \in Amount
    PROVE  NewSplit(t, a, v) \in SplitRec
BY DEF NewSplit, SplitRec

LEMMA RecomputedType ==
    ASSUME NEW sp \in [Split -> SplitRec], NEW r \in AccountRec
    PROVE  Recomputed(sp, r) \in AccountRec
<1>1. Contributions(sp, r) \in Balance
  BY DEF Contributions, Balance, SplitRec
<1>2. QED
  BY <1>1 DEF Recomputed, AccountRec

LEMMA MarkedType ==
    ASSUME FieldTypes, NEW a
    PROVE  Marked(a) \in [Account -> AccountRec]
BY DEF FieldTypes, Marked, AccountRec

LEMMA DupeTransType ==
    ASSUME FieldTypes, NEW t \in Trans
    PROVE  DupeTrans(t) \in Copy
<1>1. trans[t].splits \in SUBSET Split /\ trans[t].description \in Description
  BY DEF FieldTypes, TransRec
<1>2. \A s \in Split : split[s].amount \in Amount /\ split[s].reconciled \in BOOLEAN
  BY DEF FieldTypes, SplitRec
<1>3. [s \in Split |-> IF s \in trans[t].splits THEN split[s].amount ELSE 0]
        \in [Split -> Amount]
  BY <1>2, TransEditAssumption
<1>4. [s \in Split |-> s \in trans[t].splits /\ split[s].reconciled]
        \in [Split -> BOOLEAN]
  OBVIOUS
<1>5. QED
  BY <1>1, <1>3, <1>4 DEF DupeTrans, Copy

LEMMA BegunType ==
    ASSUME FieldTypes, NEW ts
    PROVE  Begun(ts) \in [Trans -> TransRec]
<1>1. \A t \in Trans : trans[t] \in TransRec
  BY DEF FieldTypes
<1>2. \A t \in Trans : DupeTrans(t) \in Copy
  BY DupeTransType
<1>3. ASSUME NEW t \in Trans, NEW o \in Copy
      PROVE  [trans[t] EXCEPT !.editlevel = @ + 1, !.orig = o] \in TransRec
 <2>1. trans[t].editlevel + 1 \in Int
   BY <1>1 DEF TransRec
 <2>2. ASSUME NEW n \in Int
       PROVE  [trans[t] EXCEPT !.editlevel = n, !.orig = o] \in TransRec
   BY <1>1 DEF TransRec
 <2>3. QED
   BY <2>1, <2>2
<1>4. \A t \in Trans : trans[t].orig \in Copy
  BY <1>1 DEF TransRec
<1>5. QED
  BY <1>1, <1>2, <1>3, <1>4 DEF Begun

LEMMA EnteringType ==
    ASSUME FieldTypes, NEW s \in Split
    PROVE  Entering(s) \in [Account -> AccountRec]
<1>1. \A x \in Account : account[x] \in AccountRec
  BY DEF FieldTypes
<1>2. \A x \in Account :
        /\ [account[x] EXCEPT !.splits = @ \ {s}, !.balance_dirty = TRUE] \in AccountRec
        /\ [account[x] EXCEPT !.splits = @ \cup {s}, !.balance_dirty = TRUE] \in AccountRec
  BY <1>1 DEF AccountRec
<1>3. \A x \in Account :
        Recomputed(split, [account[x] EXCEPT !.splits = @ \ {s}, !.balance_dirty = TRUE])
           \in AccountRec
  BY <1>2, RecomputedType DEF FieldTypes
<1>4. QED
  BY <1>1, <1>2, <1>3 DEF Entering

LEMMA RowOfType ==
    ASSUME NEW r \in SplitRec
    PROVE  RowOf(r) \in Row
BY DEF RowOf, SplitRec, Row

\* What is pushed on the stack, and what is left when its top is popped.
LEMMA CallType ==
    ASSUME NEW t \in Trans \cup {None}, NEW s \in Split \cup {None},
           NEW todo \in SUBSET Split,
           NEW op \in {"close", "adopt", "cleanup", "clear", "rollback",
                       "restore", "discard"}
    PROVE  Call(op, t, s, todo) \in Frame
BY DEF Call, Frame

LEMMA PushType ==
    ASSUME NEW f \in Frame, NEW rest \in Seq(Frame)
    PROVE  <<f>> \o rest \in Seq(Frame)
OBVIOUS

LEMMA PopType ==
    ASSUME FieldTypes, stack # <<>>
    PROVE  Head(stack) \in Frame /\ Tail(stack) \in Seq(Frame)
BY HeadTailProperties DEF FieldTypes

LEMMA VisitedType ==
    ASSUME FieldTypes, stack # <<>>, NEW s
    PROVE  Visited(s) \in Seq(Frame)
BY PopType, PushType DEF Visited, Frame

-----------------------------------------------------------------------------
(* The parts actions share leave well typed what they change.              *)

LEMMA CommitSplitType ==
    ASSUME FieldTypes, NEW s \in Split, NEW ok \in Answers, CommitSplit(s, ok)
    PROVE  /\ split' \in [Split -> SplitRec]
           /\ account' \in [Account -> AccountRec]
           /\ splitRow' \in [Split -> Row \cup {None}]
<1> DEFINE settled == [split[s] EXCEPT !.orig_acc = split[s].acc,
                                       !.orig_parent = split[s].parent]
<1>2. settled \in SplitRec
  BY DEF FieldTypes, SplitRec
<1>3. /\ [settled EXCEPT !.dirty = FALSE, !.infant = FALSE] \in SplitRec
      /\ [settled EXCEPT !.do_free = FALSE] \in SplitRec
  BY <1>2 DEF SplitRec
<1>4. split' \in [Split -> SplitRec]
  BY <1>3, FreedTypes DEF FieldTypes, CommitSplit
<1>5. account' \in [Account -> AccountRec]
 <2>1. \A x \in Account : /\ Entering(s)[x] \in AccountRec
                          /\ [Entering(s)[x] EXCEPT !.balance_dirty = TRUE] \in AccountRec
   BY EnteringType DEF AccountRec
 <2>2. \A x \in Account :
         Recomputed(split', [Entering(s)[x] EXCEPT !.balance_dirty = TRUE]) \in AccountRec
   BY <1>4, <2>1, RecomputedType
 <2>3. CASE ok
   BY <2>1, <2>2, <2>3 DEF CommitSplit
 <2>4. CASE ~ok
   BY <2>4, EnteringType DEF CommitSplit
 <2>5. QED
   BY <2>3, <2>4
<1>6. splitRow' \in [Split -> Row \cup {None}]
 <2>1. StoredSplit(s) \in Row \cup {None}
   BY RowOfType DEF StoredSplit, FieldTypes
 <2>2. QED
   BY <2>1 DEF CommitSplit, FieldTypes
<1>7. QED
  BY <1>4, <1>5, <1>6

LEMMA SetParentCallType ==
    ASSUME FieldTypes, NEW sp \in [Split -> SplitRec], NEW s \in Split,
           NEW t \in Trans \cup {None}, NEW rest \in Seq(Frame),
           SetParentCall(sp, s, t, rest)
    PROVE  /\ split' \in [Split -> SplitRec]
           /\ trans' \in [Trans -> TransRec]
           /\ stack' \in Seq(Frame)
           /\ fault' \in {"none", "use after free", "assertion"}
<1>1. sp[s].parent \in Trans \cup {None}
  BY DEF SplitRec
<1>2. [sp EXCEPT ![s].parent = t] \in [Split -> SplitRec]
  BY DEF SplitRec
<1>3. CASE sp[s].parent = t
  BY <1>3 DEF SetParentCall, FieldTypes
<1>4. CASE sp[s].parent # t
 <2>1. split' \in [Split -> SplitRec]
   BY <1>2, <1>4 DEF SetParentCall
 <2>2. trans' \in [Trans -> TransRec]
   BY <1>4, BegunType DEF SetParentCall
 <2>3. stack' \in Seq(Frame)
  <3>1. /\ Call("close", sp[s].parent, None, {}) \in Frame
        /\ Call("adopt", t, s, {}) \in Frame
    BY <1>1, CallType
  <3>2. <<Call("close", sp[s].parent, None, {}), Call("adopt", t, s, {})>> \in Seq(Frame)
    BY <3>1
  <3>3. stack' = <<Call("close", sp[s].parent, None, {}), Call("adopt", t, s, {})>> \o rest
    BY <1>4 DEF SetParentCall
  <3>4. QED
    BY <3>2, <3>3
 <2>4. fault' \in {"none", "use after free", "assertion"}
   BY <1>4 DEF SetParentCall, FieldTypes
 <2>5. QED
   BY <2>1, <2>2, <2>3, <2>4
<1>5. QED
  BY <1>3, <1>4

LEMMA StoreTransType ==
    ASSUME FieldTypes, NEW t \in Trans, NEW listed \in SUBSET Split,
           NEW rest \in Seq(Frame), StoreTrans(t, listed, rest)
    PROVE  /\ trans' \in [Trans -> TransRec]
           /\ transRow' \in [Trans -> Description \cup {None}]
           /\ stack' \in Seq(Frame)
<1>1. PICK ok \in Answers :
        /\ ok => /\ \/ transRow' = [transRow EXCEPT ![t] = trans[t].description]
                    \/ transRow' = transRow
                 /\ trans' = [trans EXCEPT ![t].dirty = FALSE, ![t].splits = listed]
                 /\ stack' = <<Call("cleanup", t, None, listed)>> \o rest
        /\ ~ok => /\ trans' = [trans EXCEPT ![t].splits = listed,
                                  ![t].description = trans[t].orig.description]
                  /\ stack' = <<Call("rollback", t, None, listed)>> \o rest
                  /\ transRow' = transRow
 <2>1. TRUE \in Answers
   BY DEF Answers
 <2>2. QED
   BY <2>1 DEF StoreTrans
<1>3. /\ trans[t].description \in Description
      /\ trans[t].orig.description \in Description
  BY DEF FieldTypes, TransRec, Copy
<1>4. /\ <<Call("cleanup", t, None, listed)>> \o rest \in Seq(Frame)
      /\ <<Call("rollback", t, None, listed)>> \o rest \in Seq(Frame)
  BY CallType, PushType
<1>5. /\ [trans EXCEPT ![t].dirty = FALSE, ![t].splits = listed] \in [Trans -> TransRec]
      /\ [trans EXCEPT ![t].splits = listed,
                       ![t].description = trans[t].orig.description] \in [Trans -> TransRec]
 <2>1. trans[t] \in TransRec
   BY DEF FieldTypes
 <2>2. /\ [trans[t] EXCEPT !.dirty = FALSE, !.splits = listed] \in TransRec
       /\ [trans[t] EXCEPT !.splits = listed,
                           !.description = trans[t].orig.description] \in TransRec
   BY <1>3, <2>1 DEF TransRec
 <2>3. QED
   BY <2>2 DEF FieldTypes
<1>6. QED
  BY <1>1, <1>3, <1>4, <1>5 DEF FieldTypes

LEMMA BalancedType ==
    ASSUME FieldTypes, NEW t \in Trans, NEW b \in Split, NEW v \in Amount
    PROVE  Balanced(t, b, v) \in [Split -> SplitRec]
<1>1. NewSplit(t, Imbalance, v) \in SplitRec
  BY NewSplitType, TransEditAssumption
<1>2. /\ [split[b] EXCEPT !.dirty = TRUE, !.do_free = TRUE] \in SplitRec
      /\ [split[b] EXCEPT !.dirty = TRUE, !.amount = v] \in SplitRec
  BY DEF FieldTypes, SplitRec
<1>3. \E r \in SplitRec : Balanced(t, b, v) = [split EXCEPT ![b] = r]
  BY <1>1, <1>2 DEF Balanced
<1>4. QED
  BY <1>3 DEF FieldTypes

LEMMA CommitKeptType ==
    ASSUME FieldTypes, NEW t \in Trans, NEW rest \in Seq(Frame), CommitKept(t, rest)
    PROVE  /\ split' \in [Split -> SplitRec]
           /\ trans' \in [Trans -> TransRec]
           /\ account' \in [Account -> AccountRec]
           /\ splitRow' \in [Split -> Row \cup {None}]
           /\ transRow' \in [Trans -> Description \cup {None}]
           /\ stack' \in Seq(Frame)
           /\ calls' \in Nat
<1>1. trans[t].splits \in SUBSET Split
  BY DEF FieldTypes, TransRec
<1>2. splitRow' \in [Split -> Row \cup {None}] /\ calls' \in Nat
  BY DEF CommitKept, FieldTypes
<1>3. CASE StoreTrans(t, trans[t].splits, rest) /\ UNCHANGED <<split, account>>
  BY <1>1, <1>2, <1>3, StoreTransType DEF FieldTypes
<1>4. CASE \E b \in BalanceSplits(t) :
             \E new \in Amount :
                 /\ split' = Balanced(t, b, new)
                 /\ account' = IF new = 0 THEN account ELSE Marked(Imbalance)
                 /\ StoreTrans(t, trans[t].splits \cup {b}, rest)
 <2>1. BalanceSplits(t) \subseteq Split
   BY <1>1 DEF BalanceSplits, Owned
 <2>2. PICK b \in Split, new \in Amount :
         /\ split' = Balanced(t, b, new)
         /\ account' = IF new = 0 THEN account ELSE Marked(Imbalance)
         /\ StoreTrans(t, trans[t].splits \cup {b}, rest)
   BY <1>4, <2>1
 <2>3. split' \in [Split -> SplitRec]
   BY <2>2, BalancedType
 <2>4. account' \in [Account -> AccountRec]
   BY <2>2, MarkedType DEF FieldTypes
 <2>5. trans[t].splits \cup {b} \in SUBSET Split
   BY <1>1
 <2>6. QED
   BY <1>2, <2>2, <2>3, <2>4, <2>5, StoreTransType
<1>5. QED
  BY <1>3, <1>4 DEF CommitKept

LEMMA CommitDestroyedType ==
    ASSUME FieldTypes, NEW t \in Trans, NEW rest \in Seq(Frame), CommitDestroyed(t, rest)
    PROVE  /\ split' \in [Split -> SplitRec]
           /\ trans' \in [Trans -> TransRec]
           /\ account' \in [Account -> AccountRec]
           /\ splitRow' \in [Split -> Row \cup {None}]
           /\ transRow' \in [Trans -> Description \cup {None}]
           /\ stack' \in Seq(Frame)
           /\ calls' \in Nat
<1> DEFINE mine == {s \in trans[t].splits : split[s].parent = t}
<1>2. calls' \in Nat
  BY DEF CommitDestroyed, FieldTypes
<1>3. account' \in [Account -> AccountRec]
  BY DEF CommitDestroyed, FieldTypes
<1>4. trans[t] \in TransRec /\ trans[t].splits \in SUBSET Split
  BY DEF FieldTypes, TransRec
<1>5. CASE /\ transRow' = [transRow EXCEPT ![t] = None]
           /\ splitRow' = [s \in Split |->
                             IF splitRow[s] # None /\ splitRow[s].parent = t
                             THEN None ELSE splitRow[s]]
           /\ split' = [s \in Split |->
                          IF s \in mine
                          THEN [split[s] EXCEPT !.dirty = TRUE, !.do_free = TRUE]
                          ELSE split[s]]
           /\ trans' = [trans EXCEPT ![t].do_free = TRUE]
           /\ stack' = <<Call("clear", t, None, mine)>> \o rest
 <2>1. split' \in [Split -> SplitRec]
  <3>0. \A r \in SplitRec : [r EXCEPT !.dirty = TRUE, !.do_free = TRUE] \in SplitRec
    BY DEF SplitRec
  <3>1. \A s \in Split : /\ split[s] \in SplitRec
                         /\ [split[s] EXCEPT !.dirty = TRUE, !.do_free = TRUE] \in SplitRec
    BY <3>0 DEF FieldTypes
  <3>2. QED
    BY <1>5, <3>1
 <2>2. trans' \in [Trans -> TransRec]
   BY <1>5, <1>4 DEF FieldTypes, TransRec
 <2>3. stack' \in Seq(Frame)
  <3>1. mine \in SUBSET Split
    BY <1>4
  <3>2. QED
    BY <1>5, <3>1, CallType, PushType
 <2>4. splitRow' \in [Split -> Row \cup {None}] /\ transRow' \in [Trans -> Description \cup {None}]
   BY <1>5 DEF FieldTypes
 <2>5. QED
   BY <1>2, <1>3, <2>1, <2>2, <2>3, <2>4
<1>6. CASE /\ trans' = [trans EXCEPT ![t].do_free = FALSE,
                                    ![t].description = trans[t].orig.description]
           /\ stack' = <<Call("rollback", t, None, trans[t].splits)>> \o rest
           /\ UNCHANGED <<split, splitRow, transRow>>
 <2>1. trans' \in [Trans -> TransRec]
  <3>1. trans[t].orig.description \in Description
    BY <1>4 DEF TransRec, Copy
  <3>2. [trans[t] EXCEPT !.do_free = FALSE,
                         !.description = trans[t].orig.description] \in TransRec
    BY <1>4, <3>1 DEF TransRec
  <3>3. QED
    BY <1>6, <3>2 DEF FieldTypes
 <2>2. stack' \in Seq(Frame)
   BY <1>4, <1>6, CallType, PushType
 <2>3. QED
   BY <1>2, <1>3, <1>6, <2>1, <2>2 DEF FieldTypes
<1>7. QED
  BY <1>5, <1>6 DEF CommitDestroyed

LEMMA CommitCallType ==
    ASSUME FieldTypes, NEW t \in Trans, NEW rest \in Seq(Frame), CommitCall(t, rest)
    PROVE  /\ split' \in [Split -> SplitRec]
           /\ trans' \in [Trans -> TransRec]
           /\ account' \in [Account -> AccountRec]
           /\ splitRow' \in [Split -> Row \cup {None}]
           /\ transRow' \in [Trans -> Description \cup {None}]
           /\ stack' \in Seq(Frame)
           /\ calls' \in Nat
<1>1. CASE /\ trans' = [trans EXCEPT ![t].editlevel = @ - 1]
           /\ stack' = rest
           /\ UNCHANGED <<split, account, splitRow, transRow, calls>>
 <2>1. trans[t].editlevel - 1 \in Int
  <3>1. trans[t] \in TransRec
    BY DEF FieldTypes
  <3>2. QED
    BY <3>1 DEF TransRec
 <2>2. [trans[t] EXCEPT !.editlevel = trans[t].editlevel - 1] \in TransRec
   BY <2>1 DEF FieldTypes, TransRec
 <2>3. QED
   BY <1>1, <2>2 DEF FieldTypes
<1>2. CASE CommitKept(t, rest)
  BY <1>2, CommitKeptType
<1>3. CASE CommitDestroyed(t, rest)
  BY <1>3, CommitDestroyedType
<1>4. QED
  BY <1>1, <1>2, <1>3 DEF CommitCall

-----------------------------------------------------------------------------
(* Type correctness: the initial state, then one step per action.          *)

LEMMA InitTypeOK == Init => FieldTypes
<1> SUFFICES ASSUME Init PROVE FieldTypes
  OBVIOUS
<1>1. \A s \in Split : LoadedSplit(s) \in SplitRec
  BY FreedTypes, TransEditAssumption DEF LoadedSplit, SplitRec, Row
<1>2. split \in [Split -> SplitRec]
  BY <1>1 DEF Init
<1>3. \A t \in Trans : LoadedInto(t) \in SUBSET Split
  BY DEF LoadedInto
<1>4. trans \in [Trans -> TransRec]
  BY <1>3, FreedTypes DEF Init, TransRec
<1>5. account \in [Account -> AccountRec]
 <2>1. \A a \in Account : LoadedAccount(a) \in AccountRec
  <3> SUFFICES ASSUME NEW a \in Account PROVE LoadedAccount(a) \in AccountRec
    OBVIOUS
  <3> DEFINE r == [splits |-> {s \in Split : Loaded[s] # None /\ Loaded[s].acc = a},
                   balance |-> [s \in Split |-> None], balance_dirty |-> TRUE]
  <3>1. r \in AccountRec
    BY DEF AccountRec, Balance
  <3>2. [s \in Split |-> LoadedSplit(s)] \in [Split -> SplitRec]
    BY <1>1
  <3> HIDE DEF r
  <3>3. Recomputed([s \in Split |-> LoadedSplit(s)], r) \in AccountRec
    BY <3>1, <3>2, RecomputedType
  <3>4. QED
    BY <3>3 DEF LoadedAccount, r
 <2>2. QED
   BY <2>1 DEF Init
<1>6. splitRow \in [Split -> Row \cup {None}]
  BY TransEditAssumption DEF Init
<1>7. transRow \in [Trans -> Description \cup {None}]
  BY FreedTypes DEF Init, TransRec
<1>8. stack \in Seq(Frame) /\ calls \in Nat /\ fault = "none"
 <2>1. stack = <<>> /\ calls = 0 /\ fault = "none"
   BY DEF Init
 <2>2. QED
   BY <2>1
<1>9. QED
  BY <1>2, <1>4, <1>5, <1>6, <1>7, <1>8 DEF FieldTypes

LEMMA ClientTypeOK == FieldTypes /\ ClientCall => FieldTypes'
<1> SUFFICES ASSUME FieldTypes, ClientCall PROVE FieldTypes'
  OBVIOUS
<1>1. \A t \in Trans : trans[t] \in TransRec
  BY DEF FieldTypes
<1>2. \A s \in Split : split[s] \in SplitRec
  BY DEF FieldTypes
<1>0. calls \in Nat
  BY DEF FieldTypes
<1>3. \A t \in Trans : Setting(t) => calls' \in Nat
 <2>1. calls + 1 \in Nat
   BY <1>0
 <2>2. QED
   BY <2>1 DEF Setting
<1>4. ASSUME NEW t \in Trans, BeginEdit(t) PROVE FieldTypes'
  BY <1>4, BegunType DEF BeginEdit, FieldTypes
<1>5. ASSUME NEW t \in Trans, CommitEdit(t) PROVE FieldTypes'
 <2>1. <<>> \in Seq(Frame)
   OBVIOUS
 <2>2. QED
   BY <1>5, <2>1, CommitCallType DEF CommitEdit, FieldTypes
<1>6. ASSUME NEW t \in Trans, RollbackEdit(t) PROVE FieldTypes'
 <2>1. [trans[t] EXCEPT !.editlevel = @ - 1] \in TransRec
   BY <1>1 DEF TransRec
 <2>2. [trans[t] EXCEPT !.description = trans[t].orig.description] \in TransRec
   BY <1>1 DEF TransRec, Copy
 <2>3. <<Call("rollback", t, None, trans[t].splits)>> \in Seq(Frame)
   BY <1>1, CallType DEF TransRec
 <2>4. QED
   BY <1>6, <2>1, <2>2, <2>3 DEF RollbackEdit, FieldTypes
<1>7. ASSUME NEW t \in Trans, MallocTrans(t) PROVE FieldTypes'
  BY <1>7, FreedTypes DEF MallocTrans, FieldTypes, TransRec
<1>8. ASSUME NEW t \in Trans, TransDestroy(t) PROVE FieldTypes'
 <2>1. \A r \in TransRec : [r EXCEPT !.do_free = TRUE] \in TransRec
   BY DEF TransRec
 <2>2. trans' \in [Trans -> TransRec]
   BY <1>8, <2>1, BegunType DEF TransDestroy
 <2>3. stack' \in Seq(Frame)
   BY <1>8, CallType DEF TransDestroy
 <2>4. QED
   BY <1>8, <2>2, <2>3 DEF TransDestroy, FieldTypes
<1>9. ASSUME NEW t \in Trans, NEW d \in Description, SetDescription(t, d) PROVE FieldTypes'
  BY <1>3, <1>9, <1>1 DEF SetDescription, FieldTypes, TransRec
<1>10. ASSUME NEW t \in Trans, NEW s \in Split, NEW a \in Account, NEW v \in Entered,
              MallocSplit(t, s, a, v)
       PROVE  FieldTypes'
 <2>1. NewSplit(t, a, v) \in SplitRec
   BY NewSplitType, TransEditAssumption
 <2>2. [trans[t] EXCEPT !.splits = @ \cup {s}] \in TransRec
   BY <1>1 DEF TransRec
 <2>3. QED
   BY <1>3, <1>10, <2>1, <2>2, MarkedType DEF MallocSplit, FieldTypes
<1>11. ASSUME NEW s \in Split, SettingSplit(s) PROVE calls' \in Nat
  BY <1>3, <1>11 DEF SettingSplit
<1>12. ASSUME NEW s \in Split, SplitDestroy(s) PROVE FieldTypes'
  BY <1>11, <1>12, <1>2 DEF SplitDestroy, FieldTypes, SplitRec
<1>13. ASSUME NEW s \in Split, NEW v \in Entered, SetBaseValue(s, v) PROVE FieldTypes'
  BY <1>11, <1>13, <1>2, MarkedType, TransEditAssumption DEF SetBaseValue, FieldTypes, SplitRec
<1>14. ASSUME NEW s \in Split, NEW r \in BOOLEAN, SetReconcile(s, r) PROVE FieldTypes'
 <2>1. [split[s] EXCEPT !.reconciled = r, !.dirty = TRUE] \in SplitRec
   BY <1>2 DEF SplitRec
 <2>2. split' \in [Split -> SplitRec]
   BY <1>14, <2>1 DEF SetReconcile, FieldTypes
 <2>3. \A a \in Account : Marked(a)[a] \in AccountRec
   BY MarkedType
 <2>4. \A a \in Account : Recomputed(split', Marked(a)[a]) \in AccountRec
   BY <2>2, <2>3, RecomputedType
 <2>5. account' \in [Account -> AccountRec]
   BY <1>14, <2>4 DEF SetReconcile, FieldTypes
 <2>6. QED
   BY <1>11, <1>14, <2>2, <2>5 DEF SetReconcile, FieldTypes
<1>15. ASSUME NEW s \in Split, NEW a \in Account, SetAccount(s, a) PROVE FieldTypes'
  BY <1>11, <1>15, <1>2 DEF SetAccount, FieldTypes, SplitRec
<1>16. ASSUME NEW s \in Split, NEW t \in Trans, MoveSplit(s, t) PROVE FieldTypes'
 <2>0. <<>> \in Seq(Frame)
   OBVIOUS
 <2>1. split \in [Split -> SplitRec]
   BY DEF FieldTypes
 <2>2. SetParentCall(split, s, t, <<>>)
   BY <1>16 DEF MoveSplit
 <2>3. calls' \in Nat
   BY <1>0, <1>16 DEF MoveSplit
 <2>4. QED
   BY <1>16, <2>0, <2>1, <2>2, <2>3, SetParentCallType DEF MoveSplit, FieldTypes
<1>17. ASSUME NEW a \in Account, AccountCommitEdit(a) PROVE FieldTypes'
  BY <1>17, RecomputedType DEF AccountCommitEdit, FieldTypes
<1>18. QED
  BY <1>4, <1>5, <1>6, <1>7, <1>8, <1>9, <1>10, <1>12, <1>13, <1>14, <1>15, <1>16, <1>17
  DEF ClientCall

\* The top of the stack, under a step of a call.
LEMMA TopType ==
    ASSUME FieldTypes, NEW op, Under(op)
    PROVE  /\ stack # <<>>
           /\ Head(stack).t \in Trans \cup {None}
           /\ Head(stack).s \in Split \cup {None}
           /\ Tail(stack) \in Seq(Frame)
BY PopType DEF Under, Frame

LEMMA CallTypeOK == FieldTypes /\ CallStep => FieldTypes'
<1> SUFFICES ASSUME FieldTypes, CallStep PROVE FieldTypes'
  OBVIOUS
<1>1. \A t \in Trans : trans[t] \in TransRec
  BY DEF FieldTypes
<1>2. \A s \in Split : split[s] \in SplitRec
  BY DEF FieldTypes
<1>3. \A t \in Trans : trans[t].editlevel - 1 \in Int
  BY <1>1 DEF TransRec
<1>4. ASSUME Close PROVE FieldTypes'
  BY <1>4, CommitCallType, TopType DEF Close, FieldTypes
<1>5. ASSUME NEW s \in Split, Adopt(s) PROVE FieldTypes'
 <2>1. Tail(stack) \in Seq(Frame)
   BY <1>5, TopType DEF Adopt
 <2>2. [split[s] EXCEPT !.dirty = TRUE] \in SplitRec
   BY <1>2 DEF SplitRec
 <2>3. split' \in [Split -> SplitRec]
   BY <1>5, <2>2 DEF Adopt, FieldTypes
 <2>4. CASE stack' = Tail(stack) /\ UNCHANGED <<trans, account>>
   BY <1>5, <2>1, <2>3, <2>4 DEF Adopt, FieldTypes
 <2>5. CASE \E t \in Trans :
              /\ trans' = [trans EXCEPT ![t].splits = @ \cup {s}]
              /\ account' = Marked(split[s].acc)
              /\ stack' = <<Call("close", t, None, {})>> \o Tail(stack)
  <3>1. PICK t \in Trans :
          /\ trans' = [trans EXCEPT ![t].splits = @ \cup {s}]
          /\ account' = Marked(split[s].acc)
          /\ stack' = <<Call("close", t, None, {})>> \o Tail(stack)
    BY <2>5
  <3>2. [trans[t] EXCEPT !.splits = @ \cup {s}] \in TransRec
    BY <1>1 DEF TransRec
  <3>3. stack' \in Seq(Frame)
    BY <2>1, <3>1, CallType, PushType
  <3>4. QED
    BY <1>5, <2>3, <3>1, <3>2, <3>3, MarkedType DEF Adopt, FieldTypes
 <2>6. QED
   BY <1>5, <2>4, <2>5 DEF Adopt
<1>6. ASSUME NEW t \in Trans, CleanupDone(t) PROVE FieldTypes'
 <2>1. Tail(stack) \in Seq(Frame)
   BY <1>6, TopType DEF CleanupDone
 <2>2. [trans[t] EXCEPT !.editlevel = @ - 1, !.orig = NoCopy] \in TransRec
   BY <1>1, <1>3, FreedTypes DEF TransRec
 <2>3. QED
   BY <1>6, <2>1, <2>2 DEF CleanupDone, FieldTypes
<1>7. ASSUME NEW t \in Trans, FreeTransaction(t) PROVE FieldTypes'
  BY <1>7, FreedTypes, TopType DEF FreeTransaction, FieldTypes, LoopDone
<1>8. ASSUME NEW t \in Trans, RollbackDone(t) PROVE FieldTypes'
 <2>1. Tail(stack) \in Seq(Frame)
   BY <1>8, TopType DEF RollbackDone, LoopDone
 <2>2. [trans[t] EXCEPT !.editlevel = @ - 1, !.orig = NoCopy, !.do_free = FALSE] \in TransRec
   BY <1>1, <1>3, FreedTypes DEF TransRec
 <2>3. QED
   BY <1>8, <2>1, <2>2 DEF RollbackDone, FieldTypes
<1>9. ASSUME NEW t \in Trans, NEW s \in Split, CleanupSplit(t, s) PROVE FieldTypes'
 <2>1. stack' \in Seq(Frame)
   BY <1>9, TopType, VisitedType DEF CleanupSplit, Visiting
 <2>2. [trans[t] EXCEPT !.splits = @ \ {s}] \in TransRec
   BY <1>1 DEF TransRec
 <2>3. trans' \in [Trans -> TransRec]
   BY <1>9, <2>2 DEF CleanupSplit, FieldTypes
 <2>4. /\ split' \in [Split -> SplitRec]
       /\ account' \in [Account -> AccountRec]
       /\ splitRow' \in [Split -> Row \cup {None}]
       /\ calls' \in Nat
   BY <1>9, CommitSplitType DEF CleanupSplit, FieldTypes
 <2>5. QED
   BY <1>9, <2>1, <2>3, <2>4 DEF CleanupSplit, FieldTypes
<1>10. ASSUME NEW t \in Trans, NEW s \in Split, ClearSplit(t, s) PROVE FieldTypes'
 <2>1. stack' \in Seq(Frame)
   BY <1>10, TopType, VisitedType DEF ClearSplit, Visiting
 <2>2. /\ split' \in [Split -> SplitRec]
       /\ account' \in [Account -> AccountRec]
       /\ splitRow' \in [Split -> Row \cup {None}]
       /\ calls' \in Nat
   BY <1>10, CommitSplitType DEF ClearSplit, FieldTypes
 <2>3. QED
   BY <1>10, <2>1, <2>2 DEF ClearSplit, FieldTypes
<1>11. ASSUME NEW t \in Trans, NEW s \in Split, RollbackSplit(t, s) PROVE FieldTypes'
 <2>1. Visited(s) \in Seq(Frame)
   BY <1>11, TopType, VisitedType DEF RollbackSplit, Visiting
 <2>2. [trans[t] EXCEPT !.splits = @ \ {s}] \in TransRec
   BY <1>1 DEF TransRec
 <2>3. CASE stack' = Visited(s) /\ UNCHANGED <<split, fault>>
            /\ (trans' = trans \/ trans' = [trans EXCEPT ![t].splits = @ \ {s}])
   BY <1>11, <2>1, <2>2, <2>3 DEF RollbackSplit, FieldTypes
 <2>4. CASE \E op \in {"restore", "discard"} :
              SetParentCall(Reverted(s), s, split[s].orig_parent,
                            <<Call(op, t, s, {})>> \o Visited(s))
  <3>1. PICK op \in {"restore", "discard"} :
             SetParentCall(Reverted(s), s, split[s].orig_parent,
                           <<Call(op, t, s, {})>> \o Visited(s))
    BY <2>4
  <3>2. <<Call(op, t, s, {})>> \o Visited(s) \in Seq(Frame)
    BY <2>1, CallType, PushType
  <3>3. split[s].orig_parent \in Trans \cup {None}
    BY <1>2 DEF SplitRec
  <3>4. [split[s] EXCEPT !.acc = split[s].orig_acc,
                         !.do_free = @ /\ split[s].parent = None] \in SplitRec
    BY <1>2 DEF SplitRec
  <3>5. Reverted(s) \in [Split -> SplitRec]
    BY <3>4 DEF Reverted, FieldTypes
  <3>6. QED
    BY <1>11, <3>1, <3>2, <3>3, <3>5, SetParentCallType DEF RollbackSplit, FieldTypes
 <2>5. QED
   BY <1>11, <2>3, <2>4 DEF RollbackSplit
<1>12. ASSUME NEW t \in Trans, NEW s \in Split, Restore(t, s) PROVE FieldTypes'
 <2>1. Tail(stack) \in Seq(Frame)
   BY <1>12, TopType DEF Restore
 <2>2. trans[t].orig.amount[s] \in Amount /\ trans[t].orig.reconciled[s] \in BOOLEAN
   BY <1>1 DEF TransRec, Copy
 <2>3. [split[s] EXCEPT !.amount = trans[t].orig.amount[s],
                        !.reconciled = trans[t].orig.reconciled[s],
                        !.dirty = FALSE] \in SplitRec
   BY <1>2, <2>2 DEF SplitRec
 <2>4. QED
   BY <1>12, <2>1, <2>3 DEF Restore, FieldTypes
<1>13. ASSUME NEW t \in Trans, NEW s \in Split, Discard(t, s) PROVE FieldTypes'
 <2>1. Tail(stack) \in Seq(Frame)
   BY <1>13, TopType DEF Discard
 <2>2. [trans[t] EXCEPT !.splits = @ \ {s}] \in TransRec
   BY <1>1 DEF TransRec
 <2>3. trans' \in [Trans -> TransRec]
   BY <1>13, <2>2 DEF Discard, FieldTypes
 <2>4. split' \in [Split -> SplitRec]
   BY <1>13, FreedTypes DEF Discard, FieldTypes
 <2>5. \A a \in Account :
         [account[a] EXCEPT !.splits = @ \ {s}, !.balance_dirty = TRUE] \in AccountRec
   BY DEF FieldTypes, AccountRec
 <2>6. \A a \in Account :
         Recomputed(split, [account[a] EXCEPT !.splits = @ \ {s}, !.balance_dirty = TRUE])
            \in AccountRec
   BY <2>5, RecomputedType DEF FieldTypes
 <2>7. account' \in [Account -> AccountRec]
  <3>1. account \in [Account -> AccountRec]
    BY DEF FieldTypes
  <3>2. CASE split[s].parent = None
    BY <2>6, <3>1, <1>13, <3>2 DEF Discard
  <3>3. CASE split[s].parent # None
    BY <1>13, <3>1, <3>3 DEF Discard
  <3>4. QED
    BY <3>2, <3>3
 <2>8. QED
   BY <1>13, <2>1, <2>3, <2>4, <2>7 DEF Discard, FieldTypes
<1>14. ASSUME NEW t \in Trans, NEW s \in Split, ReadFreed(t, s) PROVE FieldTypes'
  BY <1>14 DEF ReadFreed, FieldTypes
<1>15. QED
  BY <1>4, <1>5, <1>6, <1>7, <1>8, <1>9, <1>10, <1>11, <1>12, <1>13, <1>14 DEF CallStep

\* Every field of every object keeps its type, and the call stack is made of
\* the frames the steps expect, however calls nest and whatever is refused.
THEOREM TypeCorrect == Spec => []FieldTypes
<1>1. Init => FieldTypes
  BY InitTypeOK
<1>2. FieldTypes /\ [Next]_vars => FieldTypes'
 <2>1. FieldTypes /\ UNCHANGED vars => FieldTypes'
   BY DEF FieldTypes, vars
 <2>2. QED
   BY <2>1, ClientTypeOK, CallTypeOK DEF Next
<1>3. QED
  BY <1>1, <1>2, PTL DEF Spec

-----------------------------------------------------------------------------
(* Accounts list the splits committed to them.  AccountLists is inductive  *)
(* only with what keeps a freed split out of reach of the loops, and what  *)
(* a rollback may free: a split that is in the list of no account but the  *)
(* one xaccFreeSplit looks at.                                             *)

GoneBlank ==
    \A s \in Split : ~split[s].live =>
        /\ split[s].parent = None /\ split[s].orig_parent = None
        /\ split[s].acc = None /\ split[s].orig_acc = None

Settled(s) == split[s].acc = split[s].orig_acc \/ split[s].orig_acc = None

SettledFrame ==
    {f \in Frame : f.op = "discard" => \A s \in Split : f.s = s => Settled(s)}

AccountInv ==
    /\ FieldTypes
    /\ GoneBlank
    /\ AccountLists
    /\ stack \in Seq(SettledFrame)

\* A step leaves the links of split s alone, or allocates it.
LinksKept(s) ==
    /\ split'[s].live = split[s].live
    /\ split'[s].parent = split[s].parent
    /\ split'[s].orig_parent = split[s].orig_parent
    /\ split'[s].acc = split[s].acc
    /\ split'[s].orig_acc = split[s].orig_acc

Allocated(s) == ~split[s].live /\ split'[s].live /\ split'[s].orig_acc = None

ListsKept == \A a \in Account : account'[a].splits = account[a].splits

\* A step loses a split from the lists only where the backend refused to delete it.
NoneMissed ==
    \A s \in Split : Missing(s)' =>
        \/ Missing(s)
        \/ /\ Under("cleanup") \/ Under("clear")
           /\ split[s].do_free /\ ~split'[s].do_free

LEMMA SettledFrameGrows ==
    ASSUME \A s \in Split : Settled(s) => Settled(s)'
    PROVE  SettledFrame \subseteq SettledFrame'
BY DEF SettledFrame, Frame

LEMMA NothingMissed ==
    ASSUME FieldTypes, ListsKept,
           \A s \in Split : \/ /\ split'[s].live = split[s].live
                               /\ split'[s].orig_acc = split[s].orig_acc
                            \/ ~split'[s].live
                            \/ split'[s].orig_acc = None
    PROVE  NoneMissed
<1>1. \A s \in Split : split[s].orig_acc \in Account \cup {None}
  BY DEF FieldTypes, SplitRec
<1>2. QED
  BY <1>1 DEF NoneMissed, Missing, ListsKept

\* What most steps are to the lists.
LEMMA QuietStep ==
    ASSUME AccountInv, ListsKept, \A s \in Split : LinksKept(s) \/ Allocated(s)
    PROVE  /\ GoneBlank' /\ AccountLists' /\ NoneMissed
           /\ SettledFrame \subseteq SettledFrame'
<1>1. GoneBlank'
  BY DEF AccountInv, GoneBlank, LinksKept, Allocated
<1>2. AccountLists'
 <2>1. None \notin Account
   BY TransEditAssumption
 <2>2. \A s \in Split, a \in Account :
         s \in account[a].splits => split[s].live /\ split[s].orig_acc = a
   BY DEF AccountInv, AccountLists
 <2>3. \A s \in Split, a \in Account :
         split[s].live /\ split[s].orig_acc = a => CanFail \/ s \in account[a].splits
   BY DEF AccountInv, AccountLists
 <2>4. ASSUME NEW s \in Split, NEW a \in Account, s \in account'[a].splits
       PROVE  split'[s].live /\ split'[s].orig_acc = a
   BY <2>2, <2>4 DEF ListsKept, LinksKept, Allocated
 <2>5. ASSUME NEW s \in Split, NEW a \in Account,
              split'[s].live, split'[s].orig_acc = a, ~CanFail
       PROVE  s \in account'[a].splits
   BY <2>1, <2>3, <2>5 DEF ListsKept, LinksKept, Allocated
 <2>6. QED
   BY <2>4, <2>5 DEF AccountLists
<1>3. \A s \in Split : Settled(s) => Settled(s)'
  BY DEF Settled, LinksKept, Allocated
<1>4. NoneMissed
  BY NothingMissed DEF AccountInv, LinksKept, Allocated
<1>5. QED
  BY <1>1, <1>2, <1>3, <1>4, SettledFrameGrows

LEMMA CallSettled ==
    ASSUME NEW t \in Trans \cup {None}, NEW s \in Split \cup {None},
           NEW todo \in SUBSET Split,
           NEW op \in {"close", "adopt", "cleanup", "clear", "rollback", "restore"}
    PROVE  Call(op, t, s, todo) \in SettledFrame
<1>1. Call(op, t, s, todo) \in Frame
  BY CallType
<1>2. Call(op, t, s, todo).op # "discard"
  BY DEF Call
<1>3. QED
  BY <1>1, <1>2 DEF SettledFrame

LEMMA PushSettled ==
    ASSUME NEW S, NEW f \in S, NEW rest \in Seq(S)
    PROVE  <<f>> \o rest \in Seq(S)
OBVIOUS

LEMMA PopSettled ==
    ASSUME AccountInv, stack # <<>>
    PROVE  Head(stack) \in SettledFrame /\ Tail(stack) \in Seq(SettledFrame)
BY HeadTailProperties DEF AccountInv

\* A loop has no split to free in its own frame.
LEMMA VisitedSettled ==
    ASSUME AccountInv, stack # <<>>, Head(stack).op # "discard", NEW s
    PROVE  Visited(s) \in Seq(SettledFrame)
BY PopSettled, PushSettled DEF Visited, SettledFrame, Frame

LEMMA SeqGrows ==
    ASSUME NEW S, NEW T, S \subseteq T, NEW q \in Seq(S)
    PROVE  q \in Seq(T)
OBVIOUS

LEMMA RecomputedSplits ==
    ASSUME NEW sp, NEW r \in AccountRec
    PROVE  Recomputed(sp, r).splits = r.splits
BY DEF Recomputed, AccountRec

LEMMA MarkedSplits ==
    ASSUME FieldTypes, NEW a
    PROVE  \A x \in Account : Marked(a)[x].splits = account[x].splits
BY DEF Marked, FieldTypes, AccountRec

LEMMA EnteringSplits ==
    ASSUME FieldTypes, NEW s \in Split, NEW x \in Account
    PROVE  Entering(s)[x].splits =
             IF x = split[s].orig_acc /\ s \in account[x].splits
                /\ (split[s].orig_acc # split[s].acc \/ split[s].do_free)
             THEN account[x].splits \ {s}
             ELSE IF x = split[s].acc /\ split[s].orig_acc # split[s].acc
                     /\ ~split[s].do_free
             THEN account[x].splits \cup {s}
             ELSE account[x].splits
<1>1. account[x] \in AccountRec
  BY DEF FieldTypes
<1>2. /\ [account[x] EXCEPT !.splits = @ \ {s}, !.balance_dirty = TRUE] \in AccountRec
      /\ [account[x] EXCEPT !.splits = @ \ {s}, !.balance_dirty = TRUE].splits
           = account[x].splits \ {s}
      /\ [account[x] EXCEPT !.splits = @ \cup {s}, !.balance_dirty = TRUE].splits
           = account[x].splits \cup {s}
  BY <1>1 DEF AccountRec
<1>3. Recomputed(split, [account[x] EXCEPT !.splits = @ \ {s}, !.balance_dirty = TRUE]).splits
        = account[x].splits \ {s}
  BY <1>2, RecomputedSplits
<1>4. QED
  BY <1>2, <1>3 DEF Entering

LEMMA CommitSplitSplits ==
    ASSUME FieldTypes, NEW s \in Split, NEW ok \in Answers, CommitSplit(s, ok),
           NEW x \in Account
    PROVE  account'[x].splits = Entering(s)[x].splits
<1>1. Entering(s)[x] \in AccountRec
  BY EnteringType
<1>2. [Entering(s)[x] EXCEPT !.balance_dirty = TRUE] \in AccountRec
  BY <1>1 DEF AccountRec
<1>3. [Entering(s)[x] EXCEPT !.balance_dirty = TRUE].splits = Entering(s)[x].splits
  BY <1>1 DEF AccountRec
<1>4. Recomputed(split', [Entering(s)[x] EXCEPT !.balance_dirty = TRUE]).splits
        = Entering(s)[x].splits
  BY <1>2, <1>3, RecomputedSplits
<1>5. account' = Entering(s)
      \/ account' = [y \in Account |->
                       IF y = split[s].acc
                       THEN Recomputed(split', [Entering(s)[y] EXCEPT !.balance_dirty = TRUE])
                       ELSE Entering(s)[y]]
  BY DEF CommitSplit
<1>6. QED
  BY <1>4, <1>5

\* What a commit of split s does to its links.
LEMMA CommitSplitLinks ==
    ASSUME FieldTypes, NEW s \in Split, NEW ok \in Answers, CommitSplit(s, ok)
    PROVE  /\ \A x \in Split \ {s} : split'[x] = split[x]
           /\ \/ /\ ok /\ split[s].do_free
                 /\ split'[s] = FreedSplit
              \/ /\ ~(ok /\ split[s].do_free)
                 /\ ~ok => CanFail /\ ~split'[s].do_free
                 /\ split'[s].live = split[s].live
                 /\ split'[s].parent = split[s].parent
                 /\ split'[s].orig_parent = split[s].parent
                 /\ split'[s].acc = split[s].acc
                 /\ split'[s].orig_acc = split[s].acc
<1> DEFINE settled == [split[s] EXCEPT !.orig_acc = split[s].acc,
                                       !.orig_parent = split[s].parent]
<1>1. split[s] \in SplitRec /\ split \in [Split -> SplitRec]
  BY DEF FieldTypes
<1>2. ~ok => CanFail
  BY DEF Answers
<1>3. settled \in SplitRec
  BY <1>1 DEF SplitRec
<1>4. split' = [split EXCEPT ![s] =
                  IF ok /\ settled.do_free THEN FreedSplit
                  ELSE IF ok THEN [settled EXCEPT !.dirty = FALSE, !.infant = FALSE]
                  ELSE [settled EXCEPT !.do_free = FALSE]]
  BY DEF CommitSplit
<1>5. settled.do_free = split[s].do_free
  BY <1>1 DEF SplitRec
<1>6. \A x \in Split \ {s} : split'[x] = split[x]
  BY <1>1, <1>4
<1>7. CASE ok /\ split[s].do_free
  BY <1>1, <1>4, <1>5, <1>6, <1>7
<1>8. CASE ~(ok /\ split[s].do_free)
 <2>1. \/ split'[s] = [settled EXCEPT !.dirty = FALSE, !.infant = FALSE]
       \/ split'[s] = [settled EXCEPT !.do_free = FALSE]
   BY <1>1, <1>4, <1>5, <1>8
 <2>2. \A f \in {"live", "parent", "orig_parent", "acc", "orig_acc"} :
         split'[s][f] = settled[f]
   BY <1>3, <2>1 DEF SplitRec
 <2>3. /\ split'[s].live = settled.live
       /\ split'[s].parent = settled.parent
       /\ split'[s].orig_parent = settled.orig_parent
       /\ split'[s].acc = settled.acc
       /\ split'[s].orig_acc = settled.orig_acc
   BY <2>2
 <2>4. /\ settled.live = split[s].live
       /\ settled.parent = split[s].parent
       /\ settled.orig_parent = split[s].parent
       /\ settled.acc = split[s].acc
       /\ settled.orig_acc = split[s].acc
   BY <1>1 DEF SplitRec
 <2>5. ~ok => ~split'[s].do_free
  <3>1. ~ok => split'[s] = [settled EXCEPT !.do_free = FALSE]
    BY <1>1, <1>4
  <3>2. QED
    BY <1>3, <3>1 DEF SplitRec
 <2>6. QED
   BY <1>2, <1>6, <1>8, <2>3, <2>4, <2>5
<1>9. QED
  BY <1>7, <1>8

LEMMA CommitSplitLists ==
    ASSUME AccountInv, NEW s \in Split, split[s].live,
           NEW ok \in Answers, CommitSplit(s, ok), Under("cleanup") \/ Under("clear")
    PROVE  /\ GoneBlank' /\ AccountLists' /\ NoneMissed
           /\ SettledFrame \subseteq SettledFrame'
<1> DEFINE o == split[s].orig_acc
           a == split[s].acc
           gone == split[s].do_free
<1>1. FieldTypes
  BY DEF AccountInv
<1>2. \A x \in Split \ {s} : split'[x] = split[x]
  BY <1>1, CommitSplitLinks
<1>3. \/ /\ ok /\ gone
         /\ split'[s] = FreedSplit
      \/ /\ ~(ok /\ gone)
         /\ ~ok => CanFail /\ ~split'[s].do_free
         /\ split'[s].live
         /\ split'[s].parent = split[s].parent
         /\ split'[s].orig_parent = split[s].parent
         /\ split'[s].acc = a
         /\ split'[s].orig_acc = a
  BY <1>1, CommitSplitLinks
<1>4. /\ ~FreedSplit.live
      /\ FreedSplit.parent = None /\ FreedSplit.orig_parent = None
      /\ FreedSplit.acc = None /\ FreedSplit.orig_acc = None
  BY DEF FreedSplit
<1>5. GoneBlank'
  BY <1>2, <1>3, <1>4 DEF AccountInv, GoneBlank
<1>6. SettledFrame \subseteq SettledFrame'
  BY <1>2, <1>3, <1>4, SettledFrameGrows DEF Settled
<1>7. \A x \in Account :
        account'[x].splits =
          IF x = o /\ s \in account[x].splits /\ (o # a \/ gone)
          THEN account[x].splits \ {s}
          ELSE IF x = a /\ o # a /\ ~gone
          THEN account[x].splits \cup {s}
          ELSE account[x].splits
  BY <1>1, CommitSplitSplits, EnteringSplits
<1>8. \A x \in Account : s \in account[x].splits => x = o
  BY DEF AccountInv, AccountLists
<1>9. AccountLists'
 <2>1. ASSUME NEW q \in Split, NEW x \in Account, q \in account'[x].splits
       PROVE  split'[q].live /\ split'[q].orig_acc = x
  <3>1. CASE q # s
   <4>1. q \in account[x].splits
    <5>1. \/ account'[x].splits = account[x].splits \ {s}
          \/ account'[x].splits = account[x].splits \cup {s}
          \/ account'[x].splits = account[x].splits
      BY <1>7
    <5>2. QED
      BY <2>1, <3>1, <5>1
   <4>2. QED
     BY <1>2, <3>1, <4>1 DEF AccountInv, AccountLists
  <3>2. CASE q = s
   <4>1. ~gone /\ x = a
     BY <1>7, <1>8, <2>1, <3>2
   <4>2. QED
     BY <1>3, <3>2, <4>1
  <3>3. QED
    BY <3>1, <3>2
 <2>2. ASSUME NEW q \in Split, NEW x \in Account,
              split'[q].live, split'[q].orig_acc = x, ~CanFail
       PROVE  q \in account'[x].splits
  <3>1. CASE q # s
   <4>1. q \in account[x].splits
    <5>1. split'[q] = split[q]
      BY <1>2, <3>1
    <5>2. split[q].live /\ split[q].orig_acc = x
      BY <2>2, <5>1
    <5>3. QED
      BY <2>2, <5>2 DEF AccountInv, AccountLists
   <4>2. QED
     BY <1>7, <3>1, <4>1
  <3>2. CASE q = s
   <4>1. ~gone /\ x = a
     BY <1>3, <1>4, <2>2, <3>2
   <4>2. o = a => s \in account[x].splits
     BY <2>2, <3>2, <4>1 DEF AccountInv, AccountLists
   <4>3. QED
     BY <1>7, <3>2, <4>1, <4>2
  <3>3. QED
    BY <3>1, <3>2
 <2>3. QED
   BY <2>1, <2>2 DEF AccountLists
<1>10. NoneMissed
 <2>1. ASSUME NEW q \in Split, q # s, Missing(q)'
       PROVE  Missing(q)
  <3>1. split'[q] = split[q] /\ split[q].orig_acc \in Account \cup {None}
    BY <1>1, <1>2, <2>1 DEF FieldTypes, SplitRec
  <3>2. \A x \in Account : q \in account[x].splits => q \in account'[x].splits
    BY <1>7, <2>1
  <3>3. QED
    BY <2>1, <3>1, <3>2 DEF Missing
 <2>2. ASSUME Missing(s)', gone PROVE ~split'[s].do_free
   BY <1>3, <1>4, <2>2 DEF Missing
 <2>3. ASSUME Missing(s)', ~gone PROVE Missing(s)
  <3>1. a \in Account \cup {None} /\ split'[s].orig_acc = a
    BY <1>1, <1>3, <2>3 DEF FieldTypes, SplitRec
  <3>2. a \in Account /\ s \notin account'[a].splits
    BY <2>3, <3>1 DEF Missing
  <3>3. o = a /\ s \notin account[a].splits
    BY <1>7, <2>3, <3>2
  <3>4. QED
    BY <2>3, <3>1, <3>2, <3>3 DEF Missing
 <2>4. QED
   BY <2>1, <2>2, <2>3 DEF NoneMissed
<1>11. QED
  BY <1>5, <1>6, <1>9, <1>10

\* The steps that commit several splits' transaction leave the links alone.
LEMMA StoreTransSettled ==
    ASSUME FieldTypes, NEW t \in Trans, NEW listed \in SUBSET Split,
           NEW rest \in Seq(SettledFrame), StoreTrans(t, listed, rest)
    PROVE  stack' \in Seq(SettledFrame)
<1>1. \/ stack' = <<Call("cleanup", t, None, listed)>> \o rest
      \/ stack' = <<Call("rollback", t, None, listed)>> \o rest
  BY DEF StoreTrans
<1>2. /\ Call("cleanup", t, None, listed) \in SettledFrame
      /\ Call("rollback", t, None, listed) \in SettledFrame
  BY CallSettled
<1>3. QED
  BY <1>1, <1>2, PushSettled

LEMMA BalancedLinks ==
    ASSUME FieldTypes, NEW t \in Trans, NEW b \in Split, NEW v \in Amount,
           split' = Balanced(t, b, v)
    PROVE  \A s \in Split : LinksKept(s) \/ Allocated(s)
<1>1. split[b] \in SplitRec /\ split \in [Split -> SplitRec]
  BY DEF FieldTypes
<1>2. \A s \in Split \ {b} : split'[s] = split[s]
  BY <1>1 DEF Balanced
<1>3. CASE ~split[b].live
 <2>1. split'[b] = NewSplit(t, Imbalance, v)
   BY <1>1, <1>3 DEF Balanced
 <2>2. Allocated(b)
   BY <1>3, <2>1 DEF Allocated, NewSplit
 <2>3. QED
   BY <1>2, <2>2 DEF LinksKept
<1>4. CASE split[b].live
 <2>1. \/ split'[b] = [split[b] EXCEPT !.dirty = TRUE, !.do_free = TRUE]
       \/ split'[b] = [split[b] EXCEPT !.dirty = TRUE, !.amount = v]
   BY <1>1, <1>4 DEF Balanced
 <2>2. LinksKept(b)
   BY <1>1, <2>1 DEF LinksKept, SplitRec
 <2>3. QED
   BY <1>2, <2>2 DEF LinksKept
<1>5. QED
  BY <1>3, <1>4

LEMMA CommitCallLinks ==
    ASSUME AccountInv, NEW t \in Trans, NEW rest \in Seq(SettledFrame),
           CommitCall(t, rest)
    PROVE  /\ \A s \in Split : LinksKept(s) \/ Allocated(s)
           /\ ListsKept
           /\ stack' \in Seq(SettledFrame)
<1>1. FieldTypes
  BY DEF AccountInv
<1>2. trans[t].splits \in SUBSET Split
  BY <1>1 DEF FieldTypes, TransRec
<1>3. CASE stack' = rest /\ UNCHANGED <<split, account>>
  BY <1>3 DEF LinksKept, ListsKept
<1>4. CASE StoreTrans(t, trans[t].splits, rest) /\ UNCHANGED <<split, account>>
  BY <1>1, <1>2, <1>4, StoreTransSettled DEF LinksKept, ListsKept
<1>5. CASE \E b \in BalanceSplits(t) :
             \E new \in Amount :
                 /\ split' = Balanced(t, b, new)
                 /\ account' = IF new = 0 THEN account ELSE Marked(Imbalance)
                 /\ StoreTrans(t, trans[t].splits \cup {b}, rest)
 <2>1. BalanceSplits(t) \subseteq Split
   BY <1>2 DEF BalanceSplits, Owned
 <2>2. PICK b \in Split, new \in Amount :
         /\ split' = Balanced(t, b, new)
         /\ account' = IF new = 0 THEN account ELSE Marked(Imbalance)
         /\ StoreTrans(t, trans[t].splits \cup {b}, rest)
   BY <1>5, <2>1
 <2>3. \A s \in Split : LinksKept(s) \/ Allocated(s)
   BY <1>1, <2>2, BalancedLinks
 <2>4. ListsKept
   BY <1>1, <2>2, MarkedSplits DEF ListsKept
 <2>5. trans[t].splits \cup {b} \in SUBSET Split
   BY <1>2
 <2>6. QED
   BY <1>1, <2>2, <2>3, <2>4, <2>5, StoreTransSettled
<1>6. CASE CommitDestroyed(t, rest)
 <2> DEFINE mine == {s \in trans[t].splits : split[s].parent = t}
 <2>1. ListsKept
   BY <1>6 DEF CommitDestroyed, ListsKept
 <2>2. \/ split' = split
       \/ split' = [s \in Split |->
                      IF s \in mine
                      THEN [split[s] EXCEPT !.dirty = TRUE, !.do_free = TRUE]
                      ELSE split[s]]
   BY <1>6 DEF CommitDestroyed
 <2>3. \A s \in Split : LinksKept(s)
  <3>1. \A s \in Split : split[s] \in SplitRec
    BY <1>1 DEF FieldTypes
  <3>2. ASSUME NEW s \in Split
        PROVE  LinksKept(s)
   <4>1. \/ split'[s] = split[s]
         \/ split'[s] = [split[s] EXCEPT !.dirty = TRUE, !.do_free = TRUE]
     BY <2>2
   <4>2. QED
     BY <3>1, <4>1 DEF LinksKept, SplitRec
  <3>3. QED
    BY <3>2
 <2>4. \/ stack' = <<Call("clear", t, None, mine)>> \o rest
       \/ stack' = <<Call("rollback", t, None, trans[t].splits)>> \o rest
   BY <1>6 DEF CommitDestroyed
 <2>5. /\ Call("clear", t, None, mine) \in SettledFrame
       /\ Call("rollback", t, None, trans[t].splits) \in SettledFrame
   BY <1>2, CallSettled
 <2>6. stack' \in Seq(SettledFrame)
   BY <2>4, <2>5, PushSettled
 <2>7. QED
   BY <2>1, <2>3, <2>6
<1>7. QED
  BY <1>3, <1>4, <1>5, <1>6 DEF CommitCall, CommitKept

LEMMA SetParentCallLinks ==
    ASSUME FieldTypes, NEW sp \in [Split -> SplitRec], NEW s \in Split,
           NEW t \in Trans \cup {None}, NEW rest, SetParentCall(sp, s, t, rest)
    PROVE  /\ \A x \in Split \ {s} : split'[x] = sp[x]
           /\ split'[s].parent = t
           /\ split'[s].live = sp[s].live
           /\ split'[s].orig_parent = sp[s].orig_parent
           /\ split'[s].acc = sp[s].acc
           /\ split'[s].orig_acc = sp[s].orig_acc
           /\ \/ stack' = rest
              \/ stack' = <<Call("close", sp[s].parent, None, {}),
                            Call("adopt", t, s, {})>> \o rest
<1>1. sp[s] \in SplitRec
  OBVIOUS
<1>2. CASE sp[s].parent = t
  BY <1>2 DEF SetParentCall
<1>3. CASE sp[s].parent # t
 <2>1. split' = [sp EXCEPT ![s].parent = t]
   BY <1>3 DEF SetParentCall
 <2>2. split'[s] = [sp[s] EXCEPT !.parent = t]
   BY <2>1
 <2>3. \A x \in Split \ {s} : split'[x] = sp[x]
   BY <2>1
 <2>4. /\ split'[s].parent = t
       /\ split'[s].live = sp[s].live
       /\ split'[s].orig_parent = sp[s].orig_parent
       /\ split'[s].acc = sp[s].acc
       /\ split'[s].orig_acc = sp[s].orig_acc
   BY <1>1, <2>2 DEF SplitRec
 <2>5. stack' = <<Call("close", sp[s].parent, None, {}),
                  Call("adopt", t, s, {})>> \o rest
   BY <1>3 DEF SetParentCall
 <2>6. QED
   BY <2>3, <2>4, <2>5
<1>4. QED
  BY <1>2, <1>3

LEMMA SetParentCallSettled ==
    ASSUME NEW S, SettledFrame \subseteq S, NEW t \in Trans \cup {None},
           NEW old \in Trans \cup {None}, NEW s \in Split, NEW rest \in Seq(S),
           \/ stack' = rest
           \/ stack' = <<Call("close", old, None, {}), Call("adopt", t, s, {})>> \o rest
    PROVE  stack' \in Seq(S)
<1>1. Call("close", old, None, {}) \in S /\ Call("adopt", t, s, {}) \in S
  BY CallSettled
<1>2. <<Call("close", old, None, {}), Call("adopt", t, s, {})>> \in Seq(S)
  BY <1>1
<1>3. <<Call("close", old, None, {}), Call("adopt", t, s, {})>> \o rest \in Seq(S)
  BY <1>2
<1>4. QED
  BY <1>3

LEMMA ClientAccountInv == AccountInv /\ ClientCall => AccountInv' /\ NoneMissed
<1> SUFFICES ASSUME AccountInv, ClientCall PROVE AccountInv' /\ NoneMissed
  OBVIOUS
<1>1. FieldTypes /\ FieldTypes'
  BY ClientTypeOK DEF AccountInv
<1>2. \A s \in Split : split[s] \in SplitRec
  BY <1>1 DEF FieldTypes
<1>3. <<>> \in Seq(SettledFrame)
  OBVIOUS
<1>4. ASSUME ListsKept, \A s \in Split : LinksKept(s) \/ Allocated(s),
             stack' \in Seq(SettledFrame)
      PROVE  AccountInv' /\ NoneMissed
 <2>1. /\ GoneBlank' /\ AccountLists' /\ NoneMissed
       /\ SettledFrame \subseteq SettledFrame'
   BY <1>4, QuietStep
 <2>2. stack' \in Seq(SettledFrame')
   BY <1>4, <2>1, SeqGrows
 <2>3. QED
   BY <1>1, <2>1, <2>2 DEF AccountInv
<1>5. stack \in Seq(SettledFrame)
  BY DEF AccountInv
<1>6. ASSUME NEW t \in Trans, BeginEdit(t) \/ MallocTrans(t) PROVE AccountInv' /\ NoneMissed
  BY <1>4, <1>5, <1>6 DEF BeginEdit, MallocTrans, ListsKept, LinksKept
<1>7. ASSUME NEW t \in Trans, CommitEdit(t) PROVE AccountInv' /\ NoneMissed
  BY <1>3, <1>4, <1>7, CommitCallLinks DEF CommitEdit
<1>8. ASSUME NEW t \in Trans, RollbackEdit(t) PROVE AccountInv' /\ NoneMissed
 <2>1. trans[t].splits \in SUBSET Split
   BY <1>1 DEF FieldTypes, TransRec
 <2>2. Call("rollback", t, None, trans[t].splits) \in SettledFrame
   BY <2>1, CallSettled
 <2>3. <<Call("rollback", t, None, trans[t].splits)>> \in Seq(SettledFrame)
   BY <2>2
 <2>4. stack' \in Seq(SettledFrame)
   BY <1>5, <1>8, <2>3 DEF RollbackEdit
 <2>5. QED
   BY <1>4, <1>8, <2>4 DEF RollbackEdit, ListsKept, LinksKept
<1>9. ASSUME NEW t \in Trans, TransDestroy(t) PROVE AccountInv' /\ NoneMissed
 <2>1. Call("close", t, None, {}) \in SettledFrame
   BY CallSettled
 <2>2. stack' \in Seq(SettledFrame)
   BY <1>9, <2>1 DEF TransDestroy
 <2>3. QED
   BY <1>4, <1>9, <2>2 DEF TransDestroy, ListsKept, LinksKept
<1>10. ASSUME NEW t \in Trans, NEW d \in Description, SetDescription(t, d)
       PROVE  AccountInv' /\ NoneMissed
  BY <1>4, <1>5, <1>10 DEF SetDescription, ListsKept, LinksKept
<1>11. ASSUME NEW t \in Trans, NEW s \in Split, NEW a \in Account, NEW v \in Entered,
              MallocSplit(t, s, a, v)
       PROVE  AccountInv' /\ NoneMissed
 <2>1. split'[s] = NewSplit(t, a, v) /\ ~split[s].live
   BY <1>1, <1>11 DEF MallocSplit, FieldTypes
 <2>2. Allocated(s)
   BY <2>1 DEF Allocated, NewSplit
 <2>3. \A x \in Split \ {s} : LinksKept(x)
   BY <1>1, <1>11 DEF MallocSplit, LinksKept, FieldTypes
 <2>4. ListsKept
   BY <1>1, <1>11, MarkedSplits DEF MallocSplit, ListsKept
 <2>5. QED
   BY <1>4, <1>5, <1>11, <2>2, <2>3, <2>4 DEF MallocSplit
<1>12. ASSUME NEW s \in Split, SplitDestroy(s) PROVE AccountInv' /\ NoneMissed
  BY <1>4, <1>5, <1>12, <1>1, <1>2 DEF SplitDestroy, ListsKept, LinksKept, SplitRec, FieldTypes
<1>13. ASSUME NEW s \in Split, NEW v \in Entered, SetBaseValue(s, v) PROVE AccountInv' /\ NoneMissed
 <2>1. \A x \in Split : LinksKept(x)
   BY <1>1, <1>2, <1>13 DEF SetBaseValue, LinksKept, SplitRec, FieldTypes
 <2>2. ListsKept
   BY <1>1, <1>13, MarkedSplits DEF SetBaseValue, ListsKept
 <2>3. QED
   BY <1>4, <1>5, <1>13, <2>1, <2>2 DEF SetBaseValue
<1>14. ASSUME NEW s \in Split, NEW r \in BOOLEAN, SetReconcile(s, r) PROVE AccountInv' /\ NoneMissed
 <2>1. \A x \in Split : LinksKept(x)
   BY <1>1, <1>2, <1>14 DEF SetReconcile, LinksKept, SplitRec, FieldTypes
 <2>2. \A a \in Account : /\ Marked(a)[a] \in AccountRec
                          /\ Marked(a)[a].splits = account[a].splits
   BY <1>1, MarkedType, MarkedSplits
 <2>3. \A a \in Account :
         Recomputed(split', Marked(a)[a]).splits = account[a].splits
   BY <2>2, RecomputedSplits
 <2>4. ListsKept
   BY <1>14, <2>3 DEF SetReconcile, ListsKept
 <2>5. QED
   BY <1>4, <1>5, <1>14, <2>1, <2>4 DEF SetReconcile
<1>15. ASSUME NEW s \in Split, NEW a \in Account, SetAccount(s, a) PROVE AccountInv' /\ NoneMissed
 <2>1. split' = [split EXCEPT ![s].acc = a, ![s].dirty = TRUE] /\ split[s].live
   BY <1>15 DEF SetAccount, SettingSplit
 <2>2. /\ \A x \in Split \ {s} : split'[x] = split[x]
       /\ split'[s].live /\ split'[s].orig_acc = split[s].orig_acc
  <3>1. split'[s] = [split[s] EXCEPT !.acc = a, !.dirty = TRUE]
    BY <1>1, <2>1 DEF FieldTypes
  <3>2. \A x \in Split \ {s} : split'[x] = split[x]
    BY <1>1, <2>1 DEF FieldTypes
  <3>3. split[s] \in SplitRec
    BY <1>2
  <3>4. split'[s].live = split[s].live /\ split'[s].orig_acc = split[s].orig_acc
    BY <3>1, <3>3 DEF SplitRec
  <3>5. QED
    BY <2>1, <3>2, <3>4
 <2>3. GoneBlank'
   BY <2>2 DEF AccountInv, GoneBlank
 <2>4. AccountLists'
  <3>1. \A x \in Split : /\ split'[x].live = split[x].live
                         /\ split'[x].orig_acc = split[x].orig_acc
    BY <2>1, <2>2, <1>2 DEF SplitRec
  <3>2. account' = account
    BY <1>15 DEF SetAccount
  <3>3. QED
    BY <3>1, <3>2 DEF AccountInv, AccountLists
 <2>5. stack' = <<>>
   BY <1>15 DEF SetAccount, SettingSplit, Setting, Idle
 <2>6. NoneMissed
  <3>1. ListsKept
    BY <1>15 DEF SetAccount, ListsKept
  <3>2. QED
    BY <1>1, <2>1, <2>2, <3>1, NothingMissed
 <2>7. QED
   BY <1>1, <2>3, <2>4, <2>5, <2>6 DEF AccountInv
<1>16. ASSUME NEW s \in Split, NEW t \in Trans, MoveSplit(s, t) PROVE AccountInv' /\ NoneMissed
 <2>1. SetParentCall(split, s, t, <<>>) /\ split[s].live /\ account' = account
   BY <1>16 DEF MoveSplit
 <2>2. split \in [Split -> SplitRec] /\ split[s].parent \in Trans \cup {None}
   BY <1>1, <1>2 DEF FieldTypes, SplitRec
 <2>3. /\ \A x \in Split \ {s} : split'[x] = split[x]
       /\ split'[s].live
       /\ split'[s].acc = split[s].acc
       /\ split'[s].orig_acc = split[s].orig_acc
   BY <1>1, <2>1, <2>2, SetParentCallLinks
 <2>4. GoneBlank'
   BY <2>3 DEF AccountInv, GoneBlank
 <2>5. AccountLists'
   BY <2>1, <2>3 DEF AccountInv, AccountLists
 <2>6. SettledFrame \subseteq SettledFrame'
   BY <2>3, SettledFrameGrows DEF Settled
 <2>7. \/ stack' = <<>>
       \/ stack' = <<Call("close", split[s].parent, None, {}),
                     Call("adopt", t, s, {})>> \o <<>>
   BY <1>1, <2>1, <2>2, SetParentCallLinks
 <2>8. stack' \in Seq(SettledFrame)
   BY <1>3, <2>2, <2>7, SetParentCallSettled
 <2>9. NoneMissed
  <3>1. ListsKept
    BY <2>1 DEF ListsKept
  <3>2. QED
    BY <1>1, <2>1, <2>3, <3>1, NothingMissed
 <2>10. QED
   BY <1>1, <2>4, <2>5, <2>6, <2>8, <2>9, SeqGrows DEF AccountInv
<1>17. ASSUME NEW a \in Account, AccountCommitEdit(a) PROVE AccountInv' /\ NoneMissed
 <2>1. ListsKept
   BY <1>1, <1>17, RecomputedSplits DEF AccountCommitEdit, ListsKept, FieldTypes
 <2>2. QED
   BY <1>4, <1>5, <1>17, <2>1 DEF AccountCommitEdit, LinksKept
<1>18. QED
  BY <1>6, <1>7, <1>8, <1>9, <1>10, <1>11, <1>12, <1>13, <1>14, <1>15, <1>16, <1>17
  DEF ClientCall

LEMMA CallAccountInv == AccountInv /\ CallStep => AccountInv' /\ NoneMissed
<1> SUFFICES ASSUME AccountInv, CallStep PROVE AccountInv' /\ NoneMissed
  OBVIOUS
<1>1. FieldTypes /\ FieldTypes'
  BY CallTypeOK DEF AccountInv
<1>2. \A s \in Split : split[s] \in SplitRec
  BY <1>1 DEF FieldTypes
<1>3. ASSUME ListsKept, \A s \in Split : LinksKept(s) \/ Allocated(s),
             stack' \in Seq(SettledFrame)
      PROVE  AccountInv' /\ NoneMissed
 <2>1. /\ GoneBlank' /\ AccountLists' /\ NoneMissed
       /\ SettledFrame \subseteq SettledFrame'
   BY <1>3, QuietStep
 <2>2. stack' \in Seq(SettledFrame')
   BY <1>3, <2>1, SeqGrows
 <2>3. QED
   BY <1>1, <2>1, <2>2 DEF AccountInv
<1>4. stack # <<>> => Tail(stack) \in Seq(SettledFrame)
  BY PopSettled
<1>5. ASSUME Close PROVE AccountInv' /\ NoneMissed
 <2>1. Tail(stack) \in Seq(SettledFrame)
   BY <1>4, <1>5 DEF Close, Under
 <2>2. CASE stack' = Tail(stack) /\ UNCHANGED <<split, account>>
   BY <1>3, <2>1, <2>2 DEF ListsKept, LinksKept
 <2>3. CASE \E t \in Trans : CommitCall(t, Tail(stack))
   BY <1>3, <2>1, <2>3, CommitCallLinks
 <2>4. QED
   BY <1>5, <2>2, <2>3 DEF Close
<1>6. ASSUME NEW s \in Split, Adopt(s) PROVE AccountInv' /\ NoneMissed
 <2>1. Tail(stack) \in Seq(SettledFrame)
   BY <1>4, <1>6 DEF Adopt, Under
 <2>2. \A x \in Split : LinksKept(x)
   BY <1>1, <1>2, <1>6 DEF LinksKept, SplitRec, FieldTypes, Adopt
 <2>3. CASE stack' = Tail(stack) /\ UNCHANGED <<trans, account>>
   BY <1>3, <2>1, <2>2, <2>3 DEF ListsKept
 <2>4. CASE \E t \in Trans :
              /\ account' = Marked(split[s].acc)
              /\ stack' = <<Call("close", t, None, {})>> \o Tail(stack)
  <3>1. PICK t \in Trans :
             /\ account' = Marked(split[s].acc)
             /\ stack' = <<Call("close", t, None, {})>> \o Tail(stack)
    BY <2>4
  <3>2. ListsKept
    BY <1>1, <3>1, MarkedSplits DEF ListsKept
  <3>3. stack' \in Seq(SettledFrame)
    BY <2>1, <3>1, CallSettled, PushSettled
  <3>4. QED
    BY <1>3, <2>2, <3>2, <3>3
 <2>5. QED
   BY <1>6, <2>3, <2>4 DEF Adopt
<1>7. ASSUME NEW t \in Trans, CleanupDone(t) \/ FreeTransaction(t) \/ RollbackDone(t)
      PROVE  AccountInv' /\ NoneMissed
 <2>1. stack # <<>>
   BY <1>7 DEF CleanupDone, FreeTransaction, RollbackDone, LoopDone, Under
 <2>2. UNCHANGED <<split, account>> /\ stack' = Tail(stack)
   BY <1>7 DEF CleanupDone, FreeTransaction, RollbackDone
 <2>3. QED
   BY <1>3, <1>4, <2>1, <2>2 DEF ListsKept, LinksKept
<1>8. ASSUME NEW t \in Trans, NEW s \in Split, CleanupSplit(t, s) \/ ClearSplit(t, s)
      PROVE  AccountInv' /\ NoneMissed
 <2>1. stack # <<>> /\ Head(stack).op # "discard"
   BY <1>8 DEF CleanupSplit, ClearSplit, Visiting, Under
 <2>2. stack' = Visited(s)
   BY <1>8 DEF CleanupSplit, ClearSplit
 <2>3. stack' \in Seq(SettledFrame)
   BY <2>1, <2>2, VisitedSettled
 <2>4. CASE UNCHANGED <<split, account>>
   BY <1>3, <2>3, <2>4 DEF ListsKept, LinksKept
 <2>5. CASE split[s].parent = t /\ \E ok \in Answers : CommitSplit(s, ok)
  <3>1. split[s].live
   <4>1. None \notin Trans
     BY TransEditAssumption
   <4>2. QED
     BY <2>5, <4>1 DEF AccountInv, GoneBlank
  <3>2. /\ GoneBlank' /\ AccountLists' /\ NoneMissed
        /\ SettledFrame \subseteq SettledFrame'
   <4>1. Under("cleanup") \/ Under("clear")
     BY <1>8 DEF CleanupSplit, ClearSplit, Visiting
   <4>2. QED
     BY <2>5, <3>1, <4>1, CommitSplitLists
  <3>3. QED
    BY <1>1, <2>3, <3>2, SeqGrows DEF AccountInv
 <2>6. QED
   BY <1>8, <2>4, <2>5 DEF CleanupSplit, ClearSplit
<1>9. ASSUME NEW t \in Trans, NEW s \in Split, RollbackSplit(t, s) PROVE AccountInv' /\ NoneMissed
 <2>1. stack # <<>> /\ Head(stack).op # "discard"
   BY <1>9 DEF RollbackSplit, Visiting, Under
 <2>2. Visited(s) \in Seq(SettledFrame)
   BY <2>1, VisitedSettled
 <2>3. account' = account
   BY <1>9 DEF RollbackSplit
 <2>4. CASE split' = split /\ stack' = Visited(s)
   BY <1>3, <2>2, <2>3, <2>4 DEF ListsKept, LinksKept
 <2>5. CASE \E op \in {"restore", "discard"} :
              SetParentCall(Reverted(s), s, split[s].orig_parent,
                            <<Call(op, t, s, {})>> \o Visited(s))
  <3> DEFINE old == Reverted(s)[s].parent
             new == split[s].orig_parent
  <3>1. PICK op \in {"restore", "discard"} :
             SetParentCall(Reverted(s), s, new, <<Call(op, t, s, {})>> \o Visited(s))
    BY <2>5
  <3>2. new \in Trans \cup {None}
    BY <1>2 DEF SplitRec
  <3>3. /\ Reverted(s)[s] \in SplitRec
        /\ Reverted(s)[s].live = split[s].live
        /\ Reverted(s)[s].orig_parent = new
        /\ Reverted(s)[s].acc = split[s].orig_acc
        /\ Reverted(s)[s].orig_acc = split[s].orig_acc
   <4>1. Reverted(s)[s] = [split[s] EXCEPT !.acc = split[s].orig_acc,
                             !.do_free = @ /\ split[s].parent = None]
     BY <1>1 DEF Reverted, FieldTypes
   <4>2. split[s] \in SplitRec
     BY <1>2
   <4>3. QED
     BY <4>1, <4>2 DEF SplitRec
  <3>4. \A x \in Split \ {s} : Reverted(s)[x] = split[x]
    BY <1>1 DEF Reverted, FieldTypes
  <3>5. Reverted(s) \in [Split -> SplitRec]
   <4>1. Reverted(s) = [x \in Split |-> Reverted(s)[x]]
     BY <1>1 DEF Reverted, FieldTypes
   <4>2. \A x \in Split : Reverted(s)[x] \in SplitRec
     BY <1>2, <3>3, <3>4
   <4>3. QED
     BY <4>1, <4>2
  <3>6. /\ \A x \in Split \ {s} : split'[x] = split[x]
        /\ split'[s].parent = new
        /\ split'[s].live = split[s].live
        /\ split'[s].orig_parent = new
        /\ split'[s].acc = split[s].orig_acc
        /\ split'[s].orig_acc = split[s].orig_acc
        /\ \/ stack' = <<Call(op, t, s, {})>> \o Visited(s)
           \/ stack' = <<Call("close", old, None, {}), Call("adopt", new, s, {})>>
                       \o (<<Call(op, t, s, {})>> \o Visited(s))
   <4> DEFINE sp == Reverted(s)
              rest == <<Call(op, t, s, {})>> \o Visited(s)
   <4>1. sp \in [Split -> SplitRec] /\ SetParentCall(sp, s, new, rest)
     BY <3>1, <3>5
   <4> HIDE DEF sp, rest
   <4> HIDE DEF new
   <4>2. /\ \A x \in Split \ {s} : split'[x] = sp[x]
         /\ split'[s].parent = new
         /\ split'[s].live = sp[s].live
         /\ split'[s].orig_parent = sp[s].orig_parent
         /\ split'[s].acc = sp[s].acc
         /\ split'[s].orig_acc = sp[s].orig_acc
     BY <1>1, <3>2, <4>1, SetParentCallLinks
   <4>3. \/ stack' = rest
         \/ stack' = <<Call("close", sp[s].parent, None, {}),
                       Call("adopt", new, s, {})>> \o rest
     BY <1>1, <3>2, <4>1, SetParentCallLinks
   <4>4. /\ \A x \in Split \ {s} : split'[x] = split[x]
         /\ split'[s].parent = new
         /\ split'[s].live = split[s].live
         /\ split'[s].orig_parent = new
         /\ split'[s].acc = split[s].orig_acc
         /\ split'[s].orig_acc = split[s].orig_acc
     BY <3>3, <3>4, <4>2 DEF sp
   <4>5. QED
     BY <3>3, <3>4, <4>3, <4>4 DEF sp, rest
  <3>7. GoneBlank'
    BY <3>6 DEF AccountInv, GoneBlank
  <3>8. AccountLists'
    BY <2>3, <3>6 DEF AccountInv, AccountLists
  <3>9. SettledFrame \subseteq SettledFrame'
    BY <3>6, SettledFrameGrows DEF Settled
  <3>10. Call(op, t, s, {}) \in SettledFrame'
   <4>1. Call(op, t, s, {}) \in Frame /\ Call(op, t, s, {}).s = s
     BY CallType DEF Call
   <4>2. Settled(s)'
     BY <3>6 DEF Settled
   <4>3. QED
     BY <4>1, <4>2 DEF SettledFrame, Frame
  <3>11. <<Call(op, t, s, {})>> \o Visited(s) \in Seq(SettledFrame')
    BY <3>10, <2>2, <3>9, PushSettled, SeqGrows
  <3>12. old \in Trans \cup {None}
    BY <3>3 DEF SplitRec
  <3>13. stack' \in Seq(SettledFrame')
    BY <3>2, <3>6, <3>9, <3>11, <3>12, SetParentCallSettled
  <3>14. NoneMissed
   <4>1. ListsKept
     BY <2>3 DEF ListsKept
   <4>2. QED
     BY <1>1, <3>6, <4>1, NothingMissed
  <3>15. QED
    BY <1>1, <3>7, <3>8, <3>13, <3>14 DEF AccountInv
 <2>6. QED
   BY <1>9, <2>4, <2>5 DEF RollbackSplit
<1>10. ASSUME NEW t \in Trans, NEW s \in Split, Restore(t, s) PROVE AccountInv' /\ NoneMissed
 <2>1. stack' \in Seq(SettledFrame)
   BY <1>4, <1>10 DEF Restore, Under
 <2>2. \A x \in Split : LinksKept(x)
  <3>1. split'[s] = [split[s] EXCEPT !.amount = trans[t].orig.amount[s],
                                     !.reconciled = trans[t].orig.reconciled[s],
                                     !.dirty = FALSE]
    BY <1>1, <1>10 DEF Restore, FieldTypes
  <3>2. \A x \in Split \ {s} : split'[x] = split[x]
    BY <1>1, <1>10 DEF Restore, FieldTypes
  <3>3. LinksKept(s)
   <4>1. split[s] \in SplitRec
     BY <1>2
   <4>2. QED
     BY <3>1, <4>1 DEF LinksKept, SplitRec
  <3>4. QED
    BY <3>2, <3>3 DEF LinksKept
 <2>3. QED
   BY <1>3, <1>10, <2>1, <2>2 DEF Restore, ListsKept
<1>11. ASSUME NEW t \in Trans, NEW s \in Split, Discard(t, s) PROVE AccountInv' /\ NoneMissed
 <2>1. stack' \in Seq(SettledFrame)
   BY <1>4, <1>11 DEF Discard, Under
 <2>2. CASE split[s].parent # None
   BY <1>3, <1>11, <2>1, <2>2 DEF Discard, ListsKept, LinksKept
 <2>3. CASE split[s].parent = None
  <3>1. /\ split' = [split EXCEPT ![s] = FreedSplit]
        /\ account' = [a \in Account |->
             IF a = split[s].acc /\ s \in account[a].splits
             THEN Recomputed(split, [account[a] EXCEPT !.splits = @ \ {s},
                                                       !.balance_dirty = TRUE])
             ELSE account[a]]
    BY <1>11, <2>3 DEF Discard
  <3>2. /\ split'[s] = FreedSplit
        /\ \A x \in Split \ {s} : split'[x] = split[x]
    BY <1>1, <3>1 DEF FieldTypes
  <3>3. /\ ~FreedSplit.live
        /\ FreedSplit.parent = None /\ FreedSplit.orig_parent = None
        /\ FreedSplit.acc = None /\ FreedSplit.orig_acc = None
    BY DEF FreedSplit
  <3>4. \A a \in Account :
          account'[a].splits = IF a = split[s].acc THEN account[a].splits \ {s}
                               ELSE account[a].splits
   <4>1. \A a \in Account :
           LET r == [account[a] EXCEPT !.splits = @ \ {s}, !.balance_dirty = TRUE]
           IN  r \in AccountRec /\ r.splits = account[a].splits \ {s}
     BY <1>1 DEF FieldTypes, AccountRec
   <4>2. \A a \in Account :
           Recomputed(split, [account[a] EXCEPT !.splits = @ \ {s},
                                                !.balance_dirty = TRUE]).splits
             = account[a].splits \ {s}
     BY <4>1, RecomputedSplits
   <4>3. QED
     BY <3>1, <4>2
  <3>5. Settled(s)
    BY <1>11, PopSettled DEF Discard, Under, SettledFrame
  <3>6. \A a \in Account : s \notin account'[a].splits
   <4>1. \A a \in Account : s \in account[a].splits => split[s].orig_acc = a
     BY DEF AccountInv, AccountLists
   <4>2. None \notin Account
     BY TransEditAssumption
   <4>3. QED
     BY <3>4, <3>5, <4>1, <4>2 DEF Settled
  <3>7. AccountLists'
   <4>1. ASSUME NEW q \in Split, NEW a \in Account, q \in account'[a].splits
         PROVE  split'[q].live /\ split'[q].orig_acc = a
    <5>1. q # s /\ q \in account[a].splits
      BY <3>4, <3>6, <4>1
    <5>2. QED
      BY <3>2, <5>1 DEF AccountInv, AccountLists
   <4>2. ASSUME NEW q \in Split, NEW a \in Account,
                split'[q].live, split'[q].orig_acc = a, ~CanFail
         PROVE  q \in account'[a].splits
    <5>1. q # s
      BY <3>2, <3>3, <4>2
    <5>2. split[q].live /\ split[q].orig_acc = a
      BY <3>2, <4>2, <5>1
    <5>3. q \in account[a].splits
      BY <4>2, <5>2 DEF AccountInv, AccountLists
    <5>4. QED
      BY <3>4, <5>1, <5>3
   <4>3. QED
     BY <4>1, <4>2 DEF AccountLists
  <3>8. GoneBlank'
    BY <3>2, <3>3 DEF AccountInv, GoneBlank
  <3>9. SettledFrame \subseteq SettledFrame'
    BY <3>2, <3>3, SettledFrameGrows DEF Settled
  <3>10. NoneMissed
   <4>1. ASSUME NEW q \in Split, Missing(q)' PROVE Missing(q)
    <5>1. q # s
      BY <3>2, <3>3, <4>1 DEF Missing
    <5>2. split'[q] = split[q] /\ split[q].orig_acc \in Account \cup {None}
      BY <1>1, <3>2, <5>1 DEF FieldTypes, SplitRec
    <5>3. QED
      BY <3>4, <4>1, <5>1, <5>2 DEF Missing
   <4>2. QED
     BY <4>1 DEF NoneMissed
  <3>11. QED
    BY <1>1, <2>1, <3>7, <3>8, <3>9, <3>10, SeqGrows DEF AccountInv
 <2>4. QED
   BY <2>2, <2>3
<1>12. ASSUME NEW t \in Trans, NEW s \in Split, ReadFreed(t, s) PROVE AccountInv' /\ NoneMissed
 <2>1. stack \in Seq(SettledFrame)
   BY DEF AccountInv
 <2>2. QED
   BY <1>3, <1>12, <2>1 DEF ReadFreed, ListsKept, LinksKept
<1>13. QED
  BY <1>5, <1>6, <1>7, <1>8, <1>9, <1>10, <1>11, <1>12 DEF CallStep

LEMMA InitAccountInv == Init => AccountInv
<1> SUFFICES ASSUME Init PROVE AccountInv
  OBVIOUS
<1>1. FieldTypes
  BY InitTypeOK
<1>2. \A s \in Split : split[s] = LoadedSplit(s)
  BY DEF Init
<1>3. ASSUME NEW s \in Split
      PROVE  IF Loaded[s] = None THEN split[s] = FreedSplit
             ELSE split[s].live = TRUE /\ split[s].orig_acc = Loaded[s].acc
 <2>1. CASE Loaded[s] = None
   BY <1>2, <2>1 DEF LoadedSplit
 <2>2. CASE Loaded[s] # None
  <3>1. split[s] =
         [live |-> TRUE, infant |-> FALSE, dirty |-> FALSE, do_free |-> FALSE,
          parent |-> Loaded[s].parent, orig_parent |-> Loaded[s].parent,
          acc |-> Loaded[s].acc, orig_acc |-> Loaded[s].acc,
          amount |-> Loaded[s].amount, reconciled |-> Loaded[s].reconciled]
    BY <1>2, <2>2 DEF LoadedSplit
  <3>2. QED
    BY <2>2, <3>1
 <2>3. QED
   BY <2>1, <2>2
<1>8. /\ FreedSplit.live = FALSE
      /\ FreedSplit.parent = None /\ FreedSplit.orig_parent = None
      /\ FreedSplit.acc = None /\ FreedSplit.orig_acc = None
  BY DEF FreedSplit
<1>9. GoneBlank
  BY <1>3, <1>8 DEF GoneBlank
<1>4. \A a \in Account :
        account[a].splits = {s \in Split : Loaded[s] # None /\ Loaded[s].acc = a}
 <2> SUFFICES ASSUME NEW a \in Account
              PROVE  account[a].splits = {s \in Split : Loaded[s] # None /\ Loaded[s].acc = a}
   OBVIOUS
 <2> DEFINE r == [splits |-> {s \in Split : Loaded[s] # None /\ Loaded[s].acc = a},
                  balance |-> [s \in Split |-> None], balance_dirty |-> TRUE]
 <2>1. r \in AccountRec
   BY DEF AccountRec, Balance
 <2>2. Recomputed([s \in Split |-> LoadedSplit(s)], r).splits = r.splits
   BY <2>1, RecomputedSplits
 <2>3. account[a] = Recomputed([s \in Split |-> LoadedSplit(s)], r)
   BY DEF Init, LoadedAccount
 <2>4. QED
   BY <2>2, <2>3
<1>5. AccountLists
  BY <1>3, <1>4, <1>8 DEF AccountLists
<1>6. stack \in Seq(SettledFrame)
 <2>1. stack = <<>>
   BY DEF Init
 <2>2. QED
   BY <2>1
<1>7. QED
  BY <1>1, <1>9, <1>5, <1>6 DEF AccountInv

LEMMA AccountInvKept == AccountInv /\ [Next]_vars => AccountInv'
<1>1. AccountInv /\ UNCHANGED vars => AccountInv'
 <2> SUFFICES ASSUME AccountInv, UNCHANGED vars PROVE AccountInv'
   OBVIOUS
 <2>1. FieldTypes'
   BY DEF AccountInv, FieldTypes, vars
 <2>2. ListsKept /\ \A s \in Split : LinksKept(s) \/ Allocated(s)
   BY DEF vars, ListsKept, LinksKept
 <2>3. GoneBlank' /\ AccountLists' /\ SettledFrame \subseteq SettledFrame'
   BY <2>2, QuietStep
 <2>4. stack' \in Seq(SettledFrame)
   BY DEF AccountInv, vars
 <2>5. QED
   BY <2>1, <2>3, <2>4, SeqGrows DEF AccountInv
<1>2. QED
  BY <1>1, ClientAccountInv, CallAccountInv DEF Next

\* A split is in the list of the account it was last committed to and of no
\* other, while edits are pending, committed, refused, rolled back and nested in
\* one another; when no commit is refused, no split is ever missing from it.
THEOREM AccountListsHold == Spec => []AccountLists
<1>1. Init => AccountInv
  BY InitAccountInv
<1>2. AccountInv /\ [Next]_vars => AccountInv'
  BY AccountInvKept
<1>3. AccountInv => AccountLists
  BY DEF AccountInv
<1>4. QED
  BY <1>1, <1>2, <1>3, PTL DEF Spec

\* Whatever commits are refused, and whatever nests and is rolled back, a split
\* that has an account goes missing from the lists only by the refused deletion
\* MissingByRefusal names.
THEOREM MissingByRefusalHolds == Spec => MissingByRefusal
<1>1. Init => AccountInv
  BY InitAccountInv
<1>2. AccountInv /\ [Next]_vars => AccountInv'
  BY AccountInvKept
<1>3. AccountInv /\ [Next]_vars
      => [\A s \in Split : Missing(s)' =>
            \/ Missing(s)
            \/ /\ Under("cleanup") \/ Under("clear")
               /\ split[s].do_free /\ ~split'[s].do_free]_vars
  BY ClientAccountInv, CallAccountInv DEF Next, NoneMissed
<1>4. QED
  BY <1>1, <1>2, <1>3, PTL DEF Spec, MissingByRefusal

-----------------------------------------------------------------------------
(* Cached balances.  A step can only make a balance stale by changing what *)
(* a split counts for in the account that lists it.                        *)

ValueKept(s) ==
    split'[s].amount = split[s].amount /\ split'[s].reconciled = split[s].reconciled

\* What the property allows of account a in a step that is no restore.
StaleByMove(a) ==
    Fresh(a) /\ ~Fresh(a)' => \E s \in account[a].splits : split'[s].acc # a

LEMMA FreshKept ==
    ASSUME FieldTypes, NEW a \in Account, account'[a] = account[a],
           \A s \in account[a].splits : ValueKept(s)
    PROVE  Fresh(a) => Fresh(a)'
BY DEF Fresh, Contributions, ValueKept

LEMMA FreshDirty ==
    ASSUME NEW a \in Account, account'[a].balance_dirty
    PROVE  Fresh(a)'
BY DEF Fresh

LEMMA FreshMarked ==
    ASSUME FieldTypes, NEW a \in Account, account' = Marked(a)
    PROVE  /\ Fresh(a)'
           /\ \A x \in Account \ {a} : account'[x] = account[x]
<1>1. account[a] \in AccountRec
  BY DEF FieldTypes
<1>2. account'[a].balance_dirty
  BY <1>1 DEF Marked, AccountRec
<1>3. \A x \in Account \ {a} : account'[x] = account[x]
  BY DEF Marked
<1>4. QED
  BY <1>2, <1>3, FreshDirty

\* An account that is added up is right, if no split it lists changes after.
LEMMA FreshRecomputed ==
    ASSUME FieldTypes, NEW a \in Account, NEW sp \in [Split -> SplitRec],
           NEW r \in AccountRec, r.balance_dirty, account'[a] = Recomputed(sp, r),
           \A s \in r.splits : /\ sp[s].amount = split'[s].amount
                               /\ sp[s].reconciled = split'[s].reconciled
    PROVE  Fresh(a)'
<1>1. account'[a] = [r EXCEPT !.balance = Contributions(sp, r), !.balance_dirty = FALSE]
  BY DEF Recomputed
<1>2. /\ account'[a].balance = Contributions(sp, r)
      /\ account'[a].splits = r.splits
  BY <1>1 DEF AccountRec
<1>3. Contributions(sp, r) = Contributions(split, account[a])'
  BY <1>2 DEF Contributions
<1>4. QED
  BY <1>2, <1>3 DEF Fresh

\* Account lists hold live splits, each at the account it was committed to.
LEMMA ListedSplits ==
    ASSUME AccountInv, NEW a \in Account, NEW s \in account[a].splits
    PROVE  s \in Split /\ split[s].live /\ split[s].orig_acc = a
BY DEF AccountInv, AccountLists, FieldTypes, AccountRec

LEMMA SetParentCallValues ==
    ASSUME FieldTypes, NEW sp \in [Split -> SplitRec], NEW s \in Split, NEW t, NEW rest,
           \A x \in Split : /\ sp[x].amount = split[x].amount
                            /\ sp[x].reconciled = split[x].reconciled,
           SetParentCall(sp, s, t, rest)
    PROVE  \A x \in Split : ValueKept(x)
<1>1. split' = sp \/ split' = [sp EXCEPT ![s].parent = t]
  BY DEF SetParentCall
<1>2. sp[s] \in SplitRec
  OBVIOUS
<1>3. \A x \in Split : split'[x].amount = sp[x].amount /\ split'[x].reconciled = sp[x].reconciled
  BY <1>1, <1>2 DEF SplitRec
<1>4. QED
  BY <1>3 DEF ValueKept

LEMMA CommitCallFresh ==
    ASSUME AccountInv, NEW t \in Trans, NEW rest, CommitCall(t, rest), NEW a \in Account
    PROVE  StaleByMove(a)
<1>1. FieldTypes /\ \A s \in Split : split[s] \in SplitRec
  BY DEF AccountInv, FieldTypes
<1>2. \A s \in account[a].splits : s \in Split /\ split[s].live
  BY ListedSplits
<1>3. CASE account' = account /\ \A s \in account[a].splits : ValueKept(s)
  BY <1>1, <1>3, FreshKept DEF StaleByMove
<1>4. CASE UNCHANGED <<split, account>>
  BY <1>3, <1>4 DEF ValueKept
<1>5. CASE \E b \in BalanceSplits(t) : \E new \in Amount :
             /\ split' = Balanced(t, b, new)
             /\ account' = IF new = 0 THEN account ELSE Marked(Imbalance)
 <2>1. PICK b \in BalanceSplits(t), new \in Amount :
         /\ split' = Balanced(t, b, new)
         /\ account' = IF new = 0 THEN account ELSE Marked(Imbalance)
   BY <1>5
 <2>2. b \in Split /\ (split[b].live => split[b].acc = Imbalance)
   BY <1>1 DEF BalanceSplits, Owned, FieldTypes, TransRec
 <2>3. \A s \in Split \ {b} : ValueKept(s)
   BY <1>1, <2>1, <2>2 DEF Balanced, ValueKept, FieldTypes
 <2>4. CASE new = 0
  <3>1. split[b].live => ValueKept(b)
    BY <1>1, <2>2, <2>1, <2>4 DEF ValueKept, SplitRec, Balanced, FieldTypes
  <3>2. QED
    BY <1>2, <1>3, <2>1, <2>3, <2>4, <3>1
 <2>5. CASE new # 0
  <3>1. account' = Marked(Imbalance) /\ Imbalance \in Account
    BY <2>1, <2>5, TransEditAssumption
  <3>2. CASE a = Imbalance
    BY <1>1, <3>1, <3>2, FreshMarked DEF StaleByMove
  <3>3. CASE a # Imbalance
   <4>1. account'[a] = account[a]
     BY <1>1, <3>1, <3>3, FreshMarked
   <4>2. CASE b \in account[a].splits
    <5>1. split[b].live /\ split[b].acc = Imbalance
      BY <1>2, <2>2, <4>2
    <5>2. split'[b] = [split[b] EXCEPT !.dirty = TRUE, !.amount = new]
      BY <1>1, <2>1, <2>2, <2>5, <5>1 DEF Balanced, FieldTypes
    <5>3. split'[b].acc = Imbalance
      BY <1>1, <2>2, <5>1, <5>2 DEF SplitRec
    <5>4. QED
      BY <3>3, <4>2, <5>3 DEF StaleByMove
   <4>3. CASE b \notin account[a].splits
     BY <1>1, <1>2, <2>3, <4>1, <4>3, FreshKept DEF StaleByMove
   <4>4. QED
     BY <4>2, <4>3
  <3>4. QED
    BY <3>2, <3>3
 <2>6. QED
   BY <2>4, <2>5
<1>6. CASE CommitDestroyed(t, rest)
 <2>1. /\ account' = account
       /\ \A s \in Split : \/ split'[s] = split[s]
                           \/ split'[s] = [split[s] EXCEPT !.dirty = TRUE, !.do_free = TRUE]
   BY <1>6 DEF CommitDestroyed
 <2>2. \A s \in Split : ValueKept(s)
   BY <1>1, <2>1 DEF ValueKept, SplitRec
 <2>3. QED
   BY <1>2, <1>3, <2>1, <2>2
<1>7. QED
  BY <1>4, <1>5, <1>6 DEF CommitCall, CommitKept

\* Committing split s adds up the accounts whose lists change.
LEMMA CommitSplitFresh ==
    ASSUME AccountInv, NEW s \in Split, NEW ok \in Answers, CommitSplit(s, ok),
           NEW x \in Account
    PROVE  Fresh(x) => Fresh(x)'
<1> DEFINE a == split[s].acc
           o == split[s].orig_acc
           gone == split[s].do_free
           without == [account[x] EXCEPT !.splits = @ \ {s}, !.balance_dirty = TRUE]
           with == [account[x] EXCEPT !.splits = @ \cup {s}, !.balance_dirty = TRUE]
           settled == [split[s] EXCEPT !.orig_acc = a, !.orig_parent = split[s].parent]
<1>1. FieldTypes /\ \A q \in Split : split[q] \in SplitRec
  BY DEF AccountInv, FieldTypes
<1>2. account[x] \in AccountRec
  BY <1>1 DEF FieldTypes
<1>3. /\ without \in AccountRec /\ without.balance_dirty
      /\ without.splits = account[x].splits \ {s}
      /\ with \in AccountRec /\ with.balance_dirty
  BY <1>2 DEF AccountRec
<1>4. \A q \in Split \ {s} : ValueKept(q)
  BY <1>1 DEF CommitSplit, ValueKept, FieldTypes
<1>5. split' \in [Split -> SplitRec]
  BY <1>1, CommitSplitType
<1>6. CASE x = o /\ s \in account[x].splits /\ (o # a \/ gone) /\ account'[x] = Recomputed(split, without)
 <2>1. \A q \in without.splits : /\ split[q].amount = split'[q].amount
                                 /\ split[q].reconciled = split'[q].reconciled
   BY <1>2, <1>3, <1>4 DEF ValueKept, AccountRec
 <2> HIDE DEF without
 <2>2. QED
   BY <1>1, <1>3, <1>6, <2>1, FreshRecomputed DEF FieldTypes
<1>7. CASE account'[x] = with
  BY <1>3, <1>7, FreshDirty
<1>8. CASE account'[x] = account[x] /\ (s \in account[x].splits => ValueKept(s))
  BY <1>1, <1>2, <1>4, <1>8, FreshKept DEF AccountRec
<1>9. s \in account[x].splits => x = o
  BY DEF AccountInv, AccountLists
<1>10. CASE ok /\ x = a
 <2> DEFINE r == [Entering(s)[x] EXCEPT !.balance_dirty = TRUE]
 <2>1. r \in AccountRec /\ r.balance_dirty
  <3>1. Entering(s)[x] \in AccountRec
    BY <1>1, EnteringType
  <3>2. QED
    BY <3>1 DEF AccountRec
 <2>2. account'[x] = Recomputed(split', r)
   BY <1>10 DEF CommitSplit
 <2> HIDE DEF r
 <2>3. QED
   BY <1>1, <1>5, <2>1, <2>2, FreshRecomputed
<1>11. CASE ok /\ x # a
 <2>1. account'[x] = Entering(s)[x]
   BY <1>11 DEF CommitSplit
 <2>2. Entering(s)[x] = IF x = o /\ s \in account[x].splits /\ (o # a \/ gone)
                        THEN Recomputed(split, without) ELSE account[x]
   BY <1>11 DEF Entering
 <2>3. s \in account[x].splits => (o # a \/ gone) /\ x = o
   BY <1>9, <1>11
 <2>4. QED
   BY <1>6, <1>8, <2>1, <2>2, <2>3
<1>12. CASE ~ok
 <2>1. account'[x] = Entering(s)[x] /\ split' = [split EXCEPT ![s] = [settled EXCEPT !.do_free = FALSE]]
   BY <1>12 DEF CommitSplit
 <2>2. Entering(s)[x] = IF x = o /\ s \in account[x].splits /\ (o # a \/ gone)
                        THEN Recomputed(split, without)
                        ELSE IF x = a /\ o # a /\ ~gone THEN with ELSE account[x]
   BY DEF Entering
 <2>3. ValueKept(s)
  <3>1. split'[s] = [settled EXCEPT !.do_free = FALSE]
    BY <1>1, <2>1 DEF FieldTypes
  <3>2. split[s] \in SplitRec
    BY <1>1
  <3>3. QED
    BY <3>1, <3>2 DEF ValueKept, SplitRec
 <2>4. QED
   BY <1>6, <1>7, <1>8, <2>1, <2>2, <2>3
<1>13. QED
  BY <1>10, <1>11, <1>12

\* Discarding a split adds up the one account that may list it.
LEMMA DiscardFresh ==
    ASSUME AccountInv, NEW t \in Trans, NEW s \in Split, Discard(t, s), NEW x \in Account
    PROVE  Fresh(x) => Fresh(x)'
<1> DEFINE without == [account[x] EXCEPT !.splits = @ \ {s}, !.balance_dirty = TRUE]
<1>1. FieldTypes
  BY DEF AccountInv
<1>2. account[x] \in AccountRec
  BY <1>1 DEF FieldTypes
<1>3. CASE UNCHANGED <<split, account>>
  BY <1>1, <1>2, <1>3, FreshKept DEF ValueKept, AccountRec
<1>4. CASE /\ split' = [split EXCEPT ![s] = FreedSplit]
           /\ account'[x] = IF x = split[s].acc /\ s \in account[x].splits
                            THEN Recomputed(split, without) ELSE account[x]
 <2>1. \A q \in Split \ {s} : ValueKept(q)
   BY <1>1, <1>4 DEF ValueKept, FieldTypes
 <2>2. s \in account[x].splits => x = split[s].acc
  <3>1. Head(stack) \in SettledFrame
    BY PopSettled DEF Discard, Under
  <3>2. Settled(s)
    BY <3>1 DEF Discard, Under, SettledFrame
  <3>3. s \in account[x].splits => split[s].orig_acc = x
    BY DEF AccountInv, AccountLists
  <3>4. None \notin Account
    BY TransEditAssumption
  <3>5. QED
    BY <3>2, <3>3, <3>4 DEF Settled
 <2>3. CASE s \in account[x].splits
  <3>1. /\ without \in AccountRec /\ without.balance_dirty
        /\ without.splits = account[x].splits \ {s}
    BY <1>2 DEF AccountRec
  <3>2. \A q \in without.splits : /\ split[q].amount = split'[q].amount
                                  /\ split[q].reconciled = split'[q].reconciled
    BY <1>2, <2>1, <3>1 DEF ValueKept, AccountRec
  <3> HIDE DEF without
  <3>3. QED
    BY <1>1, <1>4, <2>2, <2>3, <3>1, <3>2, FreshRecomputed DEF FieldTypes
 <2>4. CASE s \notin account[x].splits
   BY <1>1, <1>2, <1>4, <2>1, <2>4, FreshKept DEF AccountRec
 <2>5. QED
   BY <2>3, <2>4
<1>5. QED
  BY <1>3, <1>4 DEF Discard

LEMMA ClientFresh ==
    ASSUME AccountInv, ClientCall, NEW a \in Account
    PROVE  StaleByMove(a)
<1>1. FieldTypes /\ \A s \in Split : split[s] \in SplitRec
  BY DEF AccountInv, FieldTypes
<1>2. \A s \in account[a].splits : s \in Split /\ split[s].live
  BY ListedSplits
<1>3. ASSUME account'[a] = account[a], \A s \in account[a].splits : ValueKept(s)
      PROVE  StaleByMove(a)
  BY <1>1, <1>3, FreshKept DEF StaleByMove
<1>4. CASE UNCHANGED <<split, account>>
  BY <1>3, <1>4 DEF ValueKept
<1>5. ASSUME NEW t \in Trans,
             \/ BeginEdit(t) \/ RollbackEdit(t) \/ MallocTrans(t) \/ TransDestroy(t)
             \/ \E d \in Description : SetDescription(t, d)
      PROVE  StaleByMove(a)
  BY <1>4, <1>5 DEF BeginEdit, RollbackEdit, MallocTrans, TransDestroy, SetDescription
<1>6. ASSUME NEW t \in Trans, CommitEdit(t) PROVE StaleByMove(a)
  BY <1>6, CommitCallFresh DEF CommitEdit
<1>7. ASSUME NEW t \in Trans, NEW s \in Split, NEW x \in Account, NEW v \in Entered,
             MallocSplit(t, s, x, v)
      PROVE  StaleByMove(a)
 <2>1. \A q \in account[a].splits : ValueKept(q)
   BY <1>1, <1>2, <1>7 DEF MallocSplit, ValueKept, FieldTypes
 <2>2. account' = Marked(x)
   BY <1>7 DEF MallocSplit
 <2>3. QED
   BY <1>1, <1>3, <2>1, <2>2, FreshMarked DEF StaleByMove
<1>8. ASSUME NEW s \in Split, SplitDestroy(s) PROVE StaleByMove(a)
  BY <1>2, <1>3, <1>8, <1>1 DEF SplitDestroy, ValueKept, SplitRec, FieldTypes
<1>9. ASSUME NEW s \in Split, NEW v \in Entered, SetBaseValue(s, v) PROVE StaleByMove(a)
 <2>1. account' = Marked(split[s].acc) /\ split' = [split EXCEPT ![s].amount = v, ![s].dirty = TRUE]
   BY <1>9 DEF SetBaseValue
 <2>2. split'[s].acc = split[s].acc /\ \A q \in Split \ {s} : ValueKept(q)
   BY <1>1, <2>1 DEF ValueKept, SplitRec, FieldTypes
 <2>3. CASE split[s].acc = a
   BY <1>1, <2>1, <2>3, FreshMarked DEF StaleByMove
 <2>4. CASE split[s].acc # a
  <3>1. account'[a] = account[a]
    BY <2>1, <2>4 DEF Marked
  <3>2. QED
    BY <1>2, <1>3, <2>2, <2>4, <3>1 DEF StaleByMove
 <2>5. QED
   BY <2>3, <2>4
<1>10. ASSUME NEW s \in Split, NEW r \in BOOLEAN, SetReconcile(s, r) PROVE StaleByMove(a)
 <2>1. split' = [split EXCEPT ![s].reconciled = r, ![s].dirty = TRUE]
   BY <1>10 DEF SetReconcile
 <2>2. split'[s].acc = split[s].acc /\ \A q \in Split \ {s} : ValueKept(q)
   BY <1>1, <2>1 DEF ValueKept, SplitRec, FieldTypes
 <2>3. CASE split[s].acc = a
  <3>1. account'[a] = Recomputed(split', Marked(a)[a])
    BY <1>10, <2>3 DEF SetReconcile
  <3>2. Marked(a)[a] \in AccountRec /\ Marked(a)[a].balance_dirty
   <4>1. account[a] \in AccountRec
     BY <1>1 DEF FieldTypes
   <4>2. QED
     BY <4>1 DEF Marked, AccountRec
  <3>3. split' \in [Split -> SplitRec]
    BY <1>1, <2>1 DEF FieldTypes, SplitRec
  <3>4. QED
    BY <1>1, <3>1, <3>2, <3>3, FreshRecomputed DEF StaleByMove
 <2>4. CASE split[s].acc # a
  <3>1. account'[a] = account[a]
    BY <1>10, <2>4 DEF SetReconcile
  <3>2. QED
    BY <1>2, <1>3, <2>2, <2>4, <3>1 DEF StaleByMove
 <2>5. QED
   BY <2>3, <2>4
<1>11. ASSUME NEW s \in Split, NEW x \in Account, SetAccount(s, x) PROVE StaleByMove(a)
 <2>1. split' = [split EXCEPT ![s].acc = x, ![s].dirty = TRUE] /\ account' = account
   BY <1>11 DEF SetAccount
 <2>2. \A q \in Split : ValueKept(q)
  <3>1. split'[s] = [split[s] EXCEPT !.acc = x, !.dirty = TRUE]
    BY <1>1, <2>1 DEF FieldTypes
  <3>2. \A q \in Split \ {s} : split'[q] = split[q]
    BY <1>1, <2>1 DEF FieldTypes
  <3>3. QED
    BY <1>1, <3>1, <3>2 DEF ValueKept, SplitRec
 <2>3. QED
   BY <1>2, <1>3, <2>1, <2>2
<1>12. ASSUME NEW s \in Split, NEW t \in Trans, MoveSplit(s, t) PROVE StaleByMove(a)
  BY <1>2, <1>3, <1>12, <1>1, SetParentCallValues DEF MoveSplit, FieldTypes
<1>13. ASSUME NEW x \in Account, AccountCommitEdit(x) PROVE StaleByMove(a)
 <2>1. split' = split /\ account' = [account EXCEPT ![x] = Recomputed(split, account[x])]
   BY <1>13 DEF AccountCommitEdit
 <2>2. CASE a = x /\ account[a].balance_dirty
   BY <1>1, <2>1, <2>2, FreshRecomputed DEF StaleByMove, FieldTypes
 <2>3. CASE a # x \/ ~account[a].balance_dirty
  <3>1. account'[a] = account[a]
    BY <1>1, <2>1, <2>3 DEF Recomputed, FieldTypes
  <3>2. QED
    BY <1>3, <2>1, <3>1 DEF ValueKept
 <2>4. QED
   BY <2>2, <2>3
<1>14. QED
  BY <1>5, <1>6, <1>7, <1>8, <1>9, <1>10, <1>11, <1>12, <1>13 DEF ClientCall

LEMMA CallFresh ==
    ASSUME AccountInv, CallStep, ~Under("restore"), NEW a \in Account
    PROVE  StaleByMove(a)
<1>1. FieldTypes /\ \A s \in Split : split[s] \in SplitRec
  BY DEF AccountInv, FieldTypes
<1>2. \A s \in account[a].splits : s \in Split /\ split[s].live
  BY ListedSplits
<1>3. ASSUME account'[a] = account[a], \A s \in account[a].splits : ValueKept(s)
      PROVE  StaleByMove(a)
  BY <1>1, <1>3, FreshKept DEF StaleByMove
<1>4. CASE UNCHANGED <<split, account>>
  BY <1>3, <1>4 DEF ValueKept
<1>5. CASE Close
  BY <1>4, <1>5, CommitCallFresh DEF Close
<1>6. ASSUME NEW s \in Split, Adopt(s) PROVE StaleByMove(a)
 <2>1. split' = [split EXCEPT ![s].dirty = TRUE]
   BY <1>6 DEF Adopt
 <2>2. \A q \in Split : ValueKept(q)
   BY <1>1, <2>1 DEF ValueKept, SplitRec, FieldTypes
 <2>3. account' = account \/ account' = Marked(split[s].acc)
   BY <1>6 DEF Adopt
 <2>4. CASE account' = Marked(a)
   BY <1>1, <2>4, FreshMarked DEF StaleByMove
 <2>5. CASE account'[a] = account[a]
   BY <1>2, <1>3, <2>2, <2>5
 <2>6. QED
   BY <2>3, <2>4, <2>5 DEF Marked
<1>7. ASSUME NEW t \in Trans,
             \/ CleanupDone(t) \/ FreeTransaction(t) \/ RollbackDone(t)
             \/ \E s \in Split : ReadFreed(t, s)
      PROVE  StaleByMove(a)
  BY <1>4, <1>7 DEF CleanupDone, FreeTransaction, RollbackDone, ReadFreed
<1>8. ASSUME NEW t \in Trans, NEW s \in Split, CleanupSplit(t, s) \/ ClearSplit(t, s)
      PROVE  StaleByMove(a)
  BY <1>4, <1>8, CommitSplitFresh DEF StaleByMove, CleanupSplit, ClearSplit
<1>9. ASSUME NEW t \in Trans, NEW s \in Split, RollbackSplit(t, s) PROVE StaleByMove(a)
 <2>1. account' = account
   BY <1>9 DEF RollbackSplit
 <2>2. CASE split' = split
   BY <1>4, <2>1, <2>2
 <2>3. CASE \E rest : SetParentCall(Reverted(s), s, split[s].orig_parent, rest)
  <3>1. PICK rest : SetParentCall(Reverted(s), s, split[s].orig_parent, rest)
    BY <2>3
  <3>2. /\ Reverted(s)[s] = [split[s] EXCEPT !.acc = split[s].orig_acc,
                                !.do_free = @ /\ split[s].parent = None]
        /\ \A x \in Split \ {s} : Reverted(s)[x] = split[x]
        /\ Reverted(s) = [x \in Split |-> Reverted(s)[x]]
    BY <1>1 DEF Reverted, FieldTypes
  <3>3. Reverted(s)[s] \in SplitRec
    BY <1>1, <3>2 DEF SplitRec
  <3>4. Reverted(s) \in [Split -> SplitRec]
    BY <1>1, <3>2, <3>3
  <3>5. \A x \in Split : /\ Reverted(s)[x].amount = split[x].amount
                         /\ Reverted(s)[x].reconciled = split[x].reconciled
    BY <1>1, <3>2 DEF SplitRec
  <3>6. \A x \in Split : ValueKept(x)
    BY <1>1, <3>1, <3>4, <3>5, SetParentCallValues
  <3>7. QED
    BY <1>2, <1>3, <2>1, <3>6
 <2>4. QED
   BY <1>9, <2>2, <2>3 DEF RollbackSplit
<1>10. ASSUME NEW t \in Trans, NEW s \in Split, Restore(t, s) PROVE StaleByMove(a)
  BY <1>10 DEF Restore
<1>11. ASSUME NEW t \in Trans, NEW s \in Split, Discard(t, s) PROVE StaleByMove(a)
  BY <1>11, DiscardFresh DEF StaleByMove
<1>12. QED
  BY <1>5, <1>6, <1>7, <1>8, <1>9, <1>10, <1>11 DEF CallStep

\* A cached balance that is right, or due to be added up, becomes a wrong one
\* that is taken as right only when a rollback restores a split, or while a
\* split the account lists is about to be committed to another account;
\* whatever is pending, nested, refused or moved.
THEOREM StaleOnlyByRestoreHolds == Spec => StaleOnlyByRestore
<1>1. Init => AccountInv
  BY InitAccountInv
<1>2. AccountInv /\ [Next]_vars => AccountInv'
  BY AccountInvKept
<1>3. AccountInv /\ [Next]_vars =>
        [\A a \in Account : Fresh(a) /\ ~Fresh(a)' =>
            \/ Under("restore")
            \/ \E s \in account[a].splits : split'[s].acc # a]_vars
 <2> SUFFICES ASSUME AccountInv, Next, NEW a \in Account, ~Under("restore")
              PROVE  StaleByMove(a)
   BY DEF StaleByMove
 <2>1. QED
   BY ClientFresh, CallFresh DEF Next
<1>4. QED
  BY <1>1, <1>2, <1>3, PTL DEF Spec, StaleOnlyByRestore

-----------------------------------------------------------------------------
(* Between edits a transaction lists its splits.  While no split is moved  *)
(* from one transaction to another, a call works on one transaction, in a  *)
(* few ways, and that transaction alone has a list in disorder.            *)

\* The innermost call is loop or continuation op of transaction t.
Busy(op, t) == stack # <<>> /\ Head(stack).op = op /\ Head(stack).t = t

\* A rollback of t is discarding split s, which has no parent meanwhile.
Dropping(t, s) ==
    Len(stack) > 1 /\ stack[Len(stack) - 1] = Call("discard", t, s, {})

\* The copy of an open transaction names the splits it was committed with; the
\* others were added since.
InOrder(t) ==
    /\ \A s \in trans[t].splits :
         /\ split[s].live
         /\ split[s].parent = t \/ Dropping(t, s)
         /\ split[s].orig_parent \in {None, t}
    /\ trans[t].orig.splits \subseteq trans[t].splits
    /\ IF IsOpen(t)
       THEN \A s \in trans[t].splits :
              s \in trans[t].orig.splits <=> split[s].orig_parent = t
       ELSE \A s \in trans[t].splits :
              split[s].orig_parent = t /\ (CanFail \/ ~split[s].dirty)

\* The loop of trans_cleanup_commit has todo to visit.
Tidied(t, todo) ==
    /\ todo \subseteq trans[t].splits
    /\ \A s \in trans[t].splits :
         /\ split[s].live
         /\ split[s].parent = t
         /\ split[s].orig_parent \in {None, t}
         /\ s \notin todo => split[s].orig_parent = t /\ (CanFail \/ ~split[s].dirty)

\* The loop of xaccTransClearSplits has todo to visit.
Cleared(t, todo) ==
    /\ todo \subseteq trans[t].splits
    /\ \A s \in todo :
         split[s].live /\ split[s].dirty /\ split[s].do_free /\ split[s].parent = t
    /\ \A s \in trans[t].splits :
         /\ split[s].live => split[s].parent = t
         /\ s \notin todo => CanFail \/ ~split[s].live

Lists ==
    \A t \in Trans :
        IF Busy("cleanup", t) THEN Tidied(t, Head(stack).todo)
        ELSE IF Busy("clear", t) THEN Cleared(t, Head(stack).todo)
        ELSE InOrder(t)

\* The loop of xaccTransRollbackEdit has todo to visit, and split s in hand.
RollingBack(t, s, todo) ==
    /\ todo \subseteq trans[t].splits \ {s}
    /\ \A x \in trans[t].splits \ (todo \cup {s}) : ~split[x].dirty

\* What xaccTransRollbackEdit has in hand: a split to restore or to discard.
InHand(t, s, op) ==
    /\ s \in trans[t].splits
    /\ \/ /\ op = "restore" /\ s \in trans[t].orig.splits
          /\ split[s].parent = t /\ split[s].acc = split[s].orig_acc
          /\ ~split[s].do_free
       \/ /\ op = "discard" /\ s \notin trans[t].orig.splits
          /\ split[s].parent = None /\ split[s].dirty

Loop(op, t, todo) == Call(op, t, None, todo)

\* The calls in progress.
CallsMade ==
    \/ stack = <<>>
    \/ \E t \in Trans :
         \/ stack = <<Call("close", t, None, {})>> /\ IsOpen(t)
         \/ \E todo \in SUBSET Split :
              /\ trans[t].editlevel = 1
              /\ \/ stack = <<Loop("cleanup", t, todo)>>
                 \/ stack = <<Loop("clear", t, todo)>>
                 \/ stack = <<Loop("rollback", t, todo)>> /\ RollingBack(t, None, todo)
         \/ \E todo \in SUBSET Split, s \in Split, op \in {"restore", "discard"} :
              /\ RollingBack(t, s, todo) /\ InHand(t, s, op)
              /\ \/ /\ trans[t].editlevel = 1
                    /\ stack = <<Call(op, t, s, {}), Loop("rollback", t, todo)>>
                 \/ /\ op = "discard" /\ trans[t].editlevel = 1
                    /\ stack = <<Call("adopt", None, s, {}), Call(op, t, s, {}),
                                 Loop("rollback", t, todo)>>
                 \/ /\ op = "discard" /\ trans[t].editlevel = 2
                    /\ stack = <<Call("close", t, None, {}), Call("adopt", None, s, {}),
                                 Call(op, t, s, {}), Loop("rollback", t, todo)>>

\* A transaction that was freed is blank, and no level is negative.
Levels ==
    \A t \in Trans : /\ trans[t].editlevel \in Nat
                     /\ ~trans[t].live => trans[t] = FreedTrans

\* A clean split is as it was committed.
CleanSplits ==
    \A s \in Split : split[s].live /\ ~split[s].dirty =>
        split[s].orig_parent = split[s].parent /\ split[s].acc = split[s].orig_acc

EditInv ==
    /\ FieldTypes
    /\ NoFault
    /\ CallsMade
    /\ Levels
    /\ CleanSplits
    /\ Lists

\* When no commit is refused: no split is missing from its transaction's list,
\* and the backend has what was committed.
Parents ==
    \A s \in Split, t \in Trans :
        split[s].live /\ split[s].parent = t => s \in trans[t].splits

CopiedRow(t, s) ==
    [parent |-> t, acc |-> split[s].orig_acc, amount |-> trans[t].orig.amount[s],
     reconciled |-> trans[t].orig.reconciled[s]]

\* The loop of xaccTransClearSplits will destroy split s.
Clearing(s) == \E t \in Trans : Busy("clear", t) /\ s \in Head(stack).todo

\* The row of a split is what it was committed as, and what an open transaction
\* would restore.
Rows ==
    /\ \A s \in Split :
         /\ split[s].live /\ ~split[s].dirty => splitRow[s] = RowOf(split[s])
         /\ splitRow[s] # None => /\ split[s].live
                                  /\ split[s].orig_parent = splitRow[s].parent
                                  /\ split[s].parent = splitRow[s].parent
                                  /\ splitRow[s].parent # None
         /\ split[s].live /\ splitRow[s] = None => split[s].infant \/ Clearing(s)
    /\ \A t \in Trans : ~Busy("cleanup", t) /\ ~Busy("clear", t) =>
         \A s \in trans[t].orig.splits : splitRow[s] = CopiedRow(t, s)

StoredInv == EditInv /\ Parents /\ Rows

LEMMA CallFields ==
    ASSUME NEW op, NEW t, NEW s, NEW todo
    PROVE  /\ Call(op, t, s, todo).op = op /\ Call(op, t, s, todo).t = t
           /\ Call(op, t, s, todo).s = s /\ Call(op, t, s, todo).todo = todo
BY DEF Call

\* The tops of the stacks CallsMade speaks of.
LEMMA Stack1 ==
    ASSUME NEW f, stack = <<f>>
    PROVE  stack # <<>> /\ Head(stack) = f /\ Tail(stack) = <<>> /\ Len(stack) = 1
OBVIOUS

LEMMA Stack2 ==
    ASSUME NEW f, NEW g, stack = <<f, g>>
    PROVE  /\ stack # <<>> /\ Head(stack) = f /\ Tail(stack) = <<g>>
           /\ Len(stack) = 2 /\ stack[Len(stack) - 1] = f
OBVIOUS

LEMMA Stack3 ==
    ASSUME NEW f, NEW g, NEW h, stack = <<f, g, h>>
    PROVE  /\ stack # <<>> /\ Head(stack) = f /\ Tail(stack) = <<g, h>>
           /\ Len(stack) = 3 /\ stack[Len(stack) - 1] = g
OBVIOUS

LEMMA Stack4 ==
    ASSUME NEW f, NEW g, NEW h, NEW i, stack = <<f, g, h, i>>
    PROVE  /\ stack # <<>> /\ Head(stack) = f /\ Tail(stack) = <<g, h, i>>
           /\ Len(stack) = 4 /\ stack[Len(stack) - 1] = h
OBVIOUS

LEMMA LoopFields ==
    ASSUME NEW op, NEW t, NEW todo
    PROVE  /\ Loop(op, t, todo).op = op /\ Loop(op, t, todo).t = t
           /\ Loop(op, t, todo).todo = todo
BY CallFields DEF Loop

LEMMA LoopVisited ==
    ASSUME NEW op, NEW t, NEW todo, NEW s, stack = <<Loop(op, t, todo)>>
    PROVE  Visited(s) = <<Loop(op, t, todo \ {s})>>
<1>1. Head(stack) = Loop(op, t, todo) /\ Tail(stack) = <<>>
  BY Stack1
<1>2. [Loop(op, t, todo) EXCEPT !.todo = @ \ {s}] = Loop(op, t, todo \ {s})
  BY DEF Loop, Call
<1>3. <<[Loop(op, t, todo) EXCEPT !.todo = @ \ {s}]>> \o <<>> = <<Loop(op, t, todo \ {s})>>
  BY <1>2
<1>4. QED
  BY <1>1, <1>3 DEF Visited

\* A loop over the splits of t is the only call in progress.
LEMMA InLoop ==
    ASSUME CallsMade, NEW t \in Trans, NEW op \in {"cleanup", "clear", "rollback"},
           Busy(op, t)
    PROVE  \E todo \in SUBSET Split :
             /\ stack = <<Loop(op, t, todo)>>
             /\ trans[t].editlevel = 1
             /\ op = "rollback" => RollingBack(t, None, todo)
<1>1. stack # <<>> /\ Head(stack).op = op /\ Head(stack).t = t
  BY DEF Busy
<1>2. ASSUME NEW u \in Trans, stack = <<Call("close", u, None, {})>>
      PROVE  FALSE
  BY <1>1, <1>2, Stack1, CallFields
<1>3. ASSUME NEW u \in Trans, NEW todo \in SUBSET Split, trans[u].editlevel = 1,
             \/ stack = <<Loop("cleanup", u, todo)>>
             \/ stack = <<Loop("clear", u, todo)>>
             \/ stack = <<Loop("rollback", u, todo)>> /\ RollingBack(u, None, todo)
      PROVE  /\ stack = <<Loop(op, t, todo)>>
             /\ trans[t].editlevel = 1
             /\ op = "rollback" => RollingBack(t, None, todo)
 <2>1. CASE stack = <<Loop("cleanup", u, todo)>>
   BY <1>1, <1>3, <2>1, Stack1, LoopFields
 <2>2. CASE stack = <<Loop("clear", u, todo)>>
   BY <1>1, <1>3, <2>2, Stack1, LoopFields
 <2>3. CASE stack = <<Loop("rollback", u, todo)>> /\ RollingBack(u, None, todo)
  <3>1. u = t /\ op = "rollback"
    BY <1>1, <2>3, Stack1, LoopFields
  <3>2. QED
    BY <1>3, <2>3, <3>1
 <2>4. QED
   BY <1>3, <2>1, <2>2, <2>3
<1>4. ASSUME NEW u \in Trans, NEW todo \in SUBSET Split, NEW s \in Split,
             NEW o \in {"restore", "discard"},
             \/ stack = <<Call(o, u, s, {}), Loop("rollback", u, todo)>>
             \/ stack = <<Call("adopt", None, s, {}), Call(o, u, s, {}),
                          Loop("rollback", u, todo)>>
             \/ stack = <<Call("close", u, None, {}), Call("adopt", None, s, {}),
                          Call(o, u, s, {}), Loop("rollback", u, todo)>>
      PROVE  FALSE
  BY <1>1, <1>4, Stack2, Stack3, Stack4, CallFields
<1>5. QED
  BY <1>1, <1>2, <1>3, <1>4 DEF CallsMade

\* ... and so are the calls a rollback makes for the split it has in hand.
LEMMA InRollback ==
    ASSUME CallsMade, Under("restore") \/ Under("discard") \/ Under("adopt")
    PROVE  \E t \in Trans, s \in Split, todo \in SUBSET Split, op \in {"restore", "discard"} :
             /\ RollingBack(t, s, todo) /\ InHand(t, s, op)
             /\ trans[t].editlevel = 1
             /\ \/ stack = <<Call(op, t, s, {}), Loop("rollback", t, todo)>>
                \/ /\ op = "discard"
                   /\ stack = <<Call("adopt", None, s, {}), Call(op, t, s, {}),
                                Loop("rollback", t, todo)>>
<1>1. stack # <<>> /\ Head(stack).op \in {"restore", "discard", "adopt"}
  BY DEF Under
<1>2. ASSUME NEW u \in Trans, stack = <<Call("close", u, None, {})>>
      PROVE  FALSE
  BY <1>1, <1>2, Stack1, CallFields
<1>3. ASSUME NEW u \in Trans, NEW todo \in SUBSET Split,
             \/ stack = <<Loop("cleanup", u, todo)>>
             \/ stack = <<Loop("clear", u, todo)>>
             \/ stack = <<Loop("rollback", u, todo)>>
      PROVE  FALSE
  BY <1>1, <1>3, Stack1, LoopFields
<1>4. ASSUME NEW u \in Trans, NEW todo \in SUBSET Split, NEW s \in Split,
             NEW o \in {"restore", "discard"},
             stack = <<Call("close", u, None, {}), Call("adopt", None, s, {}),
                       Call(o, u, s, {}), Loop("rollback", u, todo)>>
      PROVE  FALSE
  BY <1>1, <1>4, Stack4, CallFields
<1>5. QED
  BY <1>1, <1>2, <1>3, <1>4 DEF CallsMade

\* A commit called by another call: of a transaction being destroyed, or of one
\* whose rollback opened it again.
LEMMA InClose ==
    ASSUME CallsMade, Under("close")
    PROVE  \E t \in Trans :
             \/ stack = <<Call("close", t, None, {})>> /\ IsOpen(t)
             \/ \E s \in Split, todo \in SUBSET Split :
                  /\ RollingBack(t, s, todo) /\ InHand(t, s, "discard")
                  /\ trans[t].editlevel = 2
                  /\ stack = <<Call("close", t, None, {}), Call("adopt", None, s, {}),
                               Call("discard", t, s, {}), Loop("rollback", t, todo)>>
<1>1. stack # <<>> /\ Head(stack).op = "close"
  BY DEF Under
<1>2. ASSUME NEW u \in Trans, NEW todo \in SUBSET Split,
             \/ stack = <<Loop("cleanup", u, todo)>>
             \/ stack = <<Loop("clear", u, todo)>>
             \/ stack = <<Loop("rollback", u, todo)>>
      PROVE  FALSE
  BY <1>1, <1>2, Stack1, LoopFields
<1>3. ASSUME NEW u \in Trans, NEW todo \in SUBSET Split, NEW s \in Split,
             NEW o \in {"restore", "discard"},
             \/ stack = <<Call(o, u, s, {}), Loop("rollback", u, todo)>>
             \/ stack = <<Call("adopt", None, s, {}), Call(o, u, s, {}),
                          Loop("rollback", u, todo)>>
      PROVE  FALSE
  BY <1>1, <1>3, Stack2, Stack3, CallFields
<1>4. QED
  BY <1>1, <1>2, <1>3 DEF CallsMade

\* Only trans_cleanup_commit and xaccTransClearSplits disorder a list.
Tidying == stack # <<>> /\ Head(stack).op \in {"cleanup", "clear"}

LEMMA OrderedLists ==
    ASSUME ~Tidying
    PROVE  Lists <=> \A t \in Trans : InOrder(t)
BY DEF Lists, Tidying, Busy

\* What keeps the list of a transaction in order.
LEMMA OrderKept ==
    ASSUME NEW t \in Trans, InOrder(t),
           trans'[t].splits = trans[t].splits, trans'[t].orig = trans[t].orig,
           IsOpen(t)' <=> IsOpen(t),
           \A s \in trans[t].splits :
             /\ split'[s].live = split[s].live
             /\ split'[s].parent = split[s].parent
             /\ split'[s].orig_parent = split[s].orig_parent
             /\ ~IsOpen(t) => split'[s].dirty = split[s].dirty
             /\ split[s].parent # t => Dropping(t, s)'
    PROVE  InOrder(t)'
BY DEF InOrder, IsOpen

LEMMA OpenLive ==
    ASSUME EditInv, NEW t \in Trans
    PROVE  trans[t].editlevel \in Nat /\ (trans[t].editlevel # 0 => trans[t].live)
<1>1. FreedTrans.editlevel = 0
  BY DEF FreedTrans
<1>2. QED
  BY <1>1 DEF EditInv, Levels

LEMMA LevelsStep ==
    ASSUME EditInv, NEW t \in Trans, trans'[t].editlevel \in Nat, trans'[t].live,
           \A u \in Trans \ {t} : trans'[u] = trans[u]
    PROVE  Levels'
<1>1. ASSUME NEW u \in Trans
      PROVE  trans'[u].editlevel \in Nat /\ (~trans'[u].live => trans'[u] = FreedTrans)
  BY <1>1 DEF EditInv, Levels
<1>2. FreedTrans' = FreedTrans
  BY DEF FreedTrans, NoCopy
<1>3. QED
  BY <1>1, <1>2 DEF Levels

\* While no rollback is under way every split listed is a split of that list.
LEMMA IdleOrder ==
    ASSUME EditInv, stack = <<>> \/ \E f : stack = <<f>>, ~Tidying, NEW t \in Trans
    PROVE  /\ InOrder(t)
           /\ trans[t].splits \in SUBSET Split
           /\ \A s \in trans[t].splits : split[s].live /\ split[s].parent = t
<1>1. InOrder(t)
  BY OrderedLists DEF EditInv
<1>2. trans[t].splits \in SUBSET Split
  BY DEF EditInv, FieldTypes, TransRec
<1>3. Len(stack) = 0 \/ Len(stack) = 1
  BY Stack1
<1>4. \A s \in trans[t].splits : ~Dropping(t, s)
 <2>1. CASE Len(stack) = 0
   BY <2>1 DEF Dropping
 <2>2. CASE Len(stack) = 1
   BY <2>2 DEF Dropping
 <2>3. QED
   BY <1>3, <2>1, <2>2
<1>5. QED
  BY <1>1, <1>2, <1>4 DEF InOrder

\* What the setters do: a split that changes gets dirty, and keeps its links.
LEMMA SetterStep ==
    ASSUME EditInv, FieldTypes', stack = <<>>, stack' = <<>>, fault' = fault,
           \A s \in Split :
              \/ split'[s] = split[s]
              \/ /\ split'[s].dirty
                 /\ split'[s].live = split[s].live
                 /\ split'[s].parent = split[s].parent
                 /\ split'[s].orig_parent = split[s].orig_parent
                 /\ \A t \in Trans : split[s].parent = t => IsOpen(t),
           \A t \in Trans :
              \/ trans'[t] = trans[t]
              \/ /\ trans[t].live /\ trans'[t].live
                 /\ trans'[t].splits = trans[t].splits /\ trans'[t].orig = trans[t].orig
                 /\ trans'[t].editlevel = trans[t].editlevel
    PROVE  EditInv'
<1>1. ~Tidying /\ ~Tidying'
  BY DEF Tidying
<1>2. CallsMade' /\ NoFault'
  BY DEF EditInv, CallsMade, NoFault
<1>3. Levels'
  BY DEF EditInv, Levels
<1>4. CleanSplits'
  BY DEF EditInv, CleanSplits
<1>5. Lists'
 <2>1. ASSUME NEW t \in Trans PROVE InOrder(t)'
  <3>1. /\ InOrder(t) /\ trans[t].splits \in SUBSET Split
        /\ \A s \in trans[t].splits : split[s].live /\ split[s].parent = t
    BY <1>1, IdleOrder
  <3>2. \A s \in trans[t].splits :
           /\ split'[s].live = split[s].live
           /\ split'[s].parent = split[s].parent
           /\ split'[s].orig_parent = split[s].orig_parent
           /\ ~IsOpen(t) => split'[s].dirty = split[s].dirty
    BY <3>1
  <3>3. /\ trans'[t].splits = trans[t].splits /\ trans'[t].orig = trans[t].orig
        /\ IsOpen(t)' <=> IsOpen(t)
    BY DEF IsOpen
  <3>4. QED
    BY <3>1, <3>2, <3>3, OrderKept
 <2>2. QED
   BY <1>1, <2>1 DEF Lists, Tidying, Busy
<1>6. QED
  BY <1>2, <1>3, <1>4, <1>5 DEF EditInv

\* xaccTransBeginEdit leaves a list in order, and the copy with what it lists.
LEMMA BegunOrder ==
    ASSUME EditInv, NEW t \in Trans, InOrder(t), trans'[t] = Begun({t})[t],
           \A s \in trans[t].splits :
             /\ split'[s].live = split[s].live
             /\ split'[s].parent = split[s].parent \/ Dropping(t, s)'
             /\ split'[s].orig_parent = split[s].orig_parent
             /\ split[s].parent # t => Dropping(t, s)'
    PROVE  InOrder(t)' /\ trans'[t].editlevel = trans[t].editlevel + 1
<1>1. trans[t] \in TransRec /\ trans[t].editlevel \in Nat
  BY DEF EditInv, FieldTypes, Levels
<1>2. trans'[t] = [trans[t] EXCEPT !.editlevel = trans[t].editlevel + 1,
                     !.orig = IF trans[t].editlevel = 0 THEN DupeTrans(t) ELSE trans[t].orig]
  BY DEF Begun
<1>3. /\ trans'[t].editlevel = trans[t].editlevel + 1
      /\ trans'[t].splits = trans[t].splits
      /\ trans'[t].orig = IF trans[t].editlevel = 0 THEN DupeTrans(t) ELSE trans[t].orig
  BY <1>1, <1>2 DEF TransRec
<1>4. IsOpen(t)' /\ (IsOpen(t) <=> trans[t].editlevel # 0)
  BY <1>1, <1>3 DEF IsOpen
<1>5. CASE trans[t].editlevel # 0
  BY <1>3, <1>4, <1>5 DEF InOrder
<1>6. CASE trans[t].editlevel = 0
 <2>1. trans'[t].orig.splits = trans[t].splits
   BY <1>3, <1>6 DEF DupeTrans
 <2>2. QED
   BY <1>3, <1>4, <1>6, <2>1 DEF InOrder
<1>7. QED
  BY <1>5, <1>6

\* An edit that is committed or rolled back within another is only unwound.
LEMMA UnwoundStep ==
    ASSUME EditInv, FieldTypes', stack = <<>> \/ \E f : stack = <<f>>, ~Tidying,
           NEW t \in Trans, trans[t].editlevel > 1,
           trans' = [trans EXCEPT ![t].editlevel = @ - 1],
           stack' = <<>>, UNCHANGED <<split, fault>>
    PROVE  EditInv'
<1>1. trans[t] \in TransRec /\ trans[t].editlevel \in Nat /\ trans \in [Trans -> TransRec]
  BY DEF EditInv, FieldTypes, Levels
<1>2. trans'[t] = [trans[t] EXCEPT !.editlevel = trans[t].editlevel - 1]
  BY <1>1
<1>3. /\ trans'[t].editlevel = trans[t].editlevel - 1
      /\ trans'[t].live = trans[t].live
      /\ trans'[t].splits = trans[t].splits /\ trans'[t].orig = trans[t].orig
      /\ \A u \in Trans \ {t} : trans'[u] = trans[u]
  BY <1>1, <1>2 DEF TransRec
<1>4. trans[t].live
  BY <1>1, OpenLive
<1>5. CallsMade' /\ NoFault' /\ CleanSplits'
  BY DEF EditInv, CallsMade, NoFault, CleanSplits
<1>6. Levels'
  BY <1>1, <1>3, <1>4, LevelsStep
<1>7. Lists'
 <2>1. ASSUME NEW u \in Trans PROVE InOrder(u)'
  <3>1. /\ InOrder(u)
        /\ \A s \in trans[u].splits : split[s].live /\ split[s].parent = u
    BY IdleOrder
  <3>2. /\ trans'[u].splits = trans[u].splits /\ trans'[u].orig = trans[u].orig
        /\ IsOpen(u)' <=> IsOpen(u)
    BY <1>1, <1>3 DEF IsOpen
  <3>3. QED
    BY <3>1, <3>2, OrderKept
 <2>2. QED
   BY <2>1 DEF Lists, Busy
<1>8. QED
  BY <1>5, <1>6, <1>7 DEF EditInv

\* The steps of clients that begin something.
LEMMA BeginEditInv ==
    ASSUME EditInv, FieldTypes', NEW t \in Trans,
           BeginEdit(t) \/ TransDestroy(t) \/ MallocTrans(t)
    PROVE  EditInv'
<1>1. stack = <<>> /\ UNCHANGED <<split, fault>>
  BY DEF BeginEdit, TransDestroy, MallocTrans, Idle
<1>2. ~Tidying
  BY <1>1 DEF Tidying
<1>3. \A u \in Trans :
        /\ InOrder(u) /\ trans[u].splits \in SUBSET Split
        /\ \A s \in trans[u].splits : split[s].live /\ split[s].parent = u
  BY <1>1, <1>2, IdleOrder
<1>4. ASSUME NEW u \in Trans, trans'[u] = trans[u] PROVE InOrder(u)'
  BY <1>1, <1>3, <1>4, OrderKept DEF IsOpen
<1>5. trans \in [Trans -> TransRec] /\ NoFault' /\ CleanSplits'
  BY <1>1 DEF EditInv, FieldTypes, NoFault, CleanSplits
<1>6. CASE BeginEdit(t)
 <2>1. trans' = Begun({t}) /\ trans[t].live /\ stack' = <<>>
   BY <1>1, <1>6 DEF BeginEdit
 <2>2. InOrder(t)' /\ trans'[t].editlevel = trans[t].editlevel + 1
   BY <1>1, <1>3, <2>1, BegunOrder
 <2>3. \A u \in Trans \ {t} : trans'[u] = trans[u]
   BY <2>1 DEF Begun
 <2>4. trans'[t].live
  <3>1. trans[t] \in TransRec
    BY <1>5
  <3>2. QED
    BY <2>1, <3>1 DEF Begun, TransRec
 <2>5. Levels' /\ CallsMade'
  <3>1. trans'[t].editlevel \in Nat
    BY <2>2, OpenLive
  <3>2. Levels'
    BY <2>3, <2>4, <3>1, LevelsStep
  <3>3. QED
    BY <2>1, <3>2 DEF CallsMade
 <2>6. Lists'
   BY <1>4, <2>1, <2>2, <2>3 DEF Lists, Busy
 <2>7. QED
   BY <1>5, <2>5, <2>6 DEF EditInv
<1>7. CASE TransDestroy(t)
 <2>1. /\ trans' = [Begun({t}) EXCEPT ![t].do_free = TRUE] /\ trans[t].live
       /\ stack' = <<Call("close", t, None, {})>>
   BY <1>7 DEF TransDestroy
 <2>2. trans'[t] = [Begun({t})[t] EXCEPT !.do_free = TRUE]
   BY <2>1 DEF Begun
 <2>3. Begun({t})[t] \in TransRec
   BY BegunType DEF EditInv
 <2>4. /\ trans'[t].editlevel = Begun({t})[t].editlevel
       /\ trans'[t].live = Begun({t})[t].live
       /\ trans'[t].splits = Begun({t})[t].splits /\ trans'[t].orig = Begun({t})[t].orig
   BY <2>2, <2>3 DEF TransRec
 <2>5. /\ Begun({t})[t].editlevel = trans[t].editlevel + 1
       /\ Begun({t})[t].live = trans[t].live
       /\ Begun({t})[t].splits = trans[t].splits
       /\ Begun({t})[t].orig = IF trans[t].editlevel = 0 THEN DupeTrans(t) ELSE trans[t].orig
  <3>1. trans[t] \in TransRec
    BY <1>5
  <3>2. QED
    BY <3>1 DEF Begun, TransRec
 <2>6. trans[t].editlevel \in Nat
   BY DEF EditInv, Levels
 <2>7. InOrder(t)'
  <3>1. IsOpen(t)' /\ (IsOpen(t) <=> trans[t].editlevel # 0)
    BY <2>4, <2>5, <2>6 DEF IsOpen
  <3>2. CASE trans[t].editlevel # 0
    BY <1>1, <1>3, <2>4, <2>5, <3>1, <3>2, OrderKept
  <3>3. CASE trans[t].editlevel = 0
   <4>1. trans'[t].orig.splits = trans[t].splits
     BY <2>4, <2>5, <3>3 DEF DupeTrans
   <4>2. QED
     BY <1>1, <1>3, <2>4, <2>5, <3>1, <3>3, <4>1 DEF InOrder
  <3>4. QED
    BY <3>2, <3>3
 <2>8. \A u \in Trans \ {t} : trans'[u] = trans[u]
   BY <2>1 DEF Begun
 <2>9. Levels'
  <3>1. trans'[t].editlevel \in Nat
    BY <2>4, <2>5, <2>6
  <3>2. trans'[t].live
    BY <2>1, <2>4, <2>5
  <3>3. QED
    BY <2>8, <3>1, <3>2, LevelsStep
 <2>10. CallsMade'
   BY <2>1, <2>4, <2>5, <2>6 DEF CallsMade, IsOpen
 <2>11. Lists'
  <3>1. \A u \in Trans : ~Busy("cleanup", u)' /\ ~Busy("clear", u)'
    BY <2>1, CallFields DEF Busy
  <3>2. QED
    BY <1>4, <2>7, <2>8, <3>1 DEF Lists
 <2>12. QED
   BY <1>5, <2>9, <2>10, <2>11 DEF EditInv
<1>8. CASE MallocTrans(t)
 <2>1. /\ trans'[t] = [FreedTrans EXCEPT !.live = TRUE, !.dirty = TRUE] /\ stack' = <<>>
       /\ \A u \in Trans \ {t} : trans'[u] = trans[u]
   BY <1>1, <1>5, <1>8 DEF MallocTrans
 <2>2. /\ trans'[t].live /\ trans'[t].editlevel = 0 /\ trans'[t].splits = {}
       /\ trans'[t].orig.splits = {}
   BY <2>1 DEF FreedTrans, NoCopy
 <2>3. InOrder(t)'
   BY <2>2 DEF InOrder, IsOpen
 <2>4. Levels' /\ CallsMade'
  <3>1. trans'[t].editlevel \in Nat
    BY <2>2
  <3>2. Levels'
    BY <2>1, <2>2, <3>1, LevelsStep
  <3>3. QED
    BY <2>1, <3>2 DEF CallsMade
 <2>5. Lists'
   BY <1>4, <2>1, <2>3 DEF Lists, Busy
 <2>6. QED
   BY <1>5, <2>4, <2>5 DEF EditInv
<1>9. QED
  BY <1>6, <1>7, <1>8

LEMMA SetterInv ==
    ASSUME EditInv, FieldTypes',
           \/ \E t \in Trans, d \in Description : SetDescription(t, d)
           \/ \E s \in Split : \/ SplitDestroy(s)
                               \/ \E v \in Entered : SetBaseValue(s, v)
                               \/ \E r \in BOOLEAN : SetReconcile(s, r)
                               \/ \E a \in Account : SetAccount(s, a)
           \/ \E a \in Account : AccountCommitEdit(a)
    PROVE  EditInv'
<1>1. /\ split \in [Split -> SplitRec] /\ \A s \in Split : split[s] \in SplitRec
      /\ trans \in [Trans -> TransRec] /\ \A t \in Trans : trans[t] \in TransRec
  BY DEF EditInv, FieldTypes
<1>2. ASSUME NEW t \in Trans, NEW d \in Description, SetDescription(t, d)
      PROVE  EditInv'
 <2>1. /\ trans' = [trans EXCEPT ![t].description = d, ![t].dirty = TRUE]
       /\ trans[t].live /\ split' = split /\ stack = <<>> /\ stack' = <<>> /\ fault' = fault
   BY <1>2 DEF SetDescription, Setting, Idle
 <2>2. trans'[t] = [trans[t] EXCEPT !.description = d, !.dirty = TRUE]
   BY <1>1, <2>1
 <2>3. /\ trans'[t].live /\ trans'[t].splits = trans[t].splits
       /\ trans'[t].orig = trans[t].orig /\ trans'[t].editlevel = trans[t].editlevel
   BY <1>1, <2>1, <2>2 DEF TransRec
 <2>4. \A u \in Trans \ {t} : trans'[u] = trans[u]
   BY <1>1, <2>1
 <2>5. QED
   BY <2>1, <2>3, <2>4, SetterStep
<1>3. ASSUME NEW a \in Account, AccountCommitEdit(a) PROVE EditInv'
  BY <1>3, SetterStep DEF AccountCommitEdit, Idle
<1>4. ASSUME NEW s \in Split, NEW r \in SplitRec, SettingSplit(s),
             split' = [split EXCEPT ![s] = r], r.dirty, r.live = split[s].live,
             r.parent = split[s].parent, r.orig_parent = split[s].orig_parent,
             UNCHANGED <<trans, stack, fault>>
      PROVE  EditInv'
 <2>1. PICK t \in Trans : split[s].parent = t /\ Setting(t)
   BY <1>4 DEF SettingSplit
 <2>2. stack = <<>> /\ IsOpen(t)
   BY <2>1 DEF Setting, Idle
 <2>3. /\ split'[s] = r /\ \A x \in Split \ {s} : split'[x] = split[x]
   BY <1>1, <1>4
 <2>4. QED
   BY <1>4, <2>1, <2>2, <2>3, SetterStep
<1>5. ASSUME NEW s \in Split,
             \/ SplitDestroy(s)
             \/ \E v \in Entered : SetBaseValue(s, v)
             \/ \E r \in BOOLEAN : SetReconcile(s, r)
             \/ \E a \in Account : SetAccount(s, a)
      PROVE  EditInv'
 <2> DEFINE r == split'[s]
 <2>1. SettingSplit(s) /\ UNCHANGED <<trans, stack, fault>>
   BY <1>5 DEF SplitDestroy, SetBaseValue, SetReconcile, SetAccount
 <2>2. \/ split' = [split EXCEPT ![s].dirty = TRUE, ![s].do_free = TRUE]
       \/ \E v \in Entered : split' = [split EXCEPT ![s].amount = v, ![s].dirty = TRUE]
       \/ \E q \in BOOLEAN : split' = [split EXCEPT ![s].reconciled = q, ![s].dirty = TRUE]
       \/ \E a \in Account : split' = [split EXCEPT ![s].acc = a, ![s].dirty = TRUE]
   BY <1>5 DEF SplitDestroy, SetBaseValue, SetReconcile, SetAccount
 <2>3. split' = [split EXCEPT ![s] = r] /\ r \in SplitRec
   BY <1>1, <2>2 DEF FieldTypes
 <2>4. \/ r = [split[s] EXCEPT !.dirty = TRUE, !.do_free = TRUE]
       \/ \E v \in Entered : r = [split[s] EXCEPT !.amount = v, !.dirty = TRUE]
       \/ \E q \in BOOLEAN : r = [split[s] EXCEPT !.reconciled = q, !.dirty = TRUE]
       \/ \E a \in Account : r = [split[s] EXCEPT !.acc = a, !.dirty = TRUE]
   BY <1>1, <2>2
 <2>5. /\ r.dirty /\ r.live = split[s].live
       /\ r.parent = split[s].parent /\ r.orig_parent = split[s].orig_parent
   BY <1>1, <2>4 DEF SplitRec
 <2> HIDE DEF r
 <2>6. QED
   BY <1>4, <2>1, <2>3, <2>5
<1>6. QED
  BY <1>2, <1>3, <1>5

\* A new split is listed as one the edit added.
LEMMA MallocSplitInv ==
    ASSUME EditInv, FieldTypes', NEW t \in Trans, NEW s \in Split, NEW a \in Account,
           NEW v \in Entered, MallocSplit(t, s, a, v)
    PROVE  EditInv'
<1>1. /\ stack = <<>> /\ stack' = <<>> /\ fault' = fault
      /\ trans[t].live /\ IsOpen(t) /\ ~split[s].live
      /\ split' = [split EXCEPT ![s] = NewSplit(t, a, v)]
      /\ trans' = [trans EXCEPT ![t].splits = @ \cup {s}]
  BY DEF MallocSplit, Setting, Idle
<1>2. /\ split \in [Split -> SplitRec]
      /\ trans \in [Trans -> TransRec] /\ trans[t] \in TransRec
  BY DEF EditInv, FieldTypes
<1>3. /\ split'[s] = NewSplit(t, a, v) /\ \A x \in Split \ {s} : split'[x] = split[x]
      /\ trans'[t] = [trans[t] EXCEPT !.splits = @ \cup {s}]
      /\ \A u \in Trans \ {t} : trans'[u] = trans[u]
  BY <1>1, <1>2
<1>4. /\ split'[s].live /\ split'[s].dirty /\ split'[s].parent = t
      /\ split'[s].orig_parent = None
  BY <1>3 DEF NewSplit
<1>5. /\ trans'[t].splits = trans[t].splits \cup {s} /\ trans'[t].orig = trans[t].orig
      /\ trans'[t].live = trans[t].live /\ trans'[t].editlevel = trans[t].editlevel
  BY <1>2, <1>3 DEF TransRec
<1>6. ~Tidying
  BY <1>1 DEF Tidying
<1>7. \A u \in Trans : /\ InOrder(u) /\ trans[u].splits \in SUBSET Split
                       /\ \A x \in trans[u].splits : split[x].live /\ split[x].parent = u
  BY <1>1, <1>6, IdleOrder
<1>8. Levels'
  BY <1>3, <1>1, <1>5, LevelsStep, OpenLive
<1>9. CallsMade' /\ NoFault'
  BY <1>1 DEF EditInv, NoFault, CallsMade
<1>10. CleanSplits'
  BY <1>3, <1>4 DEF EditInv, CleanSplits
<1>11. InOrder(t)'
 <2>1. None \notin Trans
   BY TransEditAssumption
 <2>2. IsOpen(t)'
   BY <1>1, <1>5 DEF IsOpen
 <2>3. s \notin trans[t].splits
   BY <1>1, <1>7
 <2>4. \A x \in trans[t].splits : split'[x] = split[x]
   BY <1>3, <1>7, <2>3
 <2>5. trans[t].orig.splits \subseteq trans[t].splits
   BY <1>7 DEF InOrder
 <2>6. \A x \in trans[t].splits : /\ split[x].orig_parent \in {None, t}
                                  /\ x \in trans[t].orig.splits <=> split[x].orig_parent = t
   BY <1>1, <1>7 DEF InOrder
 <2>7. QED
   BY <1>4, <1>5, <1>7, <2>1, <2>2, <2>3, <2>4, <2>5, <2>6 DEF InOrder
<1>12. Lists'
 <2>1. ASSUME NEW u \in Trans, u # t PROVE InOrder(u)'
  <3>1. trans'[u] = trans[u]
    BY <1>3, <2>1
  <3>2. \A x \in trans[u].splits : split'[x] = split[x]
    BY <1>1, <1>3, <1>7
  <3>3. QED
    BY <1>7, <3>1, <3>2, OrderKept DEF IsOpen
 <2>2. QED
   BY <1>1, <1>11, <2>1 DEF Lists, Busy
<1>13. QED
  BY <1>8, <1>9, <1>10, <1>12 DEF EditInv

\* Going on to store or destroy transaction t, the only call in progress.
Going(t, op, todo) == stack' = <<Loop(op, t, todo)>>

\* A call that starts a loop for t leaves the other lists as they are.
LEMMA StartedLists ==
    ASSUME EditInv, stack = <<>> \/ \E f : stack = <<f>>, ~Tidying, NEW t \in Trans,
           NEW op \in {"cleanup", "clear", "rollback"}, NEW todo \in SUBSET Split,
           Going(t, op, todo),
           \A u \in Trans \ {t} : trans'[u] = trans[u],
           \A s \in Split : \/ split'[s] = split[s]
                            \/ ~split[s].live \/ split[s].parent = t,
           op = "cleanup" => Tidied(t, todo)',
           op = "clear" => Cleared(t, todo)',
           op = "rollback" => InOrder(t)'
    PROVE  Lists'
<1>1. stack' # <<>> /\ Head(stack') = Loop(op, t, todo)
  BY DEF Going
<1>2. Head(stack').op = op /\ Head(stack').t = t /\ Head(stack').todo = todo
  BY <1>1, LoopFields
<1>3. ASSUME NEW u \in Trans, u # t PROVE InOrder(u)' /\ ~Busy("cleanup", u)' /\ ~Busy("clear", u)'
 <2>1. ~Busy("cleanup", u)' /\ ~Busy("clear", u)'
   BY <1>2, <1>3 DEF Busy
 <2>2. /\ InOrder(u) /\ trans[u].splits \in SUBSET Split
       /\ \A s \in trans[u].splits : split[s].live /\ split[s].parent = u
   BY IdleOrder
 <2>3. trans'[u] = trans[u] /\ \A s \in trans[u].splits : split'[s] = split[s]
   BY <1>3, <2>2
 <2>4. InOrder(u)'
   BY <2>2, <2>3, OrderKept DEF IsOpen
 <2>5. QED
   BY <2>1, <2>4
<1>4. CASE op = "cleanup"
 <2>1. Busy("cleanup", t)'
   BY <1>1, <1>2, <1>4 DEF Busy
 <2>2. QED
   BY <1>2, <1>3, <1>4, <2>1 DEF Lists
<1>5. CASE op = "clear"
  BY <1>2, <1>3, <1>5, <1>1 DEF Lists, Busy
<1>6. CASE op = "rollback"
  BY <1>3, <1>6, <1>1, <1>2 DEF Lists, Busy
<1>7. QED
  BY <1>4, <1>5, <1>6

LEMMA StartedCalls ==
    ASSUME NEW t \in Trans, NEW op \in {"cleanup", "clear", "rollback"},
           NEW todo \in SUBSET Split, Going(t, op, todo), trans'[t].editlevel = 1,
           op = "rollback" => RollingBack(t, None, todo)'
    PROVE  CallsMade'
BY DEF CallsMade, Going

LEMMA StoreTransInv ==
    ASSUME EditInv, FieldTypes', stack = <<>> \/ \E f : stack = <<f>>, ~Tidying,
           NEW t \in Trans, trans[t].editlevel = 1, fault' = fault,
           NEW listed \in SUBSET Split, trans[t].splits \subseteq listed,
           \A s \in trans[t].splits :
             /\ split'[s].live /\ split'[s].parent = t
             /\ split'[s].orig_parent = split[s].orig_parent,
           \A s \in listed \ trans[t].splits :
             /\ ~split[s].live
             /\ split'[s].live /\ split'[s].parent = t /\ split'[s].orig_parent = None,
           \A s \in Split \ listed : split'[s] = split[s],
           \A s \in listed : split'[s].dirty \/ split'[s] = split[s],
           StoreTrans(t, listed, <<>>)
    PROVE  EditInv'
<1>1. /\ InOrder(t) /\ trans[t].splits \in SUBSET Split
      /\ \A s \in trans[t].splits : split[s].live /\ split[s].parent = t
  BY IdleOrder
<1>2. trans \in [Trans -> TransRec] /\ trans[t] \in TransRec
  BY DEF EditInv, FieldTypes
<1>3. PICK op \in {"cleanup", "rollback"} :
        /\ stack' = <<Call(op, t, None, listed)>> \o <<>>
        /\ \/ trans' = [trans EXCEPT ![t].dirty = FALSE, ![t].splits = listed]
           \/ trans' = [trans EXCEPT ![t].splits = listed,
                                     ![t].description = trans[t].orig.description]
  BY DEF StoreTrans
<1>4. Going(t, op, listed)
  BY <1>3 DEF Going, Loop
<1>5. /\ \/ trans'[t] = [trans[t] EXCEPT !.dirty = FALSE, !.splits = listed]
         \/ trans'[t] = [trans[t] EXCEPT !.splits = listed,
                                         !.description = trans[t].orig.description]
      /\ \A u \in Trans \ {t} : trans'[u] = trans[u]
  BY <1>2, <1>3
<1>6. /\ trans'[t].splits = listed /\ trans'[t].orig = trans[t].orig
      /\ trans'[t].live = trans[t].live /\ trans'[t].editlevel = 1
  BY <1>2, <1>5 DEF TransRec
<1>7. NoFault'
  BY DEF EditInv, NoFault
<1>8. Levels'
  BY <1>5, <1>6, LevelsStep, OpenLive
<1>9. CallsMade'
 <2>1. RollingBack(t, None, listed)'
  <3>1. None \notin Split
    BY TransEditAssumption
  <3>2. QED
    BY <1>6, <3>1 DEF RollingBack
 <2>2. QED
   BY <1>4, <1>6, <2>1, StartedCalls
<1>10. CleanSplits'
  BY DEF EditInv, CleanSplits
<1>11. Lists'
 <2>1. \A s \in listed : split'[s].orig_parent \in {None, t}
   BY <1>1 DEF InOrder
 <2>2. Tidied(t, listed)'
   BY <1>6, <2>1 DEF Tidied
 <2>3. InOrder(t)'
  <3>1. IsOpen(t)' /\ IsOpen(t)
    BY <1>6 DEF IsOpen
  <3>2. /\ trans[t].orig.splits \subseteq trans[t].splits
        /\ \A s \in trans[t].splits :
             s \in trans[t].orig.splits <=> split[s].orig_parent = t
    BY <1>1, <3>1 DEF InOrder
  <3>3. None \notin Trans
    BY TransEditAssumption
  <3>4. \A s \in listed : s \in trans[t].orig.splits <=> split'[s].orig_parent = t
    BY <3>2, <3>3
  <3>5. QED
    BY <1>6, <2>1, <3>1, <3>2, <3>4 DEF InOrder
 <2>4. \A s \in Split : \/ split'[s] = split[s]
                        \/ ~split[s].live \/ split[s].parent = t
   BY <1>1
 <2>5. QED
   BY <1>4, <1>5, <2>2, <2>3, <2>4, StartedLists
<1>12. QED
  BY <1>7, <1>8, <1>9, <1>10, <1>11 DEF EditInv

LEMMA CommitDestroyedInv ==
    ASSUME EditInv, FieldTypes', stack = <<>> \/ \E f : stack = <<f>>, ~Tidying,
           NEW t \in Trans, trans[t].editlevel = 1, fault' = fault,
           CommitDestroyed(t, <<>>)
    PROVE  EditInv'
<1> DEFINE mine == {s \in trans[t].splits : split[s].parent = t}
<1>1. /\ InOrder(t) /\ trans[t].splits \in SUBSET Split
      /\ \A s \in trans[t].splits : split[s].live /\ split[s].parent = t
  BY IdleOrder
<1>2. /\ trans \in [Trans -> TransRec] /\ trans[t] \in TransRec
      /\ split \in [Split -> SplitRec]
  BY DEF EditInv, FieldTypes
<1>3. mine = trans[t].splits
  BY <1>1
<1> HIDE DEF mine
<1>4. NoFault'
  BY DEF EditInv, NoFault
<1>5. CASE /\ split' = [s \in Split |->
                          IF s \in mine
                          THEN [split[s] EXCEPT !.dirty = TRUE, !.do_free = TRUE]
                          ELSE split[s]]
           /\ trans' = [trans EXCEPT ![t].do_free = TRUE]
           /\ stack' = <<Call("clear", t, None, mine)>> \o <<>>
 <2>1. Going(t, "clear", trans[t].splits)
  <3>1. stack' = <<Call("clear", t, None, mine)>> \o <<>>
    BY <1>5
  <3>2. Call("clear", t, None, mine) = Loop("clear", t, trans[t].splits)
    BY <1>3 DEF Loop
  <3>3. QED
    BY <3>1, <3>2 DEF Going
 <2>2. /\ trans'[t] = [trans[t] EXCEPT !.do_free = TRUE]
       /\ \A u \in Trans \ {t} : trans'[u] = trans[u]
   BY <1>2, <1>5
 <2>3. /\ trans'[t].splits = trans[t].splits /\ trans'[t].live = trans[t].live
       /\ trans'[t].editlevel = 1
   BY <1>2, <2>2 DEF TransRec
 <2>4. /\ \A s \in trans[t].splits :
            split'[s] = [split[s] EXCEPT !.dirty = TRUE, !.do_free = TRUE]
       /\ \A s \in Split \ trans[t].splits : split'[s] = split[s]
   BY <1>1, <1>3, <1>5
 <2>5. \A s \in trans[t].splits : /\ split'[s].live /\ split'[s].parent = t
                                  /\ split'[s].dirty /\ split'[s].do_free
  <3>1. \A s \in trans[t].splits : /\ split[s] \in SplitRec
                                   /\ split[s].live /\ split[s].parent = t
    BY <1>1, <1>2
  <3>2. QED
    BY <2>4, <3>1 DEF SplitRec
 <2>6. Levels'
  <3>1. trans'[t].live /\ trans'[t].editlevel \in Nat
    BY <2>3, OpenLive
  <3>2. QED
    BY <2>2, <3>1, LevelsStep
 <2>7. CallsMade'
   BY <1>1, <2>1, <2>3, StartedCalls
 <2>8. CleanSplits'
   BY <2>4, <2>5 DEF EditInv, CleanSplits
 <2>9. Cleared(t, trans[t].splits)'
   BY <2>3, <2>5 DEF Cleared
 <2>10. Lists'
  <3>1. \A s \in Split : \/ split'[s] = split[s]
                         \/ ~split[s].live \/ split[s].parent = t
    BY <1>1, <2>4
  <3>2. QED
    BY <1>1, <2>1, <2>2, <2>9, <3>1, StartedLists
 <2>11. QED
   BY <1>4, <2>6, <2>7, <2>8, <2>10 DEF EditInv
<1>6. CASE /\ trans' = [trans EXCEPT ![t].do_free = FALSE,
                                    ![t].description = trans[t].orig.description]
           /\ stack' = <<Call("rollback", t, None, trans[t].splits)>> \o <<>>
           /\ split' = split
 <2>1. Going(t, "rollback", trans[t].splits)
   BY <1>6 DEF Going, Loop
 <2>2. /\ trans'[t] = [trans[t] EXCEPT !.do_free = FALSE,
                                       !.description = trans[t].orig.description]
       /\ \A u \in Trans \ {t} : trans'[u] = trans[u]
   BY <1>2, <1>6
 <2>3. /\ trans'[t].splits = trans[t].splits /\ trans'[t].live = trans[t].live
       /\ trans'[t].orig = trans[t].orig /\ trans'[t].editlevel = 1
   BY <1>2, <2>2 DEF TransRec
 <2>4. Levels'
  <3>1. trans'[t].live /\ trans'[t].editlevel \in Nat
    BY <2>3, OpenLive
  <3>2. QED
    BY <2>2, <3>1, LevelsStep
 <2>5. RollingBack(t, None, trans[t].splits)'
  <3>1. None \notin Split
    BY TransEditAssumption
  <3>2. QED
    BY <1>1, <2>3, <3>1 DEF RollingBack
 <2>6. CallsMade'
   BY <1>1, <2>1, <2>3, <2>5, StartedCalls
 <2>7. CleanSplits'
   BY <1>6 DEF EditInv, CleanSplits
 <2>8. InOrder(t)'
   BY <1>1, <1>6, <2>3, OrderKept DEF IsOpen
 <2>9. Lists'
   BY <1>1, <1>6, <2>1, <2>2, <2>8, StartedLists
 <2>10. QED
   BY <1>4, <2>4, <2>6, <2>7, <2>9 DEF EditInv
<1>7. QED
  BY <1>5, <1>6 DEF CommitDestroyed, mine

LEMMA CommitCallInv ==
    ASSUME EditInv, FieldTypes', stack = <<>> \/ \E f : stack = <<f>>, ~Tidying,
           NEW t \in Trans, fault' = fault, CommitCall(t, <<>>)
    PROVE  EditInv'
<1>1. /\ trans[t].splits \in SUBSET Split
      /\ \A s \in trans[t].splits : split[s].live /\ split[s].parent = t
  BY IdleOrder
<1>2. split \in [Split -> SplitRec] /\ \A s \in Split : split[s] \in SplitRec
  BY DEF EditInv, FieldTypes
<1>3. CASE /\ trans[t].editlevel > 1
           /\ trans' = [trans EXCEPT ![t].editlevel = @ - 1]
           /\ stack' = <<>> /\ split' = split
  BY <1>3, UnwoundStep
<1>4. CASE /\ trans[t].editlevel = 1 /\ split' = split
           /\ StoreTrans(t, trans[t].splits, <<>>)
  BY <1>1, <1>4, StoreTransInv
<1>5. CASE trans[t].editlevel = 1 /\ CommitDestroyed(t, <<>>)
  BY <1>5, CommitDestroyedInv
<1>6. CASE /\ trans[t].editlevel = 1
           /\ \E b \in BalanceSplits(t) : \E new \in Amount :
                 /\ split' = Balanced(t, b, new)
                 /\ StoreTrans(t, trans[t].splits \cup {b}, <<>>)
 <2>1. PICK b \in BalanceSplits(t), new \in Amount :
              /\ split' = Balanced(t, b, new)
              /\ StoreTrans(t, trans[t].splits \cup {b}, <<>>)
   BY <1>6
 <2>2. b \in Split /\ (b \in trans[t].splits \/ ~split[b].live)
   BY <1>1 DEF BalanceSplits, Owned
 <2>3. \A s \in Split \ {b} : split'[s] = split[s]
   BY <1>2, <2>1, <2>2 DEF Balanced
 <2>4. CASE ~split[b].live
  <3>1. split'[b] = NewSplit(t, Imbalance, new)
    BY <1>2, <2>1, <2>2, <2>4 DEF Balanced
  <3>2. /\ split'[b].live /\ split'[b].dirty /\ split'[b].parent = t
        /\ split'[b].orig_parent = None
    BY <3>1 DEF NewSplit
  <3>3. b \notin trans[t].splits
    BY <1>1, <2>4
  <3>4. QED
    BY <1>1, <1>6, <2>1, <2>2, <2>3, <2>4, <3>2, <3>3, StoreTransInv
 <2>5. CASE split[b].live
  <3>1. \/ split'[b] = [split[b] EXCEPT !.dirty = TRUE, !.do_free = TRUE]
        \/ split'[b] = [split[b] EXCEPT !.dirty = TRUE, !.amount = new]
    BY <1>2, <2>1, <2>2, <2>5 DEF Balanced
  <3>2. /\ split'[b].live = split[b].live /\ split'[b].dirty
        /\ split'[b].parent = split[b].parent
        /\ split'[b].orig_parent = split[b].orig_parent
    BY <1>2, <2>2, <3>1 DEF SplitRec
  <3>3. trans[t].splits \cup {b} = trans[t].splits
    BY <2>2, <2>5
  <3>4. StoreTrans(t, trans[t].splits, <<>>)
    BY <2>1, <3>3
  <3>5. \A s \in trans[t].splits :
           /\ split'[s].live /\ split'[s].parent = t
           /\ split'[s].orig_parent = split[s].orig_parent
           /\ split'[s].dirty \/ split'[s] = split[s]
    BY <1>1, <2>3, <3>2
  <3>6. \A s \in Split \ trans[t].splits : split'[s] = split[s]
    BY <2>2, <2>3, <2>5
  <3>7. QED
    BY <1>1, <1>6, <3>4, <3>5, <3>6, StoreTransInv
 <2>6. QED
   BY <2>4, <2>5
<1>7. QED
  BY <1>3, <1>4, <1>5, <1>6 DEF CommitCall, CommitKept

LEMMA RollbackEditInv ==
    ASSUME EditInv, FieldTypes', NEW t \in Trans, RollbackEdit(t)
    PROVE  EditInv'
<1>1. /\ stack = <<>> /\ trans[t].live /\ IsOpen(t) /\ UNCHANGED <<split, fault>>
  BY DEF RollbackEdit, Idle
<1>2. ~Tidying
  BY <1>1 DEF Tidying
<1>3. /\ InOrder(t) /\ trans[t].splits \in SUBSET Split
      /\ \A s \in trans[t].splits : split[s].live /\ split[s].parent = t
  BY <1>1, <1>2, IdleOrder
<1>4. CASE trans[t].editlevel > 1
  BY <1>1, <1>2, <1>4, UnwoundStep DEF RollbackEdit
<1>5. CASE ~(trans[t].editlevel > 1)
 <2>1. /\ trans' = [trans EXCEPT ![t].description = trans[t].orig.description]
       /\ stack' = <<Call("rollback", t, None, trans[t].splits)>>
   BY <1>5 DEF RollbackEdit
 <2>2. trans[t].editlevel = 1
   BY <1>1, <1>5, OpenLive DEF IsOpen
 <2>3. Going(t, "rollback", trans[t].splits)
   BY <2>1 DEF Going, Loop
 <2>4. trans \in [Trans -> TransRec] /\ trans[t] \in TransRec
   BY DEF EditInv, FieldTypes
 <2>5. /\ trans'[t] = [trans[t] EXCEPT !.description = trans[t].orig.description]
       /\ \A u \in Trans \ {t} : trans'[u] = trans[u]
   BY <2>1, <2>4
 <2>6. /\ trans'[t].splits = trans[t].splits /\ trans'[t].live = trans[t].live
       /\ trans'[t].orig = trans[t].orig /\ trans'[t].editlevel = 1
   BY <2>2, <2>4, <2>5 DEF TransRec
 <2>7. Levels'
  <3>1. trans'[t].live /\ trans'[t].editlevel \in Nat
    BY <1>1, <2>6
  <3>2. QED
    BY <2>5, <3>1, LevelsStep
 <2>8. RollingBack(t, None, trans[t].splits)'
  <3>1. None \notin Split
    BY TransEditAssumption
  <3>2. QED
    BY <1>3, <2>6, <3>1 DEF RollingBack
 <2>9. CallsMade'
   BY <1>3, <2>3, <2>6, <2>8, StartedCalls
 <2>10. CleanSplits' /\ NoFault'
   BY <1>1 DEF EditInv, CleanSplits, NoFault
 <2>11. InOrder(t)'
   BY <1>1, <1>3, <2>2, <2>6, OrderKept DEF IsOpen
 <2>12. Lists'
   BY <1>1, <1>2, <1>3, <2>3, <2>5, <2>11, StartedLists
 <2>13. QED
   BY <2>7, <2>9, <2>10, <2>12 DEF EditInv
<1>6. QED
  BY <1>4, <1>5

LEMMA ClientEditInv ==
    ASSUME EditInv, "move" \notin Calls, ClientCall
    PROVE  EditInv'
<1>1. FieldTypes'
  BY ClientTypeOK DEF EditInv
<1>2. ASSUME NEW t \in Trans, CommitEdit(t) PROVE EditInv'
  BY <1>1, <1>2, CommitCallInv DEF CommitEdit, Idle, Tidying
<1>3. QED
  BY <1>1, <1>2, BeginEditInv, RollbackEditInv, MallocSplitInv, SetterInv
  DEF ClientCall, MoveSplit

\* The splits a loop has yet to visit are live.
LEMMA LoopSplits ==
    ASSUME EditInv, NEW t \in Trans, NEW s \in Split,
           NEW op \in {"cleanup", "clear", "rollback"}, Visiting(op, t, s)
    PROVE  split[s].live /\ split[s].parent = t
<1>1. Busy(op, t) /\ s \in Head(stack).todo
  BY DEF Visiting, Under, Busy
<1>2. PICK todo \in SUBSET Split :
        /\ stack = <<Loop(op, t, todo)>>
        /\ op = "rollback" => RollingBack(t, None, todo)
  BY <1>1, InLoop DEF EditInv
<1>3. Head(stack) = Loop(op, t, todo) /\ Head(stack).todo = todo
  BY <1>2, Stack1, LoopFields
<1>4. CASE op = "cleanup"
 <2>1. Tidied(t, todo)
   BY <1>1, <1>3, <1>4 DEF EditInv, Lists
 <2>2. QED
   BY <1>1, <1>3, <2>1 DEF Tidied
<1>5. CASE op = "clear"
 <2>1. Cleared(t, todo)
   BY <1>1, <1>3, <1>5 DEF EditInv, Lists, Busy
 <2>2. QED
   BY <1>1, <1>3, <2>1 DEF Cleared
<1>6. CASE op = "rollback"
 <2>1. ~Tidying /\ \E f : stack = <<f>>
   BY <1>1, <1>2, <1>6 DEF Tidying, Busy
 <2>2. s \in trans[t].splits
   BY <1>1, <1>2, <1>3, <1>6 DEF RollingBack
 <2>3. QED
   BY <2>1, <2>2, IdleOrder
<1>7. QED
  BY <1>4, <1>5, <1>6

\* The list of a transaction no loop is at, whatever is done to the splits of t.
LEMMA OthersKept ==
    ASSUME EditInv, \E f : stack = <<f>>, NEW t \in Trans, NEW u \in Trans \ {t},
           ~Busy("cleanup", u), ~Busy("clear", u), trans'[u] = trans[u],
           \A s \in Split : split'[s] = split[s] \/ split[s].parent = t
    PROVE  InOrder(u)'
<1>1. InOrder(u) /\ trans[u].splits \in SUBSET Split
  BY DEF EditInv, Lists, FieldTypes, TransRec
<1>2. Len(stack) = 1
  BY Stack1
<1>3. \A s \in trans[u].splits : ~Dropping(u, s)
  BY <1>2 DEF Dropping
<1>4. \A s \in trans[u].splits : split[s].parent = u
  BY <1>1, <1>3 DEF InOrder
<1>5. \A s \in trans[u].splits : split'[s] = split[s]
  BY <1>1, <1>4
<1>6. QED
  BY <1>1, <1>4, <1>5, OrderKept DEF IsOpen

\* What xaccSplitCommitEdit leaves of a split of t.
LEMMA CommitSplitResult ==
    ASSUME FieldTypes, NEW s \in Split, NEW ok \in Answers, CommitSplit(s, ok)
    PROVE  /\ \A x \in Split \ {s} : split'[x] = split[x]
           /\ \/ split'[s] = FreedSplit /\ split[s].do_free
              \/ /\ ok => ~split[s].do_free /\ ~split'[s].dirty
                 /\ ~ok => split'[s].dirty = split[s].dirty
                 /\ split'[s].live = split[s].live
                 /\ split'[s].parent = split[s].parent
                 /\ split'[s].orig_parent = split[s].parent
                 /\ split'[s].acc = split[s].acc
                 /\ split'[s].orig_acc = split[s].acc
<1> DEFINE settled == [split[s] EXCEPT !.orig_acc = split[s].acc,
                                       !.orig_parent = split[s].parent]
<1>1. split[s] \in SplitRec /\ split \in [Split -> SplitRec] /\ ok \in BOOLEAN
  BY DEF FieldTypes, Answers
<1>2. /\ settled \in SplitRec /\ settled.do_free = split[s].do_free
      /\ settled.dirty = split[s].dirty
      /\ settled.live = split[s].live /\ settled.parent = split[s].parent
      /\ settled.orig_parent = split[s].parent
      /\ settled.acc = split[s].acc /\ settled.orig_acc = split[s].acc
  BY <1>1 DEF SplitRec
<1>3. CASE ok
 <2>1. split' = [split EXCEPT ![s] =
                    IF settled.do_free THEN FreedSplit
                    ELSE [settled EXCEPT !.dirty = FALSE, !.infant = FALSE]]
   BY <1>3 DEF CommitSplit
 <2> HIDE DEF settled
 <2>2. /\ \A x \in Split \ {s} : split'[x] = split[x]
       /\ split'[s] = IF settled.do_free THEN FreedSplit
                      ELSE [settled EXCEPT !.dirty = FALSE, !.infant = FALSE]
   BY <1>1, <2>1
 <2>3. QED
   BY <1>2, <1>3, <2>2 DEF SplitRec
<1>4. CASE ~ok
 <2>1. split' = [split EXCEPT ![s] = [settled EXCEPT !.do_free = FALSE]]
   BY <1>4 DEF CommitSplit
 <2> HIDE DEF settled
 <2>2. /\ \A x \in Split \ {s} : split'[x] = split[x]
       /\ split'[s] = [settled EXCEPT !.do_free = FALSE]
   BY <1>1, <2>1
 <2>3. QED
   BY <1>2, <1>4, <2>2 DEF SplitRec
<1>5. QED
  BY <1>3, <1>4

LEMMA CleanupSplitInv ==
    ASSUME EditInv, FieldTypes', NEW t \in Trans, NEW s \in Split, CleanupSplit(t, s)
    PROVE  EditInv'
<1>1. /\ Visiting("cleanup", t, s) /\ split[s].dirty
      /\ stack' = Visited(s) /\ fault' = fault
  BY DEF CleanupSplit
<1>2. split[s].live /\ split[s].parent = t
  BY <1>1, LoopSplits
<1>3. PICK ok \in Answers : CommitSplit(s, ok)
  BY <1>2 DEF CleanupSplit
<1>4. trans' = IF ~split[s].do_free THEN trans ELSE [trans EXCEPT ![t].splits = @ \ {s}]
  BY <1>2 DEF CleanupSplit, StillHasSplit
<1>5. Busy("cleanup", t) /\ s \in Head(stack).todo
  BY <1>1 DEF Visiting, Under, Busy
<1>6. PICK todo \in SUBSET Split :
        stack = <<Loop("cleanup", t, todo)>> /\ trans[t].editlevel = 1
  BY <1>5, InLoop DEF EditInv
<1>7. Head(stack).todo = todo /\ Head(stack) = Loop("cleanup", t, todo)
  BY <1>6, Stack1, LoopFields
<1>8. Tidied(t, todo)
  BY <1>5, <1>7 DEF EditInv, Lists
<1>9. Going(t, "cleanup", todo \ {s})
  BY <1>1, <1>6, LoopVisited DEF Going
<1>10. trans \in [Trans -> TransRec] /\ trans[t] \in TransRec /\ ok \in BOOLEAN
  BY DEF EditInv, FieldTypes, Answers
<1>11. /\ trans'[t].splits = IF split[s].do_free THEN trans[t].splits \ {s}
                                                 ELSE trans[t].splits
       /\ trans'[t].live = trans[t].live /\ trans'[t].editlevel = 1
       /\ \A u \in Trans \ {t} : trans'[u] = trans[u]
 <2>1. CASE ~split[s].do_free
   BY <1>4, <1>6, <2>1
 <2>2. CASE split[s].do_free
   BY <1>6, <1>10, <2>2, <1>4 DEF TransRec
 <2>3. QED
   BY <2>1, <2>2
<1>12. /\ \A x \in Split \ {s} : split'[x] = split[x]
       /\ \/ split'[s] = FreedSplit /\ split[s].do_free
          \/ /\ ok => ~split[s].do_free /\ ~split'[s].dirty
             /\ ~ok => split'[s].dirty = split[s].dirty
             /\ split'[s].live = split[s].live
             /\ split'[s].parent = split[s].parent
             /\ split'[s].orig_parent = split[s].parent
             /\ split'[s].acc = split[s].acc
             /\ split'[s].orig_acc = split[s].acc
  BY <1>3, CommitSplitResult DEF EditInv
<1>13. ~CanFail => ok
  BY <1>10 DEF Answers
<1>14. NoFault' /\ CallsMade'
  BY <1>1, <1>9, <1>11, StartedCalls DEF EditInv, NoFault
<1>15. Levels'
  BY <1>11, <1>6, LevelsStep, OpenLive
<1>16. CleanSplits'
 <2>1. ~FreedSplit.live
   BY DEF FreedSplit
 <2>2. QED
   BY <1>12, <2>1 DEF EditInv, CleanSplits
<1>17. Tidied(t, todo \ {s})'
 <2>1. todo \ {s} \subseteq trans'[t].splits
   BY <1>8, <1>11 DEF Tidied
 <2>2. trans[t].splits \in SUBSET Split
   BY <1>10 DEF TransRec
 <2>3. ASSUME NEW x \in trans'[t].splits
       PROVE  /\ split'[x].live /\ split'[x].parent = t
              /\ split'[x].orig_parent \in {None, t}
              /\ x \notin todo \ {s} =>
                   split'[x].orig_parent = t /\ (CanFail \/ ~split'[x].dirty)
  <3>1. CASE x # s
    BY <1>8, <3>1, <1>11, <1>12, <2>2, <2>3 DEF Tidied
  <3>2. CASE x = s
   <4>1. ~split[s].do_free
     BY <1>11, <2>3, <3>2
   <4>2. QED
     BY <1>2, <1>12, <1>13, <3>2, <4>1
  <3>3. QED
    BY <3>1, <3>2
 <2>4. QED
   BY <2>1, <2>3 DEF Tidied
<1>18. Lists'
 <2>1. stack' # <<>> /\ Head(stack') = Loop("cleanup", t, todo \ {s})
   BY <1>9 DEF Going
 <2>2. /\ Head(stack').op = "cleanup" /\ Head(stack').t = t
       /\ Head(stack').todo = todo \ {s}
   BY <2>1, LoopFields
 <2>3. ASSUME NEW u \in Trans \ {t} PROVE InOrder(u)'
   BY <1>2, <1>6, <1>11, <1>12, <1>7, OthersKept, LoopFields DEF Busy
 <2>4. QED
   BY <1>17, <2>1, <2>2, <2>3 DEF Lists, Busy
<1>19. QED
  BY <1>14, <1>15, <1>16, <1>18 DEF EditInv

LEMMA CleanupDoneInv ==
    ASSUME EditInv, FieldTypes', NEW t \in Trans, CleanupDone(t)
    PROVE  EditInv'
<1>1. /\ Busy("cleanup", t) /\ \A s \in Head(stack).todo : ~split[s].dirty
      /\ trans' = [trans EXCEPT ![t].editlevel = @ - 1, ![t].orig = NoCopy]
      /\ stack' = Tail(stack) /\ UNCHANGED <<split, fault>>
  BY DEF CleanupDone, Under, Busy
<1>2. PICK todo \in SUBSET Split :
        stack = <<Loop("cleanup", t, todo)>> /\ trans[t].editlevel = 1
  BY <1>1, InLoop DEF EditInv
<1>3. /\ Head(stack).todo = todo /\ Head(stack) = Loop("cleanup", t, todo)
      /\ stack' = <<>>
  BY <1>1, <1>2, Stack1, LoopFields
<1>4. Tidied(t, todo)
  BY <1>1, <1>3 DEF EditInv, Lists
<1>5. trans \in [Trans -> TransRec] /\ trans[t] \in TransRec
  BY DEF EditInv, FieldTypes
<1>6. /\ trans'[t] = [trans[t] EXCEPT !.editlevel = @ - 1, !.orig = NoCopy]
      /\ \A u \in Trans \ {t} : trans'[u] = trans[u]
  BY <1>1, <1>5
<1>7. /\ trans'[t].editlevel = 0 /\ trans'[t].orig.splits = {}
      /\ trans'[t].live = trans[t].live /\ trans'[t].splits = trans[t].splits
  BY <1>2, <1>5, <1>6 DEF TransRec, NoCopy
<1>8. Levels'
 <2>1. trans'[t].live /\ trans'[t].editlevel \in Nat
   BY <1>2, <1>7, OpenLive
 <2>2. QED
   BY <1>6, <2>1, LevelsStep
<1>9. CallsMade' /\ NoFault' /\ CleanSplits'
  BY <1>1, <1>3 DEF EditInv, CallsMade, NoFault, CleanSplits
<1>10. InOrder(t)'
 <2>1. trans[t].splits \in SUBSET Split
   BY <1>5 DEF TransRec
 <2>2. ASSUME NEW s \in trans[t].splits
       PROVE  /\ split[s].live /\ split[s].parent = t /\ split[s].orig_parent = t
              /\ CanFail \/ ~split[s].dirty
  <3>1. split[s].live /\ split[s].parent = t
    BY <1>4 DEF Tidied
  <3>2. CASE s \in todo
    BY <1>1, <1>3, <2>1, <3>1, <3>2 DEF EditInv, CleanSplits
  <3>3. CASE s \notin todo
    BY <1>4, <3>1, <3>3 DEF Tidied
  <3>4. QED
    BY <3>1, <3>2, <3>3
 <2>3. ~IsOpen(t)'
   BY <1>7 DEF IsOpen
 <2>4. QED
   BY <1>1, <1>7, <2>2, <2>3 DEF InOrder
<1>11. Lists'
 <2>1. ASSUME NEW u \in Trans \ {t} PROVE InOrder(u)'
   BY <1>1, <1>2, <1>6, <1>3, OthersKept, LoopFields DEF Busy
 <2>2. QED
   BY <1>3, <1>10, <2>1 DEF Lists, Busy
<1>12. QED
  BY <1>8, <1>9, <1>11 DEF EditInv

LEMMA ClearSplitInv ==
    ASSUME EditInv, FieldTypes', NEW t \in Trans, NEW s \in Split, ClearSplit(t, s)
    PROVE  EditInv'
<1>1. /\ Visiting("clear", t, s) /\ stack' = Visited(s) /\ UNCHANGED <<trans, fault>>
  BY DEF ClearSplit
<1>2. Busy("clear", t) /\ s \in Head(stack).todo
  BY <1>1 DEF Visiting, Under, Busy
<1>3. PICK todo \in SUBSET Split :
        stack = <<Loop("clear", t, todo)>> /\ trans[t].editlevel = 1
  BY <1>2, InLoop DEF EditInv
<1>4. Head(stack).todo = todo /\ Head(stack) = Loop("clear", t, todo)
  BY <1>3, Stack1, LoopFields
<1>5. Cleared(t, todo)
  BY <1>2, <1>4 DEF EditInv, Lists, Busy
<1>6. split[s].live /\ split[s].dirty /\ split[s].do_free /\ split[s].parent = t
  BY <1>2, <1>4, <1>5 DEF Cleared
<1>7. PICK ok \in Answers : CommitSplit(s, ok)
  BY <1>6 DEF ClearSplit
<1>8. /\ \A x \in Split \ {s} : split'[x] = split[x]
      /\ \/ split'[s] = FreedSplit
         \/ /\ ~ok
            /\ split'[s].dirty = split[s].dirty
            /\ split'[s].live = split[s].live
            /\ split'[s].parent = split[s].parent
  BY <1>6, <1>7, CommitSplitResult DEF EditInv
<1>9. ~FreedSplit.live
  BY DEF FreedSplit
<1>10. ~CanFail => ok
  BY DEF Answers
<1>11. Going(t, "clear", todo \ {s})
  BY <1>1, <1>3, LoopVisited DEF Going
<1>12. NoFault' /\ CallsMade' /\ Levels'
  BY <1>1, <1>3, <1>11, StartedCalls DEF EditInv, NoFault, Levels, FreedTrans, NoCopy
<1>13. CleanSplits'
  BY <1>6, <1>8, <1>9 DEF EditInv, CleanSplits
<1>14. Cleared(t, todo \ {s})'
 <2>1. trans[t].splits \in SUBSET Split
   BY DEF EditInv, FieldTypes, TransRec
 <2>2. /\ todo \subseteq trans[t].splits
       /\ \A x \in todo : /\ split[x].live /\ split[x].dirty
                          /\ split[x].do_free /\ split[x].parent = t
       /\ \A x \in trans[t].splits : /\ split[x].live => split[x].parent = t
                                     /\ x \notin todo => CanFail \/ ~split[x].live
   BY <1>5 DEF Cleared
 <2>3. \A x \in todo \ {s} : /\ split'[x].live /\ split'[x].dirty
                             /\ split'[x].do_free /\ split'[x].parent = t
   BY <1>8, <2>1, <2>2
 <2>4. ASSUME NEW x \in trans[t].splits
       PROVE  /\ split'[x].live => split'[x].parent = t
              /\ x \notin todo \ {s} => CanFail \/ ~split'[x].live
  <3>1. CASE x = s
    BY <1>6, <1>8, <1>9, <1>10, <3>1
  <3>2. CASE x # s
    BY <1>8, <2>1, <2>2, <3>2
  <3>3. QED
    BY <3>1, <3>2
 <2>5. QED
   BY <1>1, <2>2, <2>3, <2>4 DEF Cleared
<1>15. Lists'
 <2>1. stack' # <<>> /\ Head(stack') = Loop("clear", t, todo \ {s})
   BY <1>11 DEF Going
 <2>2. /\ Head(stack').op = "clear" /\ Head(stack').t = t
       /\ Head(stack').todo = todo \ {s}
   BY <2>1, LoopFields
 <2>3. ASSUME NEW u \in Trans \ {t} PROVE InOrder(u)'
   BY <1>1, <1>3, <1>6, <1>8, <1>4, OthersKept, LoopFields DEF Busy
 <2>4. QED
   BY <1>14, <2>1, <2>2, <2>3 DEF Lists, Busy
<1>16. QED
  BY <1>12, <1>13, <1>15 DEF EditInv

LEMMA FreeTransactionInv ==
    ASSUME EditInv, FieldTypes', NEW t \in Trans, FreeTransaction(t)
    PROVE  EditInv'
<1>1. /\ Busy("clear", t) /\ trans' = [trans EXCEPT ![t] = FreedTrans]
      /\ stack' = Tail(stack) /\ UNCHANGED <<split, fault>>
  BY DEF FreeTransaction, LoopDone, Under, Busy
<1>2. PICK todo \in SUBSET Split : stack = <<Loop("clear", t, todo)>>
  BY <1>1, InLoop DEF EditInv
<1>3. Head(stack) = Loop("clear", t, todo) /\ stack' = <<>>
  BY <1>1, <1>2, Stack1
<1>4. trans'[t] = FreedTrans /\ \A u \in Trans \ {t} : trans'[u] = trans[u]
  BY <1>1 DEF EditInv, FieldTypes
<1>5. /\ FreedTrans.editlevel = 0 /\ FreedTrans.splits = {}
      /\ FreedTrans.orig.splits = {}
  BY DEF FreedTrans, NoCopy
<1>6. CallsMade' /\ NoFault' /\ CleanSplits'
  BY <1>1, <1>3 DEF EditInv, CallsMade, NoFault, CleanSplits
<1>7. Levels'
 <2>1. FreedTrans' = FreedTrans
   BY DEF FreedTrans, NoCopy
 <2>2. ASSUME NEW u \in Trans
       PROVE  trans'[u].editlevel \in Nat /\ (~trans'[u].live => trans'[u] = FreedTrans)
   BY <1>4, <1>5 DEF EditInv, Levels
 <2>3. QED
   BY <2>1, <2>2 DEF Levels
<1>8. InOrder(t)'
  BY <1>4, <1>5 DEF InOrder, IsOpen
<1>9. Lists'
 <2>1. ASSUME NEW u \in Trans \ {t} PROVE InOrder(u)'
   BY <1>1, <1>2, <1>4, <1>3, OthersKept, LoopFields DEF Busy
 <2>2. QED
   BY <1>3, <1>8, <2>1 DEF Lists, Busy
<1>10. QED
  BY <1>6, <1>7, <1>9 DEF EditInv

LEMMA RollbackDoneInv ==
    ASSUME EditInv, FieldTypes', NEW t \in Trans, RollbackDone(t)
    PROVE  EditInv'
<1>1. /\ Busy("rollback", t) /\ Head(stack).todo = {}
      /\ trans' = [trans EXCEPT ![t].editlevel = @ - 1, ![t].orig = NoCopy,
                                ![t].do_free = FALSE]
      /\ stack' = Tail(stack) /\ UNCHANGED <<split, fault>>
  BY DEF RollbackDone, LoopDone, Under, Busy
<1>2. PICK todo \in SUBSET Split :
        /\ stack = <<Loop("rollback", t, todo)>> /\ trans[t].editlevel = 1
        /\ RollingBack(t, None, todo)
  BY <1>1, InLoop DEF EditInv
<1>3. todo = {} /\ Head(stack) = Loop("rollback", t, todo) /\ stack' = <<>>
  BY <1>1, <1>2, Stack1, LoopFields
<1>4. /\ InOrder(t) /\ trans[t].splits \in SUBSET Split
      /\ \A s \in trans[t].splits : split[s].live /\ split[s].parent = t
 <2>1. ~Tidying
   BY <1>1 DEF Tidying, Busy
 <2>2. QED
   BY <1>2, <2>1, IdleOrder
<1>5. trans \in [Trans -> TransRec] /\ trans[t] \in TransRec
  BY DEF EditInv, FieldTypes
<1>6. /\ trans'[t] = [trans[t] EXCEPT !.editlevel = @ - 1, !.orig = NoCopy,
                                      !.do_free = FALSE]
      /\ \A u \in Trans \ {t} : trans'[u] = trans[u]
  BY <1>1, <1>5
<1>7. /\ trans'[t].editlevel = 0 /\ trans'[t].orig.splits = {}
      /\ trans'[t].live = trans[t].live /\ trans'[t].splits = trans[t].splits
  BY <1>2, <1>5, <1>6 DEF TransRec, NoCopy
<1>8. Levels'
 <2>1. trans'[t].live /\ trans'[t].editlevel \in Nat
   BY <1>2, <1>7, OpenLive
 <2>2. QED
   BY <1>6, <2>1, LevelsStep
<1>9. CallsMade' /\ NoFault' /\ CleanSplits'
  BY <1>1, <1>3 DEF EditInv, CallsMade, NoFault, CleanSplits
<1>10. InOrder(t)'
 <2>1. \A s \in trans[t].splits : ~split[s].dirty
  <3>1. None \notin Split
    BY TransEditAssumption
  <3>2. QED
    BY <1>2, <1>3, <1>4, <3>1 DEF RollingBack
 <2>2. \A s \in trans[t].splits : split[s].orig_parent = t
   BY <1>4, <2>1 DEF EditInv, CleanSplits
 <2>3. ~IsOpen(t)'
   BY <1>7 DEF IsOpen
 <2>4. QED
   BY <1>1, <1>4, <1>7, <2>1, <2>2, <2>3 DEF InOrder
<1>11. Lists'
 <2>1. ASSUME NEW u \in Trans \ {t} PROVE InOrder(u)'
   BY <1>1, <1>2, <1>6, <1>3, OthersKept, LoopFields DEF Busy
 <2>2. QED
   BY <1>3, <1>10, <2>1 DEF Lists, Busy
<1>12. QED
  BY <1>8, <1>9, <1>11 DEF EditInv

LEMMA Pushed ==
    ASSUME NEW S, NEW f \in S, NEW g \in S
    PROVE  <<f>> \o <<g>> = <<f, g>>
<1> DEFINE q == <<f>> \o <<g>>
           r == <<f, g>>
<1>1. q \in Seq(S) /\ r \in Seq(S) /\ Len(r) = 2 /\ r[1] = f /\ r[2] = g
  OBVIOUS
<1>2. <<f>> \in Seq(S) /\ <<g>> \in Seq(S) /\ Len(<<f>>) = 1 /\ Len(<<g>>) = 1
  OBVIOUS
<1>3. Len(q) = 2 /\ q[1] = f /\ q[2] = g
  BY <1>2
<1> HIDE DEF q, r
<1>4. \A i \in 1 .. Len(q) : q[i] = r[i]
  BY <1>1, <1>3
<1>5. q = r
  BY <1>1, <1>3, <1>4, SeqEqual
<1>6. QED
  BY <1>5 DEF q, r

LEMMA PushedTwo ==
    ASSUME NEW S, NEW f \in S, NEW g \in S, NEW h \in S, NEW i \in S
    PROVE  <<f, g>> \o <<h, i>> = <<f, g, h, i>>
<1> DEFINE q == <<f, g>> \o <<h, i>>
           r == <<f, g, h, i>>
<1>1. /\ q \in Seq(S) /\ r \in Seq(S) /\ Len(r) = 4
      /\ r[1] = f /\ r[2] = g /\ r[3] = h /\ r[4] = i
  OBVIOUS
<1>2. /\ <<f, g>> \in Seq(S) /\ <<h, i>> \in Seq(S)
      /\ Len(<<f, g>>) = 2 /\ Len(<<h, i>>) = 2
  OBVIOUS
<1>3. Len(q) = 4 /\ q[1] = f /\ q[2] = g /\ q[3] = h /\ q[4] = i
  BY <1>2
<1> HIDE DEF q, r
<1>4. \A j \in 1 .. Len(q) : q[j] = r[j]
  BY <1>1, <1>3
<1>5. q = r
  BY <1>1, <1>3, <1>4, SeqEqual
<1>6. QED
  BY <1>5 DEF q, r

LEMMA BegunFields ==
    ASSUME FieldTypes, NEW t \in Trans
    PROVE  /\ Begun({t})[t] =
                [trans[t] EXCEPT !.editlevel = trans[t].editlevel + 1,
                   !.orig = IF trans[t].editlevel = 0 THEN DupeTrans(t) ELSE trans[t].orig]
           /\ \A u \in Trans \ {t} : Begun({t})[u] = trans[u]
BY DEF Begun

\* Opening a transaction that is open counts a level, and no more.
LEMMA BegunAgain ==
    ASSUME FieldTypes, NEW t \in Trans, trans[t].editlevel # 0
    PROVE  /\ Begun({t})[t] = [trans[t] EXCEPT !.editlevel = trans[t].editlevel + 1,
                                               !.orig = trans[t].orig]
           /\ \A u \in Trans \ {t} : Begun({t})[u] = trans[u]
<1>1. (IF trans[t].editlevel = 0 THEN DupeTrans(t) ELSE trans[t].orig) = trans[t].orig
  OBVIOUS
<1>2. Begun({t})[t] =
        [trans[t] EXCEPT !.editlevel = trans[t].editlevel + 1,
           !.orig = IF trans[t].editlevel = 0 THEN DupeTrans(t) ELSE trans[t].orig]
  BY BegunFields
<1>3. QED
  BY <1>1, <1>2, BegunFields

LEMMA DiscardCalls ==
    ASSUME NEW t \in Trans, NEW s \in Split, NEW todo \in SUBSET Split,
           RollingBack(t, s, todo)', InHand(t, s, "discard")',
           \/ /\ trans'[t].editlevel = 1
              /\ stack' = <<Call("discard", t, s, {}), Loop("rollback", t, todo)>>
           \/ /\ trans'[t].editlevel = 1
              /\ stack' = <<Call("adopt", None, s, {}), Call("discard", t, s, {}),
                            Loop("rollback", t, todo)>>
           \/ /\ trans'[t].editlevel = 2
              /\ stack' = <<Call("close", t, None, {}), Call("adopt", None, s, {}),
                            Call("discard", t, s, {}), Loop("rollback", t, todo)>>
    PROVE  CallsMade'
<1> DEFINE op == "discard"
<1>1. op \in {"restore", "discard"} /\ op = "discard"
  OBVIOUS
<1>2. /\ RollingBack(t, s, todo)' /\ InHand(t, s, op)'
      /\ \/ /\ trans'[t].editlevel = 1
            /\ stack' = <<Call(op, t, s, {}), Loop("rollback", t, todo)>>
         \/ /\ trans'[t].editlevel = 1
            /\ stack' = <<Call("adopt", None, s, {}), Call(op, t, s, {}),
                          Loop("rollback", t, todo)>>
         \/ /\ trans'[t].editlevel = 2
            /\ stack' = <<Call("close", t, None, {}), Call("adopt", None, s, {}),
                          Call(op, t, s, {}), Loop("rollback", t, todo)>>
  OBVIOUS
<1> HIDE DEF op
<1>3. QED
  BY <1>1, <1>2 DEF CallsMade

LEMMA RevertedFields ==
    ASSUME FieldTypes, NEW s \in Split
    PROVE  /\ Reverted(s) \in [Split -> SplitRec]
           /\ \A x \in Split \ {s} : Reverted(s)[x] = split[x]
           /\ Reverted(s)[s].live = split[s].live
           /\ Reverted(s)[s].dirty = split[s].dirty
           /\ Reverted(s)[s].parent = split[s].parent
           /\ Reverted(s)[s].orig_parent = split[s].orig_parent
           /\ Reverted(s)[s].acc = split[s].orig_acc
           /\ Reverted(s)[s].orig_acc = split[s].orig_acc
           /\ Reverted(s)[s].infant = split[s].infant
           /\ split[s].parent # None => ~Reverted(s)[s].do_free
<1>1. split[s] \in SplitRec /\ split \in [Split -> SplitRec]
  BY DEF FieldTypes
<1>2. /\ Reverted(s)[s] = [split[s] EXCEPT !.acc = split[s].orig_acc,
                             !.do_free = @ /\ split[s].parent = None]
      /\ \A x \in Split \ {s} : Reverted(s)[x] = split[x]
      /\ Reverted(s) = [x \in Split |-> Reverted(s)[x]]
  BY <1>1 DEF Reverted
<1>3. Reverted(s)[s] \in SplitRec
  BY <1>1, <1>2 DEF SplitRec
<1>4. Reverted(s) \in [Split -> SplitRec]
  BY <1>1, <1>2, <1>3
<1>5. QED
  BY <1>1, <1>2, <1>4 DEF SplitRec

\* A split that stays with t: its parent is what it was.
LEMMA RevertStays ==
    ASSUME EditInv, NEW t \in Trans, NEW s \in Split, NEW rest,
           split[s].parent = t, split[s].orig_parent = t,
           SetParentCall(Reverted(s), s, split[s].orig_parent, rest)
    PROVE  split' = Reverted(s) /\ stack' = rest /\ UNCHANGED <<trans, fault>>
<1>1. Reverted(s)[s].parent = t
  BY RevertedFields DEF EditInv
<1>2. QED
  BY <1>1 DEF SetParentCall

\* One the edit added: t is opened once more, to be committed without it.
LEMMA RevertLeaves ==
    ASSUME EditInv, NEW t \in Trans, NEW s \in Split, NEW rest,
           split[s].parent = t, split[s].orig_parent = None, trans[t].live,
           SetParentCall(Reverted(s), s, split[s].orig_parent, rest)
    PROVE  /\ split' = [Reverted(s) EXCEPT ![s].parent = None]
           /\ trans' = Begun({t}) /\ fault' = fault
           /\ stack' = <<Call("close", t, None, {}), Call("adopt", None, s, {})>> \o rest
<1>1. Reverted(s)[s].parent = t
  BY RevertedFields DEF EditInv
<1>2. t # None
  BY TransEditAssumption
<1>3. {None, t} \ {None} = {t}
  BY <1>2
<1>4. QED
  BY <1>1, <1>2, <1>3 DEF SetParentCall

LEMMA RollbackSplitInv ==
    ASSUME EditInv, FieldTypes', NEW t \in Trans, NEW s \in Split, RollbackSplit(t, s)
    PROVE  EditInv'
<1>1. Visiting("rollback", t, s) /\ fault = "none"
  BY DEF RollbackSplit, Visiting, Under
<1>2. Busy("rollback", t) /\ s \in Head(stack).todo
  BY <1>1 DEF Visiting, Under, Busy
<1>3. PICK todo \in SUBSET Split :
        /\ stack = <<Loop("rollback", t, todo)>> /\ trans[t].editlevel = 1
        /\ RollingBack(t, None, todo)
  BY <1>2, InLoop DEF EditInv
<1>4. s \in todo /\ Head(stack) = Loop("rollback", t, todo)
  BY <1>2, <1>3, Stack1, LoopFields
<1>5. ~Tidying
  BY <1>2 DEF Tidying, Busy
<1>6. /\ InOrder(t) /\ trans[t].splits \in SUBSET Split
      /\ \A x \in trans[t].splits : split[x].live /\ split[x].parent = t
  BY <1>3, <1>5, IdleOrder
<1>7. Visited(s) = <<Loop("rollback", t, todo \ {s})>>
  BY <1>3, LoopVisited
<1>8. /\ None \notin Split /\ None \notin Trans
      /\ todo \subseteq trans[t].splits
      /\ \A x \in trans[t].splits \ todo : ~split[x].dirty
  BY <1>3, <1>6, TransEditAssumption DEF RollingBack
<1>9. /\ s \in trans[t].splits /\ split[s].live /\ split[s].parent = t
      /\ split[s].orig_parent \in {None, t}
      /\ s \in trans[t].orig.splits <=> split[s].orig_parent = t
  BY <1>3, <1>4, <1>6, <1>8 DEF InOrder, IsOpen
<1>10. trans[t].live
  BY <1>3, OpenLive
<1>11. trans \in [Trans -> TransRec] /\ trans[t] \in TransRec
  BY DEF EditInv, FieldTypes
<1>12. ASSUME \A u \in Trans \ {t} : trans'[u] = trans[u], InOrder(t)', ~Tidying',
              \A x \in Split : split'[x] = split[x] \/ split[x].parent = t
       PROVE  Lists'
 <2>1. ASSUME NEW u \in Trans \ {t} PROVE InOrder(u)'
   BY <1>3, <1>12, <1>5, OthersKept DEF Tidying, Busy
 <2>2. QED
   BY <1>12, <2>1 DEF Lists, Tidying, Busy
<1>13. CASE ~split[s].dirty /\ stack' = Visited(s) /\ UNCHANGED <<split, trans, fault>>
 <2>1. stack' = <<Loop("rollback", t, todo \ {s})>>
   BY <1>7, <1>13
 <2>2. RollingBack(t, None, todo \ {s})'
   BY <1>8, <1>9, <1>13 DEF RollingBack
 <2>3. CallsMade'
   BY <1>3, <1>13, <2>1, <2>2, StartedCalls DEF Going
 <2>4. NoFault' /\ Levels' /\ CleanSplits'
   BY <1>13 DEF EditInv, NoFault, Levels, CleanSplits, FreedTrans, NoCopy
 <2>5. Lists'
  <3>1. Head(stack') = Loop("rollback", t, todo \ {s})
    BY <2>1
  <3>2. Head(stack').op = "rollback"
    BY <3>1, LoopFields
  <3>3. ~Tidying'
    BY <3>2 DEF Tidying
  <3>4. InOrder(t)'
    BY <1>6, <1>13, OrderKept DEF IsOpen
  <3>5. QED
    BY <1>12, <1>13, <3>3, <3>4
 <2>6. QED
   BY <2>3, <2>4, <2>5 DEF EditInv
<1>14. CASE /\ split[s].dirty /\ split[s].orig_parent = t
            /\ SetParentCall(Reverted(s), s, split[s].orig_parent,
                             <<Call("restore", t, s, {})>> \o Visited(s))
 <2>1. /\ split' = Reverted(s) /\ UNCHANGED <<trans, fault>>
       /\ stack' = <<Call("restore", t, s, {})>> \o Visited(s)
   BY <1>9, <1>14, RevertStays
 <2>2. stack' = <<Call("restore", t, s, {}), Loop("rollback", t, todo \ {s})>>
   BY <1>7, <2>1, CallType, Pushed DEF Loop
 <2>3. /\ \A x \in Split \ {s} : split'[x] = split[x]
       /\ split'[s].live = split[s].live /\ split'[s].dirty = split[s].dirty
       /\ split'[s].parent = split[s].parent
       /\ split'[s].orig_parent = split[s].orig_parent
       /\ split'[s].acc = split'[s].orig_acc /\ ~split'[s].do_free
   BY <1>8, <1>9, <2>1, RevertedFields DEF EditInv
 <2>4. RollingBack(t, s, todo \ {s})'
   BY <1>6, <1>8, <2>1, <2>3 DEF RollingBack
 <2>5. InHand(t, s, "restore")'
   BY <1>9, <1>14, <2>1, <2>3 DEF InHand
 <2>6. CallsMade'
   BY <1>3, <2>1, <2>2, <2>4, <2>5 DEF CallsMade
 <2>7. NoFault' /\ Levels'
   BY <2>1 DEF EditInv, NoFault, Levels, FreedTrans, NoCopy
 <2>8. CleanSplits'
   BY <1>14, <2>3 DEF EditInv, CleanSplits
 <2>9. Lists'
  <3>1. Head(stack') = Call("restore", t, s, {})
    BY <2>2
  <3>2. ~Tidying'
    BY <3>1, CallFields DEF Tidying
  <3>3. \A x \in trans[t].splits :
           /\ split'[x].live = split[x].live /\ split'[x].parent = split[x].parent
           /\ split'[x].orig_parent = split[x].orig_parent
           /\ split'[x].dirty = split[x].dirty
    BY <1>6, <2>3
  <3>4. InOrder(t)'
    BY <1>6, <2>1, <3>3, OrderKept DEF IsOpen
  <3>5. \A x \in Split : split'[x] = split[x] \/ split[x].parent = t
    BY <1>9, <2>3
  <3>6. QED
    BY <1>12, <2>1, <3>2, <3>4, <3>5
 <2>10. QED
   BY <2>6, <2>7, <2>8, <2>9 DEF EditInv
<1>15. CASE /\ split[s].dirty /\ split[s].orig_parent = None
            /\ SetParentCall(Reverted(s), s, split[s].orig_parent,
                             <<Call("discard", t, s, {})>> \o Visited(s))
 <2> DEFINE rest == <<Call("discard", t, s, {})>> \o Visited(s)
 <2>a. rest = <<Call("discard", t, s, {})>> \o <<Loop("rollback", t, todo \ {s})>>
   BY <1>7
 <2>b. SetParentCall(Reverted(s), s, split[s].orig_parent, rest)
   BY <1>15
 <2>c. split[s].parent = t /\ split[s].orig_parent = None
   BY <1>9, <1>15
 <2> HIDE DEF rest
 <2>1. /\ split' = [Reverted(s) EXCEPT ![s].parent = None]
       /\ trans' = Begun({t}) /\ fault' = fault
       /\ stack' = <<Call("close", t, None, {}), Call("adopt", None, s, {})>> \o rest
   BY <1>10, <2>b, <2>c, RevertLeaves
 <2>2. stack' = <<Call("close", t, None, {}), Call("adopt", None, s, {}),
                  Call("discard", t, s, {}), Loop("rollback", t, todo \ {s})>>
  <3>1. rest = <<Call("discard", t, s, {}), Loop("rollback", t, todo \ {s})>>
    BY <2>a, Pushed, CallType DEF Loop
  <3>2. /\ Call("discard", t, s, {}) \in Frame /\ Loop("rollback", t, todo \ {s}) \in Frame
        /\ Call("close", t, None, {}) \in Frame /\ Call("adopt", None, s, {}) \in Frame
    BY CallType DEF Loop
  <3>3. <<Call("close", t, None, {}), Call("adopt", None, s, {})>>
          \o <<Call("discard", t, s, {}), Loop("rollback", t, todo \ {s})>>
        = <<Call("close", t, None, {}), Call("adopt", None, s, {}),
            Call("discard", t, s, {}), Loop("rollback", t, todo \ {s})>>
    BY <3>2, PushedTwo
  <3>4. QED
    BY <2>1, <3>1, <3>3
 <2>3. /\ \A x \in Split \ {s} : split'[x] = split[x]
       /\ split'[s].live = split[s].live /\ split'[s].dirty = split[s].dirty
       /\ split'[s].parent = None
       /\ split'[s].orig_parent = split[s].orig_parent
  <3>1. Reverted(s) \in [Split -> SplitRec] /\ Reverted(s)[s] \in SplitRec
    BY RevertedFields DEF EditInv
  <3>2. /\ split'[s] = [Reverted(s)[s] EXCEPT !.parent = None]
        /\ \A x \in Split \ {s} : split'[x] = Reverted(s)[x]
    BY <2>1, <3>1
  <3>3. /\ split'[s].live = Reverted(s)[s].live /\ split'[s].dirty = Reverted(s)[s].dirty
        /\ split'[s].parent = None
        /\ split'[s].orig_parent = Reverted(s)[s].orig_parent
    BY <3>1, <3>2 DEF SplitRec
  <3>4. QED
    BY <3>2, <3>3, RevertedFields DEF EditInv
 <2>4. /\ trans'[t].editlevel = 2 /\ trans'[t].splits = trans[t].splits
       /\ trans'[t].orig = trans[t].orig /\ trans'[t].live
       /\ \A u \in Trans \ {t} : trans'[u] = trans[u]
  <3>1. /\ trans'[t] = [trans[t] EXCEPT !.editlevel = trans[t].editlevel + 1,
                                        !.orig = trans[t].orig]
        /\ \A u \in Trans \ {t} : trans'[u] = trans[u]
   <4>1. FieldTypes /\ trans' = Begun({t}) /\ trans[t].editlevel = 1
     BY <1>3, <2>1 DEF EditInv
   <4>2. trans[t].editlevel # 0
     BY <4>1
   <4>3. QED
     BY <4>1, <4>2, BegunAgain
  <3>2. QED
    BY <1>3, <1>10, <1>11, <3>1 DEF TransRec
 <2>5. RollingBack(t, s, todo \ {s})'
   BY <1>6, <1>8, <2>3, <2>4 DEF RollingBack
 <2>6. InHand(t, s, "discard")'
   BY <1>8, <1>9, <1>15, <2>3, <2>4 DEF InHand
 <2>7. CallsMade'
  <3> DEFINE left == todo \ {s}
  <3>1. left \in SUBSET Split
    OBVIOUS
  <3>2. /\ RollingBack(t, s, left)' /\ trans'[t].editlevel = 2
        /\ stack' = <<Call("close", t, None, {}), Call("adopt", None, s, {}),
                      Call("discard", t, s, {}), Loop("rollback", t, left)>>
    BY <2>2, <2>4, <2>5
  <3> HIDE DEF left
  <3>3. QED
    BY <2>6, <3>1, <3>2, DiscardCalls
 <2>8. NoFault' /\ Levels'
  <3>1. trans'[t].editlevel \in Nat /\ trans'[t].live
    BY <2>4
  <3>2. /\ \A u \in Trans \ {t} : trans'[u].live = trans[u].live /\ trans'[u] = trans[u]
        /\ Levels /\ fault = "none" /\ fault' = fault
    BY <2>1, <2>4 DEF EditInv, NoFault
  <3>3. QED
    BY <3>1, <3>2 DEF NoFault, Levels, FreedTrans, NoCopy
 <2>9. CleanSplits'
   BY <1>15, <2>3 DEF EditInv, CleanSplits
 <2>10. Lists'
  <3>1. /\ stack' # <<>> /\ Head(stack') = Call("close", t, None, {})
        /\ Len(stack') = 4 /\ stack'[3] = Call("discard", t, s, {})
    BY <2>2
  <3>2. ~Tidying'
    BY <3>1, CallFields DEF Tidying
  <3>3. Dropping(t, s)'
    BY <3>1 DEF Dropping
  <3>4. trans'[t] = Begun({t})[t]
    BY <2>1
  <3>5. \A x \in trans[t].splits :
           /\ split'[x].live = split[x].live
           /\ split'[x].parent = split[x].parent \/ Dropping(t, x)'
           /\ split'[x].orig_parent = split[x].orig_parent
           /\ split[x].parent # t => Dropping(t, x)'
    BY <1>6, <2>3, <3>3
  <3>6. InOrder(t)'
    BY <1>6, <3>4, <3>5, BegunOrder
  <3>7. \A x \in Split : split'[x] = split[x] \/ split[x].parent = t
    BY <1>9, <2>3
  <3>8. QED
    BY <1>12, <2>4, <3>2, <3>6, <3>7
 <2>11. QED
   BY <2>7, <2>8, <2>9, <2>10 DEF EditInv
<1>16. QED
  BY <1>8, <1>9, <1>13, <1>14, <1>15 DEF RollbackSplit

\* The list of a transaction other than the one a rollback works on.
LEMMA OthersInOrder ==
    ASSUME EditInv, ~Tidying, NEW u \in Trans, \A x \in Split : ~Dropping(u, x),
           trans'[u] = trans[u],
           \A x \in Split : split[x].parent = u => split'[x] = split[x]
    PROVE  InOrder(u)'
<1>1. InOrder(u) /\ trans[u].splits \in SUBSET Split
  BY OrderedLists DEF EditInv, FieldTypes, TransRec
<1>2. \A x \in trans[u].splits : split[x].parent = u /\ split'[x] = split[x]
  BY <1>1 DEF InOrder
<1>3. QED
  BY <1>1, <1>2, OrderKept DEF IsOpen

\* ... so that the lists are in order when that one is.
LEMMA RollbackLists ==
    ASSUME EditInv, ~Tidying, ~Tidying', NEW t \in Trans, NEW s \in Split,
           \A u \in Trans \ {t}, x \in Split : ~Dropping(u, x),
           \A u \in Trans \ {t} : trans'[u] = trans[u],
           \A x \in Split \ {s} : split'[x] = split[x],
           split[s].parent \in {None, t}, InOrder(t)'
    PROVE  Lists'
<1>1. None \notin Trans
  BY TransEditAssumption
<1>2. ASSUME NEW u \in Trans \ {t} PROVE InOrder(u)'
 <2>1. \A x \in Split : split[x].parent = u => split'[x] = split[x]
   BY <1>1
 <2>2. \A x \in Split : ~Dropping(u, x)
   OBVIOUS
 <2>3. u \in Trans /\ trans'[u] = trans[u]
   OBVIOUS
 <2>4. QED
   BY <2>1, <2>2, <2>3, OthersInOrder
<1>3. QED
  BY <1>2 DEF Lists, Tidying, Busy

\* A split that is being restored, t being rolled back.
LEMMA InRestore ==
    ASSUME EditInv, Under("restore"), Head(stack).t \in Trans, Head(stack).s \in Split
    PROVE  \E todo \in SUBSET Split :
             /\ RollingBack(Head(stack).t, Head(stack).s, todo)
             /\ InHand(Head(stack).t, Head(stack).s, "restore")
             /\ trans[Head(stack).t].editlevel = 1
             /\ stack = <<Call("restore", Head(stack).t, Head(stack).s, {}),
                          Loop("rollback", Head(stack).t, todo)>>
<1>1. PICK u \in Trans, x \in Split, todo \in SUBSET Split, op \in {"restore", "discard"} :
        /\ RollingBack(u, x, todo) /\ InHand(u, x, op) /\ trans[u].editlevel = 1
        /\ \/ stack = <<Call(op, u, x, {}), Loop("rollback", u, todo)>>
           \/ stack = <<Call("adopt", None, x, {}), Call(op, u, x, {}),
                        Loop("rollback", u, todo)>>
  BY InRollback DEF EditInv
<1>2. Head(stack).op = "restore"
  BY DEF Under
<1>3. stack = <<Call(op, u, x, {}), Loop("rollback", u, todo)>>
  BY <1>1, <1>2, Stack3, CallFields
<1>4. op = "restore" /\ Head(stack).t = u /\ Head(stack).s = x
  BY <1>2, <1>3, Stack2, CallFields
<1>5. QED
  BY <1>1, <1>3, <1>4

LEMMA RestoreInv ==
    ASSUME EditInv, FieldTypes', NEW t \in Trans, NEW s \in Split, Restore(t, s)
    PROVE  EditInv'
<1>1. /\ Under("restore") /\ Head(stack).t = t /\ Head(stack).s = s
      /\ stack' = Tail(stack) /\ UNCHANGED <<trans, fault>>
      /\ split' = [split EXCEPT ![s].amount = trans[t].orig.amount[s],
                                ![s].reconciled = trans[t].orig.reconciled[s],
                                ![s].dirty = FALSE]
  BY DEF Restore
<1>2. Head(stack).op = "restore"
  BY <1>1 DEF Under
<1>3. PICK todo \in SUBSET Split :
        /\ RollingBack(t, s, todo) /\ InHand(t, s, "restore") /\ trans[t].editlevel = 1
        /\ stack = <<Call("restore", t, s, {}), Loop("rollback", t, todo)>>
  BY <1>1, InRestore
<1>4. stack' = <<Loop("rollback", t, todo)>>
  BY <1>1, <1>3, Stack2
<1>5. ~Tidying
  BY <1>2 DEF Tidying
<1>6. \A u \in Trans, x \in Split : ~Dropping(u, x)
  BY <1>3, CallFields, Stack2 DEF Dropping
<1>7. /\ InOrder(t) /\ trans[t].splits \in SUBSET Split
      /\ \A x \in trans[t].splits : split[x].live /\ split[x].parent = t
  BY <1>6, <1>5, OrderedLists DEF InOrder, EditInv, FieldTypes, TransRec
<1>8. /\ \A x \in Split \ {s} : split'[x] = split[x]
      /\ split'[s].live = split[s].live /\ split'[s].parent = split[s].parent
      /\ split'[s].orig_parent = split[s].orig_parent
      /\ split'[s].acc = split[s].acc /\ split'[s].orig_acc = split[s].orig_acc
      /\ ~split'[s].dirty
 <2>1. split \in [Split -> SplitRec] /\ split[s] \in SplitRec
   BY DEF EditInv, FieldTypes
 <2>2. /\ split'[s] = [split[s] EXCEPT !.amount = trans[t].orig.amount[s],
                         !.reconciled = trans[t].orig.reconciled[s], !.dirty = FALSE]
       /\ \A x \in Split \ {s} : split'[x] = split[x]
   BY <1>1, <2>1
 <2>3. QED
   BY <2>1, <2>2 DEF SplitRec
<1>9. /\ s \in trans[t].orig.splits /\ s \in trans[t].splits
      /\ split[s].parent = t /\ split[s].acc = split[s].orig_acc
      /\ split[s].orig_parent = t
  BY <1>3, <1>7 DEF InHand, InOrder, IsOpen
<1>10. RollingBack(t, None, todo)'
 <2>1. None \notin Split
   BY TransEditAssumption
 <2>2. trans'[t].splits = trans[t].splits
   BY <1>1
 <2>3. todo \subseteq trans[t].splits \ {s}
   BY <1>3 DEF RollingBack
 <2>4. ASSUME NEW x \in trans[t].splits \ (todo \cup {None}) PROVE ~split'[x].dirty
  <3>1. x = s \/ x \in trans[t].splits \ (todo \cup {s})
    OBVIOUS
  <3>2. QED
    BY <1>3, <1>7, <1>8, <3>1 DEF RollingBack
 <2>5. todo \subseteq trans[t].splits \ {None}
   BY <1>7, <2>1, <2>3
 <2>6. QED
   BY <2>2, <2>4, <2>5 DEF RollingBack
<1>11. CallsMade'
 <2>1. trans'[t].editlevel = 1
   BY <1>1, <1>3
 <2>2. QED
   BY <1>4, <1>10, <2>1, StartedCalls DEF Going
<1>12. NoFault' /\ Levels'
  BY <1>1 DEF EditInv, NoFault, Levels, FreedTrans, NoCopy
<1>13. CleanSplits'
  BY <1>8, <1>9 DEF EditInv, CleanSplits
<1>14. Lists'
 <2>1. Head(stack').op = "rollback"
   BY <1>4, LoopFields
 <2>2. ~Tidying'
   BY <2>1 DEF Tidying
 <2>3. \A x \in trans[t].splits :
            /\ split'[x].live = split[x].live /\ split'[x].parent = split[x].parent
            /\ split'[x].orig_parent = split[x].orig_parent
   BY <1>7, <1>8
 <2>4. IsOpen(t) /\ IsOpen(t)'
   BY <1>1, <1>3 DEF IsOpen
 <2>5. InOrder(t)'
   BY <1>1, <1>7, <2>3, <2>4, OrderKept
 <2>6. split[s].parent \in {None, t}
   BY <1>9
 <2>7. QED
   BY <1>1, <1>5, <1>6, <1>8, <2>2, <2>5, <2>6, RollbackLists
<1>15. QED
  BY <1>11, <1>12, <1>13, <1>14 DEF EditInv

\* A split that is being discarded, t being rolled back.
LEMMA InDiscard ==
    ASSUME EditInv, Under("discard") \/ Under("adopt")
    PROVE  \E t \in Trans, s \in Split, todo \in SUBSET Split :
             /\ RollingBack(t, s, todo) /\ InHand(t, s, "discard") /\ trans[t].editlevel = 1
             /\ \/ /\ Under("discard")
                   /\ stack = <<Call("discard", t, s, {}), Loop("rollback", t, todo)>>
                \/ /\ Under("adopt")
                   /\ stack = <<Call("adopt", None, s, {}), Call("discard", t, s, {}),
                                Loop("rollback", t, todo)>>
<1>1. PICK t \in Trans, s \in Split, todo \in SUBSET Split, op \in {"restore", "discard"} :
        /\ RollingBack(t, s, todo) /\ InHand(t, s, op) /\ trans[t].editlevel = 1
        /\ \/ stack = <<Call(op, t, s, {}), Loop("rollback", t, todo)>>
           \/ /\ op = "discard"
              /\ stack = <<Call("adopt", None, s, {}), Call(op, t, s, {}),
                           Loop("rollback", t, todo)>>
  BY InRollback DEF EditInv
<1>2. CASE stack = <<Call(op, t, s, {}), Loop("rollback", t, todo)>>
 <2>1. Head(stack).op = op
   BY <1>2, Stack2, CallFields
 <2>2. op = "discard" /\ Under("discard")
   BY <2>1 DEF Under
 <2>3. QED
   BY <1>1, <1>2, <2>2
<1>3. CASE /\ op = "discard"
           /\ stack = <<Call("adopt", None, s, {}), Call(op, t, s, {}),
                        Loop("rollback", t, todo)>>
 <2>1. Head(stack).op = "adopt"
   BY <1>3, Stack3, CallFields
 <2>2. Under("adopt")
   BY <2>1 DEF Under
 <2>3. QED
   BY <1>1, <1>3, <2>2
<1>4. QED
  BY <1>1, <1>2, <1>3

\* While s is discarded it is the one split without a parent in the list of t.
LEMMA DroppingOne ==
    ASSUME EditInv, ~Tidying, NEW t \in Trans, NEW s \in Split,
           Len(stack) > 1, stack[Len(stack) - 1] = Call("discard", t, s, {})
    PROVE  /\ \A u \in Trans, x \in Split : Dropping(u, x) => u = t /\ x = s
           /\ InOrder(t) /\ trans[t].splits \in SUBSET Split
           /\ \A x \in trans[t].splits \ {s} : split[x].live /\ split[x].parent = t
<1>1. \A u \in Trans, x \in Split : Dropping(u, x) => u = t /\ x = s
  BY CallFields DEF Dropping
<1>2. InOrder(t) /\ trans[t].splits \in SUBSET Split
  BY OrderedLists DEF EditInv, FieldTypes, TransRec
<1>3. QED
  BY <1>1, <1>2 DEF InOrder

LEMMA DiscardInv ==
    ASSUME EditInv, FieldTypes', NEW t \in Trans, NEW s \in Split, Discard(t, s)
    PROVE  EditInv'
<1>1. /\ Under("discard") /\ Head(stack).t = t /\ Head(stack).s = s
      /\ stack' = Tail(stack) /\ trans' = [trans EXCEPT ![t].splits = @ \ {s}]
      /\ split[s].parent = None => split' = [split EXCEPT ![s] = FreedSplit]
      /\ split[s].parent # t => fault' = fault
  BY DEF Discard
<1>2. PICK todo \in SUBSET Split :
        /\ RollingBack(t, s, todo) /\ InHand(t, s, "discard") /\ trans[t].editlevel = 1
        /\ stack = <<Call("discard", t, s, {}), Loop("rollback", t, todo)>>
 <2>1. PICK u \in Trans, x \in Split, todo \in SUBSET Split :
         /\ RollingBack(u, x, todo) /\ InHand(u, x, "discard") /\ trans[u].editlevel = 1
         /\ stack = <<Call("discard", u, x, {}), Loop("rollback", u, todo)>>
  <3>1. ~Under("adopt")
    BY <1>1 DEF Under
  <3>2. QED
    BY <1>1, <3>1, InDiscard
 <2>2. u = t /\ x = s
   BY <1>1, <2>1, Stack2, CallFields
 <2>3. QED
   BY <2>1, <2>2
<1>3. /\ stack' = <<Loop("rollback", t, todo)>> /\ ~Tidying
      /\ Len(stack) > 1 /\ stack[Len(stack) - 1] = Call("discard", t, s, {})
  BY <1>1, <1>2, CallFields, Stack2 DEF Tidying
<1>4. /\ s \in trans[t].splits /\ s \notin trans[t].orig.splits
      /\ split[s].parent = None /\ None \notin Trans /\ None \notin Split
  BY <1>2, TransEditAssumption DEF InHand
<1>5. /\ \A u \in Trans, x \in Split : Dropping(u, x) => u = t /\ x = s
      /\ InOrder(t) /\ trans[t].splits \in SUBSET Split
      /\ \A x \in trans[t].splits \ {s} : split[x].live /\ split[x].parent = t
  BY <1>3, DroppingOne
<1>6. /\ split'[s] = FreedSplit /\ \A x \in Split \ {s} : split'[x] = split[x]
      /\ fault' = fault
  BY <1>1, <1>4 DEF EditInv, FieldTypes
<1>7. /\ trans'[t].splits = trans[t].splits \ {s} /\ trans'[t].live = trans[t].live
      /\ trans'[t].orig = trans[t].orig /\ trans'[t].editlevel = 1
      /\ \A u \in Trans \ {t} : trans'[u] = trans[u]
 <2>1. trans \in [Trans -> TransRec] /\ trans[t] \in TransRec
   BY DEF EditInv, FieldTypes
 <2>2. /\ trans'[t] = [trans[t] EXCEPT !.splits = trans[t].splits \ {s}]
       /\ \A u \in Trans \ {t} : trans'[u] = trans[u]
   BY <1>1, <2>1
 <2>3. QED
   BY <1>2, <2>1, <2>2 DEF TransRec
<1>8. RollingBack(t, None, todo)'
 <2>1. /\ todo \subseteq trans[t].splits \ {s}
       /\ \A x \in trans[t].splits \ (todo \cup {s}) : ~split[x].dirty
   BY <1>2 DEF RollingBack
 <2>2. \A x \in trans'[t].splits \ (todo \cup {None}) : ~split'[x].dirty
   BY <1>5, <1>6, <1>7, <2>1
 <2>3. todo \subseteq trans'[t].splits \ {None}
   BY <1>4, <1>5, <1>7, <2>1
 <2>4. QED
   BY <2>2, <2>3 DEF RollingBack
<1>9. CallsMade'
  BY <1>3, <1>7, <1>8, StartedCalls DEF Going
<1>10. NoFault' /\ Levels'
 <2>1. trans'[t].live /\ trans'[t].editlevel \in Nat
   BY <1>2, <1>7, OpenLive
 <2>2. Levels'
   BY <1>7, <2>1, LevelsStep
 <2>3. QED
   BY <1>6, <2>2 DEF EditInv, NoFault
<1>11. CleanSplits'
 <2>1. ~split'[s].live
   BY <1>6 DEF FreedSplit
 <2>2. QED
   BY <1>6, <2>1 DEF EditInv, CleanSplits
<1>12. Lists'
 <2>1. Head(stack').op = "rollback"
   BY <1>3, LoopFields
 <2>2. ~Tidying'
   BY <2>1 DEF Tidying
 <2>3. IsOpen(t) /\ IsOpen(t)'
   BY <1>2, <1>7 DEF IsOpen
 <2>4. ASSUME NEW x \in trans'[t].splits
       PROVE  /\ split'[x].live /\ split'[x].parent = t
              /\ split'[x].orig_parent \in {None, t}
              /\ x \in trans'[t].orig.splits <=> split'[x].orig_parent = t
   BY <1>5, <1>7, <2>3, <1>6 DEF InOrder
 <2>5. trans'[t].orig.splits \subseteq trans'[t].splits
   BY <1>4, <1>5, <1>7 DEF InOrder
 <2>6. InOrder(t)'
   BY <2>3, <2>4, <2>5 DEF InOrder
 <2>7. \A u \in Trans \ {t}, x \in Split : ~Dropping(u, x)
   BY <1>5
 <2>8. split[s].parent \in {None, t}
   BY <1>4
 <2>9. QED
   BY <1>3, <1>6, <1>7, <2>2, <2>6, <2>7, <2>8, RollbackLists
<1>13. QED
  BY <1>9, <1>10, <1>11, <1>12 DEF EditInv

LEMMA AdoptInv ==
    ASSUME EditInv, FieldTypes', NEW s \in Split, Adopt(s)
    PROVE  EditInv'
<1>1. /\ Under("adopt") /\ Head(stack).s = s /\ fault' = fault
      /\ split' = [split EXCEPT ![s].dirty = TRUE]
      /\ Head(stack).t \notin Trans => stack' = Tail(stack) /\ trans' = trans
  BY DEF Adopt
<1>2. PICK t \in Trans, todo \in SUBSET Split :
        /\ RollingBack(t, s, todo) /\ InHand(t, s, "discard") /\ trans[t].editlevel = 1
        /\ stack = <<Call("adopt", None, s, {}), Call("discard", t, s, {}),
                     Loop("rollback", t, todo)>>
 <2>1. PICK t \in Trans, x \in Split, todo \in SUBSET Split :
         /\ RollingBack(t, x, todo) /\ InHand(t, x, "discard") /\ trans[t].editlevel = 1
         /\ stack = <<Call("adopt", None, x, {}), Call("discard", t, x, {}),
                      Loop("rollback", t, todo)>>
  <3>1. ~Under("discard")
    BY <1>1 DEF Under
  <3>2. QED
    BY <1>1, <3>1, InDiscard
 <2>2. x = s
   BY <1>1, <2>1, Stack3, CallFields
 <2>3. QED
   BY <2>1, <2>2
<1>3. /\ Head(stack).t = None /\ Head(stack).op = "adopt"
      /\ Len(stack) > 1 /\ stack[Len(stack) - 1] = Call("discard", t, s, {})
      /\ Tail(stack) = <<Call("discard", t, s, {}), Loop("rollback", t, todo)>>
  BY <1>2, Stack3, CallFields
<1>4. /\ stack' = <<Call("discard", t, s, {}), Loop("rollback", t, todo)>>
      /\ trans' = trans /\ ~Tidying
  BY <1>1, <1>3, TransEditAssumption DEF Tidying
<1>5. /\ \A u \in Trans, x \in Split : Dropping(u, x) => u = t /\ x = s
      /\ InOrder(t) /\ trans[t].splits \in SUBSET Split
      /\ \A x \in trans[t].splits \ {s} : split[x].live /\ split[x].parent = t
  BY <1>3, <1>4, DroppingOne
<1>6. /\ \A x \in Split \ {s} : split'[x] = split[x]
      /\ split'[s].live = split[s].live /\ split'[s].parent = split[s].parent
      /\ split'[s].orig_parent = split[s].orig_parent /\ split'[s].dirty
 <2>1. split \in [Split -> SplitRec] /\ split[s] \in SplitRec
   BY DEF EditInv, FieldTypes
 <2>2. /\ split'[s] = [split[s] EXCEPT !.dirty = TRUE]
       /\ \A x \in Split \ {s} : split'[x] = split[x]
   BY <1>1, <2>1
 <2>3. QED
   BY <2>1, <2>2 DEF SplitRec
<1>7. RollingBack(t, s, todo)' /\ InHand(t, s, "discard")'
  BY <1>2, <1>4, <1>5, <1>6 DEF RollingBack, InHand
<1>8. CallsMade'
 <2>1. trans'[t].editlevel = 1
   BY <1>2, <1>4
 <2>2. QED
   BY <1>4, <1>7, <2>1, DiscardCalls
<1>9. NoFault' /\ Levels'
  BY <1>1, <1>4 DEF EditInv, NoFault, Levels, FreedTrans, NoCopy
<1>10. CleanSplits'
  BY <1>6 DEF EditInv, CleanSplits
<1>11. Lists'
 <2>1. /\ stack' # <<>> /\ Head(stack').op = "discard"
       /\ Len(stack') = 2 /\ stack'[1] = Call("discard", t, s, {})
   BY <1>4, CallFields
 <2>2. ~Tidying' /\ Dropping(t, s)'
   BY <2>1 DEF Tidying, Dropping
 <2>3. \A x \in trans[t].splits :
            /\ split'[x].live = split[x].live /\ split'[x].parent = split[x].parent
            /\ split'[x].orig_parent = split[x].orig_parent
            /\ split[x].parent # t => Dropping(t, x)'
   BY <1>5, <1>6, <2>2
 <2>4. IsOpen(t) /\ IsOpen(t)'
   BY <1>2, <1>4 DEF IsOpen
 <2>5. InOrder(t)'
   BY <1>4, <1>5, <2>3, <2>4, OrderKept
 <2>6. /\ split[s].parent \in {None, t}
       /\ \A u \in Trans \ {t}, x \in Split : ~Dropping(u, x)
       /\ \A u \in Trans \ {t} : trans'[u] = trans[u]
   BY <1>2, <1>4, <1>5 DEF InHand
 <2>7. QED
   BY <1>4, <1>6, <2>2, <2>5, <2>6, RollbackLists
<1>12. QED
  BY <1>8, <1>9, <1>10, <1>11 DEF EditInv

\* The commit of a transaction being destroyed, or of one that the discarding
\* of a split opened again.
LEMMA CloseInv ==
    ASSUME EditInv, FieldTypes', Close
    PROVE  EditInv'
<1>1. /\ Under("close") /\ fault' = fault /\ Head(stack).op = "close" /\ ~Tidying
      /\ \A t \in Trans : Head(stack).t = t => CommitCall(t, Tail(stack))
  BY TransEditAssumption DEF Close, Under, Tidying
<1>2. ASSUME NEW t \in Trans, stack = <<Call("close", t, None, {})>>
      PROVE  EditInv'
 <2>1. Head(stack).t = t /\ Tail(stack) = <<>> /\ \E f : stack = <<f>>
   BY <1>2, Stack1, CallFields
 <2>2. CommitCall(t, <<>>)
   BY <1>1, <2>1
 <2>3. QED
   BY <1>1, <2>1, <2>2, CommitCallInv
<1>3. ASSUME NEW t \in Trans, NEW s \in Split, NEW todo \in SUBSET Split,
             RollingBack(t, s, todo), InHand(t, s, "discard"), trans[t].editlevel = 2,
             stack = <<Call("close", t, None, {}), Call("adopt", None, s, {}),
                       Call("discard", t, s, {}), Loop("rollback", t, todo)>>
      PROVE  EditInv'
 <2>1. /\ Head(stack).t = t /\ Len(stack) > 1
       /\ stack[Len(stack) - 1] = Call("discard", t, s, {})
       /\ Tail(stack) = <<Call("adopt", None, s, {}), Call("discard", t, s, {}),
                          Loop("rollback", t, todo)>>
   BY <1>3, Stack4, CallFields
 <2>2. CommitCall(t, Tail(stack))
   BY <1>1, <2>1
 <2>3. /\ trans' = [trans EXCEPT ![t].editlevel = @ - 1]
       /\ stack' = Tail(stack) /\ split' = split
   BY <1>3, <2>2 DEF CommitCall
 <2>4. stack' = <<Call("adopt", None, s, {}), Call("discard", t, s, {}),
                  Loop("rollback", t, todo)>>
   BY <2>1, <2>3
 <2>5. /\ \A u \in Trans, x \in Split : Dropping(u, x) => u = t /\ x = s
       /\ InOrder(t) /\ trans[t].splits \in SUBSET Split
       /\ \A x \in trans[t].splits \ {s} : split[x].live /\ split[x].parent = t
   BY <1>1, <2>1, DroppingOne
 <2>6. /\ trans'[t].splits = trans[t].splits /\ trans'[t].live = trans[t].live
       /\ trans'[t].orig = trans[t].orig /\ trans'[t].editlevel = 1
       /\ \A u \in Trans \ {t} : trans'[u] = trans[u]
  <3>1. trans \in [Trans -> TransRec] /\ trans[t] \in TransRec
    BY DEF EditInv, FieldTypes
  <3>2. /\ trans'[t] = [trans[t] EXCEPT !.editlevel = trans[t].editlevel - 1]
        /\ \A u \in Trans \ {t} : trans'[u] = trans[u]
    BY <2>3, <3>1
  <3>3. QED
    BY <1>3, <3>1, <3>2 DEF TransRec
 <2>7. RollingBack(t, s, todo)' /\ InHand(t, s, "discard")'
   BY <1>3, <2>3, <2>6 DEF RollingBack, InHand
 <2>8. CallsMade'
   BY <2>4, <2>6, <2>7, DiscardCalls
 <2>9. NoFault' /\ Levels'
  <3>1. trans'[t].live /\ trans'[t].editlevel \in Nat
    BY <1>3, <2>6, OpenLive
  <3>2. Levels'
    BY <2>6, <3>1, LevelsStep
  <3>3. QED
    BY <1>1, <3>2 DEF EditInv, NoFault
 <2>10. CleanSplits'
   BY <2>3 DEF EditInv, CleanSplits
 <2>11. Lists'
  <3>1. /\ stack' # <<>> /\ Head(stack').op = "adopt"
        /\ Len(stack') = 3 /\ stack'[2] = Call("discard", t, s, {})
    BY <2>4, CallFields
  <3>2. ~Tidying' /\ Dropping(t, s)'
    BY <3>1 DEF Tidying, Dropping
  <3>3. \A x \in trans[t].splits :
           /\ split'[x].live = split[x].live /\ split'[x].parent = split[x].parent
           /\ split'[x].orig_parent = split[x].orig_parent
           /\ split[x].parent # t => Dropping(t, x)'
    BY <2>3, <2>5, <3>2
  <3>4. IsOpen(t) /\ IsOpen(t)'
    BY <1>3, <2>6 DEF IsOpen
  <3>5. InOrder(t)'
    BY <2>5, <2>6, <3>3, <3>4, OrderKept
  <3>6. /\ split[s].parent \in {None, t}
        /\ \A u \in Trans \ {t}, x \in Split : ~Dropping(u, x)
        /\ \A x \in Split \ {s} : split'[x] = split[x]
    BY <1>3, <2>3, <2>5 DEF InHand
  <3>7. QED
    BY <1>1, <2>6, <3>2, <3>5, <3>6, RollbackLists
 <2>12. QED
   BY <2>8, <2>9, <2>10, <2>11 DEF EditInv
<1>4. PICK t \in Trans :
        \/ stack = <<Call("close", t, None, {})>> /\ IsOpen(t)
        \/ \E s \in Split, todo \in SUBSET Split :
             /\ RollingBack(t, s, todo) /\ InHand(t, s, "discard")
             /\ trans[t].editlevel = 2
             /\ stack = <<Call("close", t, None, {}), Call("adopt", None, s, {}),
                          Call("discard", t, s, {}), Loop("rollback", t, todo)>>
  BY <1>1, InClose DEF EditInv
<1>5. QED
  BY <1>2, <1>3, <1>4

LEMMA CallEditInv ==
    ASSUME EditInv, CallStep
    PROVE  EditInv'
<1>1. FieldTypes'
  BY CallTypeOK DEF EditInv
<1>2. ASSUME NEW t \in Trans, NEW s \in Split, ReadFreed(t, s) PROVE EditInv'
 <2>1. PICK op \in {"cleanup", "clear", "rollback"} : Visiting(op, t, s)
   BY <1>2 DEF ReadFreed
 <2>2. split[s].live
   BY <2>1, LoopSplits
 <2>3. QED
   BY <1>2, <2>2 DEF ReadFreed
<1>3. QED
  BY <1>1, <1>2, CloseInv, AdoptInv, CleanupDoneInv, FreeTransactionInv, RollbackDoneInv,
     CleanupSplitInv, ClearSplitInv, RollbackSplitInv, RestoreInv, DiscardInv DEF CallStep

LEMMA InitEditInv ==
    ASSUME Init
    PROVE  EditInv
<1>1. FieldTypes
  BY InitTypeOK
<1>2. /\ stack = <<>> /\ fault = "none"
      /\ \A s \in Split : split[s] = LoadedSplit(s)
      /\ trans = [t \in Trans |->
                    [FreedTrans EXCEPT !.live = LoadedInto(t) # {}, !.splits = LoadedInto(t)]]
  BY DEF Init
<1>3. ASSUME NEW t \in Trans
      PROVE  /\ trans[t].editlevel = 0 /\ trans[t].splits = LoadedInto(t)
             /\ trans[t].orig.splits = {}
             /\ ~trans[t].live => trans[t] = FreedTrans
 <2> DEFINE there == LoadedInto(t) # {}
            listed == LoadedInto(t)
            blank == CHOOSE d \in Description : TRUE
            none == NoCopy
 <2>1. trans[t] = [FreedTrans EXCEPT !.live = there, !.splits = listed]
   BY <1>2
 <2>2. /\ FreedTrans = [live |-> FALSE, dirty |-> FALSE, do_free |-> FALSE,
                        editlevel |-> 0, splits |-> {}, description |-> blank,
                        orig |-> none]
       /\ none.splits = {}
   BY DEF FreedTrans, NoCopy
 <2>3. there \in BOOLEAN /\ (~there => listed = {})
   OBVIOUS
 <2> HIDE DEF there, listed, blank, none
 <2>4. trans[t] = [live |-> there, dirty |-> FALSE, do_free |-> FALSE,
                   editlevel |-> 0, splits |-> listed, description |-> blank,
                   orig |-> none]
   BY <2>1, <2>2
 <2>5. /\ trans[t].editlevel = 0 /\ trans[t].splits = listed /\ trans[t].orig = none
       /\ trans[t].live <=> there
   BY <2>4
 <2>6. ~there => trans[t] = FreedTrans
  <3>1. SUFFICES ASSUME ~there PROVE trans[t] = FreedTrans
    OBVIOUS
  <3>2. there = FALSE /\ listed = {}
    BY <2>3, <3>1
  <3>3. QED
    BY <2>2, <2>4, <3>2
 <2>7. QED
   BY <2>2, <2>5, <2>6 DEF listed
<1>4. CallsMade /\ NoFault
  BY <1>2 DEF CallsMade, NoFault
<1>5. Levels
  BY <1>3 DEF Levels
<1>6. CleanSplits
 <2>1. ASSUME NEW s \in Split, split[s].live
       PROVE  split[s].orig_parent = split[s].parent /\ split[s].acc = split[s].orig_acc
  <3>1. split[s] = LoadedSplit(s)
    BY <1>2
  <3>2. CASE Loaded[s] = None
    BY <2>1, <3>1, <3>2 DEF LoadedSplit, FreedSplit
  <3>3. CASE Loaded[s] # None
    BY <3>1, <3>3 DEF LoadedSplit
  <3>4. QED
    BY <3>2, <3>3
 <2>2. QED
   BY <2>1 DEF CleanSplits
<1>7. Lists
 <2>1. ASSUME NEW t \in Trans PROVE InOrder(t)
  <3>1. \A s \in trans[t].splits :
          /\ split[s].live /\ split[s].parent = t /\ split[s].orig_parent = t
          /\ ~split[s].dirty
   <4>1. ASSUME NEW s \in trans[t].splits
         PROVE  /\ split[s].live /\ split[s].parent = t /\ split[s].orig_parent = t
                /\ ~split[s].dirty
    <5>1. s \in Split /\ Loaded[s] # None /\ Loaded[s].parent = t
      BY <1>3, <4>1 DEF LoadedInto
    <5>2. split[s] = LoadedSplit(s)
      BY <1>2, <5>1
    <5>3. QED
      BY <5>1, <5>2 DEF LoadedSplit
   <4>2. QED
     BY <4>1
  <3>2. QED
    BY <1>3, <3>1 DEF InOrder, IsOpen
 <2>2. QED
   BY <1>2, <2>1 DEF Lists, Busy
<1>8. QED
  BY <1>1, <1>4, <1>5, <1>6, <1>7 DEF EditInv

LEMMA StillEditInv ==
    ASSUME EditInv, UNCHANGED vars
    PROVE  EditInv'
<1>1. UNCHANGED <<split, trans, account, splitRow, transRow, stack, calls, fault>>
  BY DEF vars
<1>2. FieldTypes' /\ NoFault' /\ CleanSplits'
  BY <1>1 DEF EditInv, FieldTypes, NoFault, CleanSplits
<1>3. CallsMade'
  BY <1>1 DEF EditInv, CallsMade, RollingBack, InHand, IsOpen
<1>4. Levels'
  BY <1>1 DEF EditInv, Levels, FreedTrans, NoCopy
<1>5. Lists'
  BY <1>1 DEF EditInv, Lists, Busy, Tidied, Cleared, InOrder, Dropping, IsOpen
<1>6. QED
  BY <1>2, <1>3, <1>4, <1>5 DEF EditInv

\* The inductive invariant, when no client moves a split to another transaction.
LEMMA EditInvHolds ==
    ASSUME "move" \notin Calls
    PROVE  Spec => []EditInv
<1>1. Init => EditInv
  BY InitEditInv
<1>2. EditInv /\ [Next]_vars => EditInv'
  BY ClientEditInv, CallEditInv, StillEditInv DEF Next
<1>3. QED
  BY <1>1, <1>2, PTL DEF Spec
-----------------------------------------------------------------------------
(* When the backend refuses nothing: the parents of the splits list them,  *)
(* and the rows are what was committed.                                    *)

LEMMA ParentsKept ==
    ASSUME Parents,
           \A t \in Trans : \A s \in trans[t].splits :
             s \in trans'[t].splits \/ ~split'[s].live \/ split'[s].parent # t,
           \A s \in Split : split'[s].live =>
             \/ split[s].live /\ split'[s].parent = split[s].parent
             \/ \A t \in Trans : split'[s].parent = t => s \in trans'[t].splits
    PROVE  Parents'
BY DEF Parents

\* The row of split s goes with what a step does to s.
Changed(s) ==
    \/ split'[s] = split[s]
    \/ /\ split[s].live /\ split'[s].live /\ split'[s].dirty
       /\ split'[s].infant = split[s].infant
       /\ split'[s].orig_acc = split[s].orig_acc
       /\ split'[s].orig_parent = split[s].orig_parent
       /\ split'[s].parent = split[s].parent \/ splitRow[s] = None
    \/ splitRow[s] = None /\ (split'[s].live => split'[s].dirty /\ split'[s].infant)

\* The copy of t goes with what a step does to t.
CopyKept(t) ==
    \/ Busy("cleanup", t)' \/ Busy("clear", t)'
    \/ trans'[t].orig.splits = {}
    \/ ~Busy("cleanup", t) /\ ~Busy("clear", t) /\ trans'[t].orig = trans[t].orig
    \/ \A s \in trans'[t].orig.splits : splitRow[s] = CopiedRow(t, s)'

LEMMA CopyNotNone ==
    ASSUME FieldTypes, NEW t \in Trans, NEW s \in Split
    PROVE  CopiedRow(t, s) # None
<1>1. trans[t].orig \in Copy /\ split[s] \in SplitRec
  BY DEF FieldTypes, TransRec
<1>2. /\ trans[t].orig.amount[s] \in Amount /\ trans[t].orig.reconciled[s] \in BOOLEAN
      /\ split[s].orig_acc \in Account \cup {None}
  BY <1>1 DEF Copy, SplitRec
<1>3. CopiedRow(t, s) \in Row
  BY <1>2 DEF CopiedRow, Row
<1>4. None \notin Row
  BY TransEditAssumption
<1>5. QED
  BY <1>3, <1>4

LEMMA RowsKept ==
    ASSUME FieldTypes, FieldTypes', Rows, splitRow' = splitRow,
           \A s \in Split : Changed(s) /\ (Clearing(s) => Clearing(s)'),
           \A t \in Trans : CopyKept(t)
    PROVE  Rows'
<1>1. ASSUME NEW s \in Split
      PROVE  /\ split'[s].live /\ ~split'[s].dirty => splitRow[s] = RowOf(split'[s])
             /\ splitRow[s] # None => /\ split'[s].live
                                      /\ split'[s].orig_parent = splitRow[s].parent
                                      /\ split'[s].parent = splitRow[s].parent
                                      /\ splitRow[s].parent # None
             /\ split'[s].live /\ splitRow[s] = None => split'[s].infant \/ Clearing(s)'
 <2>1. /\ split[s].live /\ ~split[s].dirty => splitRow[s] = RowOf(split[s])
       /\ splitRow[s] # None => /\ split[s].live
                                /\ split[s].orig_parent = splitRow[s].parent
                                /\ split[s].parent = splitRow[s].parent
                                /\ splitRow[s].parent # None
       /\ split[s].live /\ splitRow[s] = None => split[s].infant \/ Clearing(s)
   BY DEF Rows
 <2>2. Changed(s) /\ (Clearing(s) => Clearing(s)')
   OBVIOUS
 <2>3. QED
   BY <2>1, <2>2 DEF Changed
<1>2. ASSUME NEW t \in Trans, ~Busy("cleanup", t)', ~Busy("clear", t)',
             NEW s \in trans'[t].orig.splits
      PROVE  splitRow[s] = CopiedRow(t, s)'
 <2>1. CASE /\ ~Busy("cleanup", t) /\ ~Busy("clear", t)
            /\ trans'[t].orig = trans[t].orig
  <3>1. s \in Split /\ s \in trans[t].orig.splits
    BY <1>2, <2>1 DEF FieldTypes, TransRec, Copy
  <3>2. splitRow[s] = CopiedRow(t, s) /\ splitRow[s] # None
    BY <2>1, <3>1, CopyNotNone DEF Rows
  <3>3. split'[s].orig_acc = split[s].orig_acc
    BY <3>1, <3>2 DEF Changed
  <3>4. QED
    BY <2>1, <3>2, <3>3 DEF CopiedRow
 <2>2. QED
   BY <1>2, <2>1 DEF CopyKept
<1>3. ASSUME NEW s \in Split
      PROVE  /\ (split[s].live /\ ~split[s].dirty => splitRow[s] = RowOf(split[s]))'
             /\ (splitRow[s] # None => /\ split[s].live
                                       /\ split[s].orig_parent = splitRow[s].parent
                                       /\ split[s].parent = splitRow[s].parent
                                       /\ splitRow[s].parent # None)'
             /\ (split[s].live /\ splitRow[s] = None => split[s].infant \/ Clearing(s))'
  BY <1>1 DEF RowOf
<1>4. \A t \in Trans : (~Busy("cleanup", t) /\ ~Busy("clear", t) =>
         \A s \in trans[t].orig.splits : splitRow[s] = CopiedRow(t, s))'
  BY <1>2
<1>5. QED
  BY <1>3, <1>4 DEF Rows

\* A step that stores nothing, and leaves the lists as they are.
LEMMA StoresNothing ==
    ASSUME EditInv, FieldTypes', Parents, Rows, splitRow' = splitRow,
           \A s \in Split :
             /\ Changed(s) /\ (Clearing(s) => Clearing(s)')
             /\ split'[s].live = split[s].live /\ split'[s].parent = split[s].parent,
           \A t \in Trans : trans'[t].splits = trans[t].splits /\ CopyKept(t)
    PROVE  Parents' /\ Rows'
<1>1. Parents'
 <2>1. \A t \in Trans : \A s \in trans[t].splits :
         s \in trans'[t].splits \/ ~split'[s].live \/ split'[s].parent # t
   OBVIOUS
 <2>2. \A s \in Split : split'[s].live => split[s].live /\ split'[s].parent = split[s].parent
   OBVIOUS
 <2>3. QED
   BY <2>1, <2>2, ParentsKept
<1>2. FieldTypes /\ (\A s \in Split : Changed(s) /\ (Clearing(s) => Clearing(s)'))
      /\ (\A t \in Trans : CopyKept(t)) /\ splitRow' = splitRow /\ Rows /\ FieldTypes'
  BY DEF EditInv
<1>3. Rows'
  BY <1>2, RowsKept
<1>4. QED
  BY <1>1, <1>3

\* Outside the loops that commit splits nothing is about to be deleted.
LEMMA NotTidying ==
    ASSUME ~Tidying
    PROVE  /\ \A s \in Split : ~Clearing(s)
           /\ \A t \in Trans : ~Busy("cleanup", t) /\ ~Busy("clear", t)
BY DEF Tidying, Clearing, Busy

LEMMA QuietSetters ==
    ASSUME EditInv, FieldTypes', Parents, Rows, splitRow' = splitRow, ~Tidying,
           \A s \in Split :
             \/ split'[s] = split[s]
             \/ /\ split[s].live /\ split'[s].live /\ split'[s].dirty
                /\ split'[s].infant = split[s].infant
                /\ split'[s].orig_acc = split[s].orig_acc
                /\ split'[s].orig_parent = split[s].orig_parent
                /\ split'[s].parent = split[s].parent,
           \A t \in Trans : \/ trans'[t] = trans[t]
                            \/ /\ trans'[t].splits = trans[t].splits
                               /\ trans'[t].orig = trans[t].orig
    PROVE  Parents' /\ Rows'
<1>1. \A s \in Split : Changed(s) /\ (Clearing(s) => Clearing(s)')
  BY NotTidying DEF Changed
<1>2. \A t \in Trans : trans'[t].splits = trans[t].splits /\ CopyKept(t)
  BY NotTidying DEF CopyKept
<1>3. \A s \in Split : split'[s].live = split[s].live /\ split'[s].parent = split[s].parent
 <2>1. \A s \in Split : split[s].live \in BOOLEAN /\ split'[s].live \in BOOLEAN
   BY DEF EditInv, FieldTypes, SplitRec
 <2>2. ASSUME NEW s \in Split, split'[s] # split[s]
       PROVE  split'[s].live /\ split[s].live /\ split'[s].parent = split[s].parent
   BY <2>2
 <2>3. \A s \in Split : (split'[s].live <=> split[s].live) /\ split'[s].parent = split[s].parent
   BY <2>2
 <2>4. QED
   BY <2>1, <2>3
<1>4. QED
  BY <1>1, <1>2, <1>3, StoresNothing

LEMMA SetterStored ==
    ASSUME EditInv, FieldTypes', Parents, Rows,
           \/ \E t \in Trans, d \in Description : SetDescription(t, d)
           \/ \E s \in Split : \/ SplitDestroy(s)
                               \/ \E v \in Entered : SetBaseValue(s, v)
                               \/ \E r \in BOOLEAN : SetReconcile(s, r)
                               \/ \E a \in Account : SetAccount(s, a)
           \/ \E a \in Account : AccountCommitEdit(a)
    PROVE  Parents' /\ Rows'
<1>1. /\ split \in [Split -> SplitRec] /\ \A s \in Split : split[s] \in SplitRec
      /\ trans \in [Trans -> TransRec] /\ \A t \in Trans : trans[t] \in TransRec
  BY DEF EditInv, FieldTypes
<1>2. ASSUME NEW t \in Trans, NEW d \in Description, SetDescription(t, d)
      PROVE  Parents' /\ Rows'
 <2>1. /\ trans' = [trans EXCEPT ![t].description = d, ![t].dirty = TRUE]
       /\ split' = split /\ stack = <<>> /\ splitRow' = splitRow
   BY <1>2 DEF SetDescription, Setting, Idle
 <2>2. trans'[t] = [trans[t] EXCEPT !.description = d, !.dirty = TRUE]
   BY <1>1, <2>1
 <2>3. trans'[t].splits = trans[t].splits /\ trans'[t].orig = trans[t].orig
   BY <1>1, <2>1, <2>2 DEF TransRec
 <2>4. \A u \in Trans \ {t} : trans'[u] = trans[u]
   BY <1>1, <2>1
 <2>5. ~Tidying
   BY <2>1 DEF Tidying
 <2>6. QED
   BY <2>1, <2>3, <2>4, <2>5, QuietSetters
<1>3. ASSUME NEW a \in Account, AccountCommitEdit(a) PROVE Parents' /\ Rows'
  BY <1>3, QuietSetters DEF AccountCommitEdit, Idle, Tidying
<1>4. ASSUME NEW s \in Split,
             \/ SplitDestroy(s)
             \/ \E v \in Entered : SetBaseValue(s, v)
             \/ \E r \in BOOLEAN : SetReconcile(s, r)
             \/ \E a \in Account : SetAccount(s, a)
      PROVE  Parents' /\ Rows'
 <2>1. SettingSplit(s) /\ UNCHANGED <<trans, splitRow>>
   BY <1>4 DEF SplitDestroy, SetBaseValue, SetReconcile, SetAccount
 <2>2. \/ split' = [split EXCEPT ![s].dirty = TRUE, ![s].do_free = TRUE]
       \/ \E v \in Entered : split' = [split EXCEPT ![s].amount = v, ![s].dirty = TRUE]
       \/ \E q \in BOOLEAN : split' = [split EXCEPT ![s].reconciled = q, ![s].dirty = TRUE]
       \/ \E a \in Account : split' = [split EXCEPT ![s].acc = a, ![s].dirty = TRUE]
   BY <1>4 DEF SplitDestroy, SetBaseValue, SetReconcile, SetAccount
 <2>3. /\ \/ split'[s] = [split[s] EXCEPT !.dirty = TRUE, !.do_free = TRUE]
          \/ \E v \in Entered : split'[s] = [split[s] EXCEPT !.amount = v, !.dirty = TRUE]
          \/ \E q \in BOOLEAN : split'[s] = [split[s] EXCEPT !.reconciled = q, !.dirty = TRUE]
          \/ \E a \in Account : split'[s] = [split[s] EXCEPT !.acc = a, !.dirty = TRUE]
       /\ \A x \in Split \ {s} : split'[x] = split[x]
   BY <1>1, <2>2
 <2>4. /\ split'[s].dirty /\ split'[s].live = split[s].live
       /\ split'[s].infant = split[s].infant /\ split'[s].orig_acc = split[s].orig_acc
       /\ split'[s].parent = split[s].parent
       /\ split'[s].orig_parent = split[s].orig_parent
   BY <1>1, <2>3 DEF SplitRec
 <2>5. split[s].live /\ ~Tidying
   BY <2>1 DEF SettingSplit, Setting, Idle, Tidying
 <2>6. split'[s].live
   BY <2>4, <2>5
 <2>7. QED
   BY <2>1, <2>3, <2>4, <2>5, <2>6, QuietSetters
<1>5. QED
  BY <1>2, <1>3, <1>4

LEMMA MallocSplitStored ==
    ASSUME EditInv, FieldTypes', Parents, Rows, NEW t \in Trans, NEW s \in Split,
           NEW a \in Account, NEW v \in Entered, MallocSplit(t, s, a, v)
    PROVE  Parents' /\ Rows'
<1>1. /\ stack = <<>> /\ splitRow' = splitRow /\ ~split[s].live
      /\ split' = [split EXCEPT ![s] = NewSplit(t, a, v)]
      /\ trans' = [trans EXCEPT ![t].splits = @ \cup {s}]
  BY DEF MallocSplit, Setting, Idle
<1>2. /\ split \in [Split -> SplitRec]
      /\ trans \in [Trans -> TransRec] /\ trans[t] \in TransRec
  BY DEF EditInv, FieldTypes
<1>3. /\ split'[s] = NewSplit(t, a, v) /\ \A x \in Split \ {s} : split'[x] = split[x]
      /\ trans'[t] = [trans[t] EXCEPT !.splits = @ \cup {s}]
      /\ \A u \in Trans \ {t} : trans'[u] = trans[u]
  BY <1>1, <1>2
<1>4. /\ split'[s].live /\ split'[s].dirty /\ split'[s].infant /\ split'[s].parent = t
  BY <1>3 DEF NewSplit
<1>5. trans'[t].splits = trans[t].splits \cup {s} /\ trans'[t].orig = trans[t].orig
  BY <1>2, <1>3 DEF TransRec
<1>6. ~Tidying
  BY <1>1 DEF Tidying
<1>7. Parents'
 <2>1. \A u \in Trans : trans[u].splits \subseteq trans'[u].splits
   BY <1>3, <1>5
 <2>2. \A u \in Trans : split'[s].parent = u => s \in trans'[u].splits
   BY <1>4, <1>5
 <2>3. QED
   BY <1>3, <2>1, <2>2, ParentsKept
<1>8. Rows'
 <2>1. splitRow[s] = None
   BY <1>1 DEF Rows
 <2>2. \A x \in Split : Changed(x)
   BY <1>3, <1>4, <2>1 DEF Changed
 <2>3. \A x \in Split : Clearing(x) => Clearing(x)'
   BY <1>6, NotTidying
 <2>4. \A u \in Trans : CopyKept(u)
   BY <1>3, <1>5, <1>6, NotTidying DEF CopyKept
 <2>5. FieldTypes
   BY DEF EditInv
 <2>6. QED
   BY <1>1, <2>2, <2>3, <2>4, <2>5, RowsKept
<1>9. QED
  BY <1>7, <1>8

\* The copy a first begin_edit makes is what the rows say.
LEMMA BegunCopy ==
    ASSUME EditInv, Rows, CanFail = FALSE, stack = <<>>, split' = split,
           NEW t \in Trans, trans'[t].orig = Begun({t})[t].orig
    PROVE  CopyKept(t)
<1>1. FieldTypes /\ trans[t] \in TransRec /\ ~Tidying
  BY DEF EditInv, FieldTypes, Tidying
<1>2. Begun({t})[t] =
        [trans[t] EXCEPT !.editlevel = trans[t].editlevel + 1,
           !.orig = IF trans[t].editlevel = 0 THEN DupeTrans(t) ELSE trans[t].orig]
  BY <1>1, BegunFields
<1>3. trans'[t].orig = IF trans[t].editlevel = 0 THEN DupeTrans(t) ELSE trans[t].orig
  BY <1>1, <1>2 DEF TransRec
<1>4. CASE trans[t].editlevel # 0
  BY <1>1, <1>3, <1>4, NotTidying DEF CopyKept
<1>5. CASE trans[t].editlevel = 0
 <2>1. /\ InOrder(t) /\ trans[t].splits \in SUBSET Split
       /\ \A s \in trans[t].splits : split[s].live /\ split[s].parent = t
   BY <1>1, IdleOrder
 <2>2. ~IsOpen(t)
   BY <1>5 DEF IsOpen
 <2>3. ASSUME NEW s \in trans'[t].orig.splits
       PROVE  splitRow[s] = CopiedRow(t, s)'
  <3>1. trans'[t].orig = DupeTrans(t)
    BY <1>3, <1>5
  <3>2. s \in trans[t].splits /\ s \in Split
    BY <2>1, <2>3, <3>1 DEF DupeTrans
  <3>3. split[s].live /\ split[s].parent = t /\ ~split[s].dirty
    BY <2>1, <2>2, <3>2 DEF InOrder
  <3>4. split[s].acc = split[s].orig_acc /\ splitRow[s] = RowOf(split[s])
    BY <3>2, <3>3 DEF EditInv, CleanSplits, Rows
  <3>5. split[s].reconciled \in BOOLEAN
    BY <1>1, <3>2 DEF FieldTypes, SplitRec
  <3>6. /\ trans'[t].orig.amount[s] = split[s].amount
        /\ trans'[t].orig.reconciled[s] = split[s].reconciled
    BY <3>1, <3>2, <3>5 DEF DupeTrans
  <3>7. QED
    BY <3>3, <3>4, <3>6 DEF CopiedRow, RowOf
 <2>4. QED
   BY <2>3 DEF CopyKept
<1>6. QED
  BY <1>4, <1>5

LEMMA BeginStored ==
    ASSUME EditInv, FieldTypes', Parents, Rows, CanFail = FALSE, NEW t \in Trans,
           BeginEdit(t) \/ TransDestroy(t) \/ MallocTrans(t) \/ RollbackEdit(t)
    PROVE  Parents' /\ Rows'
<1>1. stack = <<>> /\ split' = split /\ splitRow' = splitRow
  BY DEF BeginEdit, TransDestroy, MallocTrans, RollbackEdit, Idle
<1>2. FieldTypes /\ trans \in [Trans -> TransRec] /\ trans[t] \in TransRec /\ ~Tidying
  BY <1>1 DEF EditInv, FieldTypes, Tidying
<1>3. ASSUME \A u \in Trans \ {t} : trans'[u] = trans[u],
             trans'[t].splits = trans[t].splits, CopyKept(t)
      PROVE  Parents' /\ Rows'
 <2>1. \A s \in Split : /\ Changed(s) /\ (Clearing(s) => Clearing(s)')
                        /\ split'[s].live = split[s].live
                        /\ split'[s].parent = split[s].parent
   BY <1>1, <1>2, NotTidying DEF Changed
 <2>2. \A u \in Trans : trans'[u].splits = trans[u].splits /\ CopyKept(u)
   BY <1>3, <1>2, NotTidying DEF CopyKept
 <2>3. QED
   BY <1>1, <2>1, <2>2, StoresNothing
<1>4. CASE BeginEdit(t)
 <2>1. trans' = Begun({t})
   BY <1>4 DEF BeginEdit
 <2>2. /\ \A u \in Trans \ {t} : trans'[u] = trans[u]
       /\ trans'[t].splits = trans[t].splits
   BY <1>2, <2>1, BegunFields DEF TransRec
 <2>3. QED
   BY <1>1, <1>3, <2>1, <2>2, BegunCopy
<1>5. CASE TransDestroy(t)
 <2>1. trans' = [Begun({t}) EXCEPT ![t].do_free = TRUE]
   BY <1>5 DEF TransDestroy
 <2>2. /\ trans'[t] = [Begun({t})[t] EXCEPT !.do_free = TRUE]
       /\ \A u \in Trans \ {t} : trans'[u] = trans[u]
   BY <2>1 DEF Begun
 <2>3. Begun({t})[t] \in TransRec
   BY <1>2, BegunType
 <2>4. trans'[t].splits = Begun({t})[t].splits /\ trans'[t].orig = Begun({t})[t].orig
   BY <2>2, <2>3 DEF TransRec
 <2>5. Begun({t})[t].splits = trans[t].splits
   BY <1>2, BegunFields DEF TransRec
 <2>6. QED
   BY <1>1, <1>3, <2>2, <2>4, <2>5, BegunCopy
<1>6. CASE MallocTrans(t)
 <2>1. /\ trans'[t] = [FreedTrans EXCEPT !.live = TRUE, !.dirty = TRUE]
       /\ \A u \in Trans \ {t} : trans'[u] = trans[u]
   BY <1>2, <1>6 DEF MallocTrans
 <2>2. trans'[t].splits = {} /\ trans'[t].orig.splits = {}
   BY <2>1 DEF FreedTrans, NoCopy
 <2>3. ~trans[t].live
   BY <1>6 DEF MallocTrans
 <2>4. trans[t].splits = {}
  <3>1. trans[t] = FreedTrans
    BY <2>3 DEF EditInv, Levels
  <3>2. FreedTrans.splits = {}
    BY DEF FreedTrans
  <3>3. QED
    BY <3>1, <3>2
 <2>5. QED
   BY <1>3, <2>1, <2>2, <2>4 DEF CopyKept
<1>7. CASE RollbackEdit(t)
 <2>1. \/ trans' = [trans EXCEPT ![t].editlevel = @ - 1]
       \/ trans' = [trans EXCEPT ![t].description = trans[t].orig.description]
   BY <1>7 DEF RollbackEdit
 <2>2. /\ \A u \in Trans \ {t} : trans'[u] = trans[u]
       /\ \/ trans'[t] = [trans[t] EXCEPT !.editlevel = @ - 1]
          \/ trans'[t] = [trans[t] EXCEPT !.description = trans[t].orig.description]
   BY <1>2, <2>1
 <2>3. trans'[t].splits = trans[t].splits /\ trans'[t].orig = trans[t].orig
   BY <1>2, <2>2 DEF TransRec
 <2>4. CopyKept(t)
   BY <1>2, <2>3, NotTidying DEF CopyKept
 <2>5. QED
   BY <1>3, <2>2, <2>3, <2>4
<1>8. QED
  BY <1>4, <1>5, <1>6, <1>7

\* xaccTransCommitEdit up to trans_cleanup_commit, when the row is stored.
LEMMA StoreTransStored ==
    ASSUME EditInv, FieldTypes', Parents, Rows, CanFail = FALSE, ~Tidying,
           splitRow' = splitRow,
           NEW t \in Trans, NEW listed \in SUBSET Split, trans[t].splits \subseteq listed,
           \A s \in Split : Changed(s),
           \A s \in Split : split'[s].live =>
             \/ split[s].live /\ split'[s].parent = split[s].parent
             \/ split'[s].parent = t /\ s \in listed,
           StoreTrans(t, listed, <<>>)
    PROVE  Parents' /\ Rows'
<1>1. Answers = {TRUE}
  BY DEF Answers
<1>2. /\ trans' = [trans EXCEPT ![t].dirty = FALSE, ![t].splits = listed]
      /\ stack' = <<Call("cleanup", t, None, listed)>> \o <<>>
  BY <1>1 DEF StoreTrans
<1>3. trans \in [Trans -> TransRec] /\ trans[t] \in TransRec /\ FieldTypes
  BY DEF EditInv, FieldTypes
<1>4. /\ trans'[t] = [trans[t] EXCEPT !.dirty = FALSE, !.splits = listed]
      /\ \A u \in Trans \ {t} : trans'[u] = trans[u]
  BY <1>2, <1>3
<1>5. trans'[t].splits = listed
  BY <1>3, <1>4 DEF TransRec
<1>6. Busy("cleanup", t)'
 <2>1. stack' = <<Call("cleanup", t, None, listed)>>
   BY <1>2
 <2>2. stack' # <<>> /\ Head(stack') = Call("cleanup", t, None, listed)
   BY <2>1
 <2>3. QED
   BY <2>2, CallFields DEF Busy
<1>7. Parents'
 <2>1. \A u \in Trans : trans[u].splits \subseteq trans'[u].splits
   BY <1>4, <1>5
 <2>2. ASSUME NEW s \in Split, split'[s].live
       PROVE  \/ split[s].live /\ split'[s].parent = split[s].parent
              \/ \A u \in Trans : split'[s].parent = u => s \in trans'[u].splits
   BY <1>5, <2>2
 <2>3. QED
   BY <2>1, <2>2, ParentsKept
<1>8. Rows'
 <2>1. \A s \in Split : Changed(s) /\ (Clearing(s) => Clearing(s)')
   BY NotTidying
 <2>2. \A u \in Trans : CopyKept(u)
   BY <1>4, <1>6, NotTidying DEF CopyKept
 <2>3. QED
   BY <1>3, <2>1, <2>2, RowsKept
<1>9. QED
  BY <1>7, <1>8

\* A transaction that is destroyed: the rows that go are those of the splits it
\* lists, which are destroyed next.
LEMMA DestroyedStored ==
    ASSUME EditInv, FieldTypes', Parents, Rows, CanFail = FALSE, ~Tidying,
           NEW t \in Trans, CommitDestroyed(t, <<>>)
    PROVE  Parents' /\ Rows'
<1> DEFINE mine == {s \in trans[t].splits : split[s].parent = t}
<1>1. Answers = {TRUE}
  BY DEF Answers
<1>2. /\ splitRow' = [s \in Split |-> IF splitRow[s] # None /\ splitRow[s].parent = t
                                      THEN None ELSE splitRow[s]]
      /\ split' = [s \in Split |-> IF s \in mine
                                   THEN [split[s] EXCEPT !.dirty = TRUE, !.do_free = TRUE]
                                   ELSE split[s]]
      /\ trans' = [trans EXCEPT ![t].do_free = TRUE]
      /\ stack' = <<Call("clear", t, None, mine)>> \o <<>>
  BY <1>1 DEF CommitDestroyed, mine
<1>3. FieldTypes /\ trans \in [Trans -> TransRec] /\ trans[t] \in TransRec
      /\ \A s \in Split : split[s] \in SplitRec
  BY DEF EditInv, FieldTypes
<1>4. /\ trans'[t].splits = trans[t].splits
      /\ \A u \in Trans \ {t} : trans'[u] = trans[u]
  BY <1>3, <1>2 DEF TransRec
<1>5. \A s \in Split :
        s \in mine <=> s \in trans[t].splits /\ split[s].parent = t
  OBVIOUS
<1> HIDE DEF mine
<1>6. stack' = <<Call("clear", t, None, mine)>>
 <2>1. stack' = <<Call("clear", t, None, mine)>> \o <<>>
   BY <1>2
 <2>2. QED
   BY <2>1
<1>7. stack' # <<>> /\ Head(stack') = Call("clear", t, None, mine)
  BY <1>6
<1>8. Busy("clear", t)' /\ \A s \in Split : s \in mine => Clearing(s)'
  BY <1>7, CallFields DEF Clearing, Busy
<1>9. ASSUME NEW s \in Split
      PROVE  /\ s \notin mine => split'[s] = split[s]
             /\ s \in mine => split'[s] = [split[s] EXCEPT !.dirty = TRUE, !.do_free = TRUE]
             /\ splitRow'[s] = IF splitRow[s] # None /\ splitRow[s].parent = t
                               THEN None ELSE splitRow[s]
  BY <1>2
<1>10. ASSUME NEW s \in Split
       PROVE  /\ s \in mine => split'[s].dirty
              /\ split'[s].live <=> split[s].live
              /\ split'[s].infant <=> split[s].infant
              /\ split'[s].orig_acc = split[s].orig_acc
              /\ split'[s].orig_parent = split[s].orig_parent
              /\ split'[s].parent = split[s].parent
  BY <1>3, <1>9 DEF SplitRec
<1>11. ASSUME NEW s \in Split, splitRow[s] # None, splitRow[s].parent = t
       PROVE  s \in mine
 <2>1. split[s].live /\ split[s].parent = t
   BY <1>11 DEF Rows
 <2>2. s \in trans[t].splits
   BY <2>1 DEF Parents
 <2>3. QED
   BY <1>5, <2>1, <2>2
<1>12. Parents'
 <2>1. \A u \in Trans : trans'[u].splits = trans[u].splits
   BY <1>4
 <2>2. \A s \in Split : split'[s].live => split[s].live /\ split'[s].parent = split[s].parent
   BY <1>10
 <2>3. QED
   BY <2>1, <2>2, ParentsKept
<1>13. ASSUME NEW s \in Split
       PROVE  /\ (split[s].live /\ ~split[s].dirty => splitRow[s] = RowOf(split[s]))'
              /\ (splitRow[s] # None => /\ split[s].live
                                        /\ split[s].orig_parent = splitRow[s].parent
                                        /\ split[s].parent = splitRow[s].parent
                                        /\ splitRow[s].parent # None)'
              /\ (split[s].live /\ splitRow[s] = None => split[s].infant \/ Clearing(s))'
 <2>1. /\ split[s].live /\ ~split[s].dirty => splitRow[s] = RowOf(split[s])
       /\ splitRow[s] # None => /\ split[s].live
                                /\ split[s].orig_parent = splitRow[s].parent
                                /\ split[s].parent = splitRow[s].parent
                                /\ splitRow[s].parent # None
       /\ split[s].live /\ splitRow[s] = None => split[s].infant
   BY NotTidying DEF Rows
 <2>2. CASE s \in mine
   BY <1>8, <1>9, <1>10, <2>1, <2>2
 <2>3. CASE s \notin mine
   BY <2>1, <1>9, <1>11, <2>3 DEF RowOf
 <2>4. QED
   BY <2>2, <2>3
<1>14. ASSUME NEW u \in Trans, u # t, NEW s \in trans'[u].orig.splits
       PROVE  splitRow'[s] = CopiedRow(u, s)'
 <2>1. s \in trans[u].orig.splits /\ s \in Split /\ trans'[u].orig = trans[u].orig
   BY <1>3, <1>4, <1>14 DEF FieldTypes, TransRec, Copy
 <2>2. splitRow[s] = CopiedRow(u, s)
   BY <2>1, NotTidying DEF Rows
 <2>3. splitRow[s].parent = u
   BY <2>2 DEF CopiedRow
 <2>4. splitRow'[s] = splitRow[s]
   BY <1>9, <1>14, <2>1, <2>3
 <2>5. split'[s].orig_acc = split[s].orig_acc
   BY <1>10, <2>1
 <2>6. QED
   BY <2>1, <2>2, <2>4, <2>5 DEF CopiedRow
<1>15. Rows'
  BY <1>13, <1>8, <1>14 DEF Rows
<1>16. QED
  BY <1>12, <1>15

LEMMA CommitCallStored ==
    ASSUME EditInv, FieldTypes', Parents, Rows, CanFail = FALSE,
           stack = <<>> \/ \E f : stack = <<f>>, ~Tidying,
           NEW t \in Trans, CommitCall(t, <<>>)
    PROVE  Parents' /\ Rows'
<1>1. /\ trans[t].splits \in SUBSET Split
      /\ \A s \in trans[t].splits : split[s].live /\ split[s].parent = t
  BY IdleOrder
<1>2. split \in [Split -> SplitRec] /\ \A s \in Split : split[s] \in SplitRec
  BY DEF EditInv, FieldTypes
<1>3. CASE /\ trans' = [trans EXCEPT ![t].editlevel = @ - 1]
           /\ split' = split /\ splitRow' = splitRow
 <2>1. trans \in [Trans -> TransRec] /\ trans[t] \in TransRec
   BY DEF EditInv, FieldTypes
 <2>2. /\ trans'[t] = [trans[t] EXCEPT !.editlevel = @ - 1]
       /\ \A u \in Trans \ {t} : trans'[u] = trans[u]
   BY <1>3, <2>1
 <2>3. trans'[t].splits = trans[t].splits /\ trans'[t].orig = trans[t].orig
   BY <2>1, <2>2 DEF TransRec
 <2>4. QED
   BY <1>3, <2>2, <2>3, QuietSetters
<1>4. CASE /\ split' = split /\ splitRow' = splitRow
           /\ StoreTrans(t, trans[t].splits, <<>>)
 <2>1. \A s \in Split : Changed(s)
   BY <1>4 DEF Changed
 <2>2. QED
   BY <1>1, <1>4, <2>1, StoreTransStored
<1>5. CASE CommitDestroyed(t, <<>>)
  BY <1>5, DestroyedStored
<1>6. CASE \E b \in BalanceSplits(t) : \E new \in Amount :
             /\ split' = Balanced(t, b, new) /\ splitRow' = splitRow
             /\ StoreTrans(t, trans[t].splits \cup {b}, <<>>)
 <2>1. PICK b \in BalanceSplits(t), new \in Amount :
              /\ split' = Balanced(t, b, new) /\ splitRow' = splitRow
              /\ StoreTrans(t, trans[t].splits \cup {b}, <<>>)
   BY <1>6
 <2>2. b \in Split /\ (b \in trans[t].splits \/ ~split[b].live)
   BY <1>1 DEF BalanceSplits, Owned
 <2>3. \A s \in Split \ {b} : split'[s] = split[s]
   BY <1>2, <2>1, <2>2 DEF Balanced
 <2>4. ASSUME Changed(b),
              \/ split[b].live /\ split'[b].parent = split[b].parent
              \/ split'[b].parent = t
       PROVE  Parents' /\ Rows'
  <3>1. \A s \in Split : Changed(s)
    BY <2>3, <2>4 DEF Changed
  <3>2. trans[t].splits \cup {b} \in SUBSET Split
    BY <1>1, <2>2
  <3>3. \A s \in Split : split'[s].live =>
           \/ split[s].live /\ split'[s].parent = split[s].parent
           \/ split'[s].parent = t /\ s \in trans[t].splits \cup {b}
    BY <2>3, <2>4
  <3> DEFINE listed == trans[t].splits \cup {b}
  <3>4. /\ listed \in SUBSET Split /\ trans[t].splits \subseteq listed
        /\ StoreTrans(t, listed, <<>>)
        /\ \A s \in Split : split'[s].live =>
             \/ split[s].live /\ split'[s].parent = split[s].parent
             \/ split'[s].parent = t /\ s \in listed
    BY <2>1, <3>2, <3>3
  <3> HIDE DEF listed
  <3>5. QED
    BY <2>1, <3>1, <3>4, StoreTransStored
 <2>5. CASE ~split[b].live
  <3>1. split'[b] = NewSplit(t, Imbalance, new)
    BY <1>2, <2>1, <2>2, <2>5 DEF Balanced
  <3>2. split'[b].dirty /\ split'[b].infant /\ split'[b].parent = t
    BY <3>1 DEF NewSplit
  <3>3. splitRow[b] = None
    BY <2>2, <2>5 DEF Rows
  <3>4. QED
    BY <2>4, <3>2, <3>3 DEF Changed
 <2>6. CASE split[b].live
  <3>1. \/ split'[b] = [split[b] EXCEPT !.dirty = TRUE, !.do_free = TRUE]
        \/ split'[b] = [split[b] EXCEPT !.dirty = TRUE, !.amount = new]
    BY <1>2, <2>1, <2>2, <2>6 DEF Balanced
  <3>2. /\ split'[b].live = split[b].live /\ split'[b].dirty
        /\ split'[b].infant = split[b].infant
        /\ split'[b].parent = split[b].parent
        /\ split'[b].orig_parent = split[b].orig_parent
        /\ split'[b].orig_acc = split[b].orig_acc
    BY <1>2, <2>2, <3>1 DEF SplitRec
  <3>3. split'[b].live
    BY <2>6, <3>2
  <3>4. QED
    BY <2>4, <2>6, <3>2, <3>3 DEF Changed
 <2>7. QED
   BY <2>5, <2>6
<1>7. QED
  BY <1>3, <1>4, <1>5, <1>6 DEF CommitCall, CommitKept

LEMMA ClientStored ==
    ASSUME EditInv, EditInv', Parents, Rows, CanFail = FALSE, "move" \notin Calls,
           ClientCall
    PROVE  Parents' /\ Rows'
<1>1. FieldTypes'
  BY DEF EditInv
<1>2. ASSUME NEW t \in Trans, CommitEdit(t) PROVE Parents' /\ Rows'
  BY <1>1, <1>2, CommitCallStored DEF CommitEdit, Idle, Tidying
<1>3. QED
  BY <1>1, <1>2, BeginStored, MallocSplitStored, SetterStored DEF ClientCall, MoveSplit

\* One split committed by a loop: it is stored as it is, or freed with its row.
LEMMA CommitSplitStored ==
    ASSUME EditInv, FieldTypes', Rows, CanFail = FALSE,
           NEW t \in Trans, NEW s \in Split, NEW op \in {"cleanup", "clear"},
           Visiting(op, t, s), stack' = Visited(s),
           \E ok \in Answers : CommitSplit(s, ok),
           \A u \in Trans : trans'[u].orig = trans[u].orig
    PROVE  /\ Rows'
           /\ \A x \in Split : split'[x].live => split[x].live /\ split'[x].parent = split[x].parent
           /\ split[s].do_free => ~split'[s].live
<1>1. Answers = {TRUE}
  BY DEF Answers
<1>2. /\ split' = [split EXCEPT ![s] =
                     IF split[s].do_free THEN FreedSplit
                     ELSE [split[s] EXCEPT !.orig_acc = split[s].acc,
                             !.orig_parent = split[s].parent,
                             !.dirty = FALSE, !.infant = FALSE]]
      /\ splitRow' = [splitRow EXCEPT ![s] = StoredSplit(s)]
 <2>1. CommitSplit(s, TRUE)
   BY <1>1
 <2>2. FieldTypes /\ split[s] \in SplitRec
   BY DEF EditInv, FieldTypes
 <2>3. [split[s] EXCEPT !.orig_acc = split[s].acc,
                        !.orig_parent = split[s].parent].do_free = split[s].do_free
   BY <2>2 DEF SplitRec
 <2>4. QED
   BY <2>1, <2>3 DEF CommitSplit
<1>3. /\ split \in [Split -> SplitRec] /\ split[s] \in SplitRec /\ FieldTypes
      /\ splitRow \in [Split -> Row \cup {None}]
      /\ trans \in [Trans -> TransRec]
  BY DEF EditInv, FieldTypes
<1>4. Busy(op, t) /\ s \in Head(stack).todo
  BY DEF Visiting, Under, Busy
<1>5. PICK todo \in SUBSET Split : stack = <<Loop(op, t, todo)>>
  BY <1>4, InLoop DEF EditInv
<1>6. /\ stack' = <<Loop(op, t, todo \ {s})>>
      /\ Head(stack) = Loop(op, t, todo) /\ Len(stack) = 1
  BY <1>5, LoopVisited, Stack1
<1>7. Head(stack') = Loop(op, t, todo \ {s}) /\ stack' # <<>>
  BY <1>6
<1>8. /\ Head(stack').op = op /\ Head(stack').t = t /\ Head(stack').todo = todo \ {s}
      /\ Head(stack).op = op /\ Head(stack).t = t /\ Head(stack).todo = todo
  BY <1>6, <1>7, LoopFields
<1>9. Busy(op, t)' /\ \A u \in Trans : u # t => ~Busy("cleanup", u) /\ ~Busy("clear", u)
  BY <1>7, <1>8 DEF Busy
<1>10. split[s].live /\ split[s].parent = t
  BY LoopSplits
<1>11. op = "clear" => split[s].do_free
 <2>1. SUFFICES ASSUME op = "clear" PROVE split[s].do_free
   OBVIOUS
 <2>2. Busy("clear", t) /\ ~Busy("cleanup", t)
   BY <1>4, <2>1 DEF Busy
 <2>3. Cleared(t, todo)
   BY <1>8, <2>2 DEF EditInv, Lists
 <2>4. QED
   BY <1>4, <1>8, <2>3 DEF Cleared
<1>12. /\ split'[s] = IF split[s].do_free THEN FreedSplit
                      ELSE [split[s] EXCEPT !.orig_acc = split[s].acc,
                              !.orig_parent = split[s].parent,
                              !.dirty = FALSE, !.infant = FALSE]
       /\ splitRow'[s] = StoredSplit(s)
       /\ \A x \in Split \ {s} : split'[x] = split[x] /\ splitRow'[x] = splitRow[x]
  BY <1>2, <1>3
<1>13. /\ split[s].do_free => ~split'[s].live /\ splitRow'[s] = None
       /\ ~split[s].do_free => /\ split'[s].live /\ ~split'[s].dirty
                               /\ split'[s].parent = t /\ split'[s].orig_parent = t
                               /\ splitRow'[s] = RowOf(split'[s])
 <2>1. CASE split[s].do_free
   BY <1>12, <2>1 DEF FreedSplit, StoredSplit
 <2>2. CASE ~split[s].do_free
  <3>1. split'[s] = [split[s] EXCEPT !.orig_acc = split[s].acc,
                       !.orig_parent = split[s].parent, !.dirty = FALSE, !.infant = FALSE]
    BY <1>12, <2>2
  <3>2. /\ split'[s].live = split[s].live /\ ~split'[s].dirty
        /\ split'[s].parent = split[s].parent /\ split'[s].orig_parent = split[s].parent
        /\ split'[s].acc = split[s].acc /\ split'[s].amount = split[s].amount
        /\ split'[s].reconciled = split[s].reconciled
    BY <1>3, <3>1 DEF SplitRec
  <3>3. split'[s].live
    BY <1>10, <3>2
  <3>4. ~Clearing(s)
   <4>1. op = "cleanup"
     BY <1>11, <2>2
   <4>2. QED
     BY <1>8, <4>1 DEF Clearing, Busy
  <3>5. split[s].infant \/ splitRow[s] # None
    BY <1>10, <3>4 DEF Rows
  <3>6. splitRow'[s] = RowOf(split[s])
    BY <1>12, <2>2, <3>5 DEF StoredSplit
  <3>7. RowOf(split'[s]) = RowOf(split[s])
    BY <3>2 DEF RowOf
  <3>8. QED
    BY <1>10, <2>2, <3>2, <3>3, <3>6, <3>7
 <2>3. QED
   BY <2>1, <2>2
<1>14. \A x \in Split : split'[x].live => split[x].live /\ split'[x].parent = split[x].parent
  BY <1>10, <1>12, <1>13
<1>15. ASSUME NEW x \in Split
       PROVE  /\ (split[x].live /\ ~split[x].dirty => splitRow[x] = RowOf(split[x]))'
              /\ (splitRow[x] # None => /\ split[x].live
                                        /\ split[x].orig_parent = splitRow[x].parent
                                        /\ split[x].parent = splitRow[x].parent
                                        /\ splitRow[x].parent # None)'
              /\ (split[x].live /\ splitRow[x] = None => split[x].infant \/ Clearing(x))'
 <2>1. CASE x = s
  <3>1. CASE split[s].do_free
    BY <1>13, <2>1, <3>1
  <3>2. CASE ~split[s].do_free
   <4>1. /\ split'[s].live /\ ~split'[s].dirty
         /\ split'[s].parent = t /\ split'[s].orig_parent = t
         /\ splitRow'[s] = RowOf(split'[s])
     BY <1>13, <3>2
   <4>2. splitRow'[s].parent = t /\ t # None
     BY <4>1, TransEditAssumption DEF RowOf
   <4>3. splitRow'[s] # None
    <5>1. split'[s] \in SplitRec
      BY DEF FieldTypes
    <5>2. RowOf(split'[s]) \in Row
      BY <5>1 DEF RowOf, Row, SplitRec
    <5>3. QED
      BY <4>1, <5>2, TransEditAssumption
   <4>4. QED
     BY <2>1, <4>1, <4>2, <4>3 DEF RowOf
  <3>3. QED
    BY <3>1, <3>2
 <2>2. CASE x # s
  <3>1. split'[x] = split[x] /\ splitRow'[x] = splitRow[x]
    BY <1>12, <2>2
  <3>2. Clearing(x) => Clearing(x)'
    BY <1>7, <1>8, <2>2 DEF Clearing, Busy
  <3>3. QED
    BY <3>1, <3>2 DEF Rows, RowOf
 <2>3. QED
   BY <2>1, <2>2
<1>16. ASSUME NEW u \in Trans, u # t, NEW x \in trans'[u].orig.splits
       PROVE  splitRow'[x] = CopiedRow(u, x)'
 <2>1. x \in trans[u].orig.splits /\ x \in Split /\ trans'[u].orig = trans[u].orig
   BY <1>3, <1>16 DEF TransRec, Copy
 <2>2. splitRow[x] = CopiedRow(u, x)
   BY <1>9, <1>16, <2>1 DEF Rows
 <2>3. InOrder(u) /\ ~Dropping(u, x)
   BY <1>6, <1>9, <1>16 DEF EditInv, Lists, Dropping
 <2>4. split[x].parent = u
   BY <2>1, <2>3 DEF InOrder
 <2>5. split'[x] = split[x] /\ splitRow'[x] = splitRow[x]
   BY <1>10, <1>12, <1>16, <2>1, <2>4
 <2>6. QED
   BY <2>1, <2>2, <2>5 DEF CopiedRow
<1>17. Rows'
  BY <1>15, <1>9, <1>16 DEF Rows
<1>18. QED
  BY <1>13, <1>14, <1>17

LEMMA LoopStored ==
    ASSUME EditInv, FieldTypes', Parents, Rows, CanFail = FALSE,
           NEW t \in Trans, NEW s \in Split, CleanupSplit(t, s) \/ ClearSplit(t, s)
    PROVE  Parents' /\ Rows'
<1>1. trans \in [Trans -> TransRec] /\ trans[t] \in TransRec
  BY DEF EditInv, FieldTypes
<1>2. CASE CleanupSplit(t, s)
 <2>1. Visiting("cleanup", t, s) /\ stack' = Visited(s)
   BY <1>2 DEF CleanupSplit
 <2>2. split[s].live /\ split[s].parent = t
   BY <2>1, LoopSplits
 <2>3. /\ \E ok \in Answers : CommitSplit(s, ok)
       /\ trans' = IF ~split[s].do_free THEN trans ELSE [trans EXCEPT ![t].splits = @ \ {s}]
   BY <1>2, <2>2 DEF CleanupSplit, StillHasSplit
 <2>4. /\ \A u \in Trans \ {t} : trans'[u] = trans[u]
       /\ \/ trans'[t] = trans[t]
          \/ trans'[t] = [trans[t] EXCEPT !.splits = trans[t].splits \ {s}] /\ split[s].do_free
   BY <1>1, <2>3
 <2>5. /\ \A u \in Trans : trans'[u].orig = trans[u].orig
       /\ \A u \in Trans : \A x \in trans[u].splits :
            x \in trans'[u].splits \/ (x = s /\ split[s].do_free)
  <3>1. /\ trans'[t].orig = trans[t].orig
        /\ \/ trans'[t].splits = trans[t].splits
           \/ trans'[t].splits = trans[t].splits \ {s} /\ split[s].do_free
    BY <1>1, <2>4 DEF TransRec
  <3>2. ASSUME NEW u \in Trans
        PROVE  /\ trans'[u].orig = trans[u].orig
               /\ \A x \in trans[u].splits :
                    x \in trans'[u].splits \/ (x = s /\ split[s].do_free)
   <4>1. CASE u = t
     BY <3>1, <4>1
   <4>2. CASE u # t
     BY <2>4, <4>2
   <4>3. QED
     BY <4>1, <4>2
  <3>3. QED
    BY <3>2
 <2>6. /\ Rows'
       /\ \A x \in Split : split'[x].live => split[x].live /\ split'[x].parent = split[x].parent
       /\ split[s].do_free => ~split'[s].live
   BY <2>1, <2>3, <2>5, CommitSplitStored
 <2>7. Parents'
   BY <2>6, <2>5, ParentsKept
 <2>8. QED
   BY <2>6, <2>7
<1>3. CASE ClearSplit(t, s)
 <2>1. Visiting("clear", t, s) /\ stack' = Visited(s) /\ trans' = trans
   BY <1>3 DEF ClearSplit
 <2>2. split[s].parent = t /\ split[s].dirty
  <3>1. split[s].parent = t
    BY <2>1, LoopSplits
  <3>2. Busy("clear", t) /\ ~Busy("cleanup", t) /\ s \in Head(stack).todo
    BY <2>1 DEF Visiting, Under, Busy
  <3>3. Cleared(t, Head(stack).todo)
    BY <3>2 DEF EditInv, Lists
  <3>4. QED
    BY <3>1, <3>2, <3>3 DEF Cleared
 <2>3. \E ok \in Answers : CommitSplit(s, ok)
   BY <1>3, <2>2 DEF ClearSplit
 <2>4. /\ Rows'
       /\ \A x \in Split : split'[x].live => split[x].live /\ split'[x].parent = split[x].parent
   BY <2>1, <2>3, CommitSplitStored
 <2>5. Parents'
   BY <2>1, <2>4, ParentsKept
 <2>6. QED
   BY <2>4, <2>5
<1>4. QED
  BY <1>2, <1>3

\* The end of a loop: the copy is freed, and with it what it promised.
LEMMA LoopEndStored ==
    ASSUME EditInv, FieldTypes', Parents, Rows, CanFail = FALSE, NEW t \in Trans,
           CleanupDone(t) \/ FreeTransaction(t) \/ RollbackDone(t)
    PROVE  Parents' /\ Rows'
<1>1. /\ split' = split /\ splitRow' = splitRow
      /\ fault = "none" /\ stack # <<>> /\ Head(stack).t = t
  BY DEF CleanupDone, FreeTransaction, RollbackDone, LoopDone, Under
<1>2. FieldTypes /\ trans \in [Trans -> TransRec] /\ trans[t] \in TransRec
  BY DEF EditInv, FieldTypes
<1>3. \A s \in Split : ~Clearing(s)
  BY DEF Clearing, Busy, CleanupDone, FreeTransaction, RollbackDone, LoopDone, Under
<1>4. /\ \/ trans'[t] = [trans[t] EXCEPT !.editlevel = @ - 1, !.orig = NoCopy]
         \/ trans'[t] = FreedTrans /\ FreeTransaction(t)
         \/ trans'[t] = [trans[t] EXCEPT !.editlevel = @ - 1, !.orig = NoCopy,
                                         !.do_free = FALSE]
      /\ \A u \in Trans \ {t} : trans'[u] = trans[u]
  BY <1>2 DEF CleanupDone, FreeTransaction, RollbackDone
<1>5. /\ trans'[t].orig.splits = {}
      /\ trans'[t].splits = trans[t].splits \/ (FreeTransaction(t) /\ trans'[t].splits = {})
 <2>1. NoCopy.splits = {} /\ FreedTrans.splits = {} /\ FreedTrans.orig = NoCopy
   BY DEF FreedTrans, NoCopy
 <2>2. CASE trans'[t] = FreedTrans /\ FreeTransaction(t)
   BY <2>1, <2>2
 <2>3. CASE trans'[t] = [trans[t] EXCEPT !.editlevel = @ - 1, !.orig = NoCopy]
   BY <1>2, <2>1, <2>3 DEF TransRec
 <2>4. CASE trans'[t] = [trans[t] EXCEPT !.editlevel = @ - 1, !.orig = NoCopy,
                                         !.do_free = FALSE]
   BY <1>2, <2>1, <2>4 DEF TransRec
 <2>5. QED
   BY <1>4, <2>2, <2>3, <2>4
<1>6. Rows'
 <2>1. \A s \in Split : Changed(s) /\ (Clearing(s) => Clearing(s)')
   BY <1>1, <1>3 DEF Changed
 <2>2. CopyKept(t)
   BY <1>5 DEF CopyKept
 <2>3. ASSUME NEW u \in Trans \ {t} PROVE CopyKept(u)
   BY <1>4, <1>1 DEF CopyKept, Busy
 <2>4. \A u \in Trans : CopyKept(u)
   BY <2>2, <2>3
 <2>5. QED
   BY <1>1, <1>2, <2>1, <2>4, RowsKept
<1>7. FreeTransaction(t) => \A s \in trans[t].splits : ~split[s].live
 <2>1. SUFFICES ASSUME FreeTransaction(t) PROVE \A s \in trans[t].splits : ~split[s].live
   OBVIOUS
 <2>2. Busy("clear", t) /\ ~Busy("cleanup", t) /\ Head(stack).todo = {}
   BY <2>1 DEF FreeTransaction, LoopDone, Under, Busy
 <2>3. Cleared(t, {})
   BY <2>2 DEF EditInv, Lists
 <2>4. QED
   BY <2>3 DEF Cleared
<1>8. Parents'
 <2>1. \A u \in Trans : \A s \in trans[u].splits :
         s \in trans'[u].splits \/ ~split'[s].live \/ split'[s].parent # u
   BY <1>1, <1>4, <1>5, <1>7
 <2>2. \A s \in Split : split'[s].live => split[s].live /\ split'[s].parent = split[s].parent
   BY <1>1
 <2>3. QED
   BY <2>1, <2>2, ParentsKept
<1>9. QED
  BY <1>6, <1>8

\* One split of a rollback, up to what is left to be done with it.
LEMMA RollbackSplitStored ==
    ASSUME EditInv, FieldTypes', Parents, Rows, NEW t \in Trans, NEW s \in Split,
           RollbackSplit(t, s)
    PROVE  Parents' /\ Rows'
<1>1. Visiting("rollback", t, s) /\ splitRow' = splitRow
  BY DEF RollbackSplit
<1>2. Busy("rollback", t)
  BY <1>1 DEF Visiting, Under, Busy
<1>3. PICK todo \in SUBSET Split :
        /\ stack = <<Loop("rollback", t, todo)>> /\ trans[t].editlevel = 1
        /\ RollingBack(t, None, todo)
  BY <1>2, InLoop DEF EditInv
<1>4. ~Tidying /\ FieldTypes
  BY <1>2 DEF Tidying, Busy, EditInv
<1>5. split[s].live /\ split[s].parent = t
  BY <1>1, LoopSplits
<1>6. /\ InOrder(t) /\ IsOpen(t) /\ trans[t].live
      /\ \A x \in trans[t].splits : split[x].live /\ split[x].parent = t
  BY <1>3, <1>4, IdleOrder, OpenLive DEF IsOpen
<1>7. s \in trans[t].splits
 <2>1. s \in todo
   BY <1>1, <1>3, Stack1, LoopFields DEF Visiting
 <2>2. QED
   BY <1>3, <2>1 DEF RollingBack
<1>8. /\ split[s].orig_parent \in {None, t} /\ t # None
      /\ s \in trans[t].orig.splits <=> split[s].orig_parent = t
  BY <1>6, <1>7, TransEditAssumption DEF InOrder
<1>9. /\ \A x \in Split : ~Clearing(x)
      /\ \A u \in Trans : ~Busy("cleanup", u) /\ ~Busy("clear", u)
  BY <1>4, NotTidying
<1>10. CASE split' = split /\ trans' = trans
 <2>1. \A x \in Split : Changed(x) /\ (Clearing(x) => Clearing(x)')
   BY <1>9, <1>10 DEF Changed
 <2>2. \A u \in Trans : CopyKept(u) /\ trans'[u].splits = trans[u].splits
   BY <1>9, <1>10 DEF CopyKept
 <2>3. QED
   BY <1>1, <1>10, <2>1, <2>2, StoresNothing
<1>11. ASSUME split[s].dirty, NEW rest,
              SetParentCall(Reverted(s), s, split[s].orig_parent, rest)
       PROVE  Parents' /\ Rows'
 <2>1. CASE split[s].orig_parent = t
  <3>1. split' = Reverted(s) /\ trans' = trans
    BY <1>5, <1>11, <2>1, RevertStays
  <3>2. /\ \A x \in Split \ {s} : split'[x] = split[x]
        /\ split'[s].live = split[s].live /\ split'[s].dirty = split[s].dirty
        /\ split'[s].parent = split[s].parent
        /\ split'[s].orig_parent = split[s].orig_parent
        /\ split'[s].orig_acc = split[s].orig_acc
    BY <1>4, <3>1, RevertedFields
  <3>3. split'[s].infant = split[s].infant
    BY <1>4, <3>1, RevertedFields
  <3>4. split'[s].live /\ split'[s].dirty
    BY <1>5, <1>11, <3>2
  <3>5. QED
    BY <1>1, <1>4, <1>5, <3>1, <3>2, <3>3, <3>4, QuietSetters
 <2>2. CASE split[s].orig_parent = None
  <3>1. /\ split' = [Reverted(s) EXCEPT ![s].parent = None]
        /\ trans' = Begun({t})
    BY <1>5, <1>6, <1>11, <2>2, RevertLeaves
  <3>2. Reverted(s) \in [Split -> SplitRec] /\ Reverted(s)[s] \in SplitRec
    BY <1>4, RevertedFields
  <3>3. /\ split'[s] = [Reverted(s)[s] EXCEPT !.parent = None]
        /\ \A x \in Split \ {s} : split'[x] = Reverted(s)[x]
    BY <3>1, <3>2
  <3>4. Reverted(s)[s].infant = split[s].infant
    BY <1>4, RevertedFields
  <3>5. /\ split'[s].live = Reverted(s)[s].live /\ split'[s].dirty = Reverted(s)[s].dirty
        /\ split'[s].parent = None /\ split'[s].infant = Reverted(s)[s].infant
        /\ split'[s].orig_acc = Reverted(s)[s].orig_acc
        /\ split'[s].orig_parent = Reverted(s)[s].orig_parent
    BY <3>2, <3>3 DEF SplitRec
  <3>6. /\ \A x \in Split \ {s} : split'[x] = split[x]
        /\ split'[s].live = split[s].live /\ split'[s].dirty = split[s].dirty
        /\ split'[s].infant = split[s].infant
        /\ split'[s].orig_acc = split[s].orig_acc
        /\ split'[s].orig_parent = split[s].orig_parent
    BY <1>4, <3>3, <3>4, <3>5, RevertedFields
  <3>7. split'[s].live /\ split'[s].dirty /\ splitRow[s] = None
    BY <1>5, <1>11, <2>2, <3>6 DEF Rows
  <3>8. \A x \in Split : Changed(x) /\ (Clearing(x) => Clearing(x)')
    BY <1>5, <1>9, <3>6, <3>7 DEF Changed
  <3>9. /\ trans[t] \in TransRec /\ trans[t].editlevel # 0
        /\ \A u \in Trans \ {t} : trans'[u] = trans[u]
        /\ trans'[t] = [trans[t] EXCEPT !.editlevel = trans[t].editlevel + 1,
                                        !.orig = trans[t].orig]
   <4>1. trans[t] \in TransRec /\ trans[t].editlevel # 0
    <5>1. trans[t].editlevel = 1
      BY <1>3
    <5>2. trans[t].editlevel # 0
      BY <5>1
    <5>3. trans[t] \in TransRec
      BY <1>4 DEF FieldTypes
    <5>4. QED
      BY <5>2, <5>3
   <4>2. QED
     BY <1>4, <3>1, <4>1, BegunAgain
  <3>10. trans'[t].splits = trans[t].splits /\ trans'[t].orig = trans[t].orig
    BY <3>9 DEF TransRec
  <3>11. \A u \in Trans : CopyKept(u)
    BY <1>9, <3>9, <3>10 DEF CopyKept
  <3>12. Rows'
    BY <1>1, <1>4, <3>8, <3>11, RowsKept
  <3>13. Parents'
   <4>1. \A u \in Trans : \A x \in trans[u].splits : x \in trans'[u].splits
     BY <3>9, <3>10
   <4>2. \A u \in Trans : split'[s].parent # u
     BY <3>5, TransEditAssumption
   <4>3. QED
     BY <3>6, <4>1, <4>2, ParentsKept
  <3>14. QED
    BY <3>12, <3>13
 <2>3. QED
   BY <1>8, <2>1, <2>2
<1>12. QED
 <2>1. CASE ~split[s].dirty /\ UNCHANGED <<split, trans>>
   BY <1>10, <2>1
 <2>2. CASE \E rest : split[s].dirty
                   /\ SetParentCall(Reverted(s), s, split[s].orig_parent, rest)
   BY <1>11, <2>2
 <2>3. QED
   BY <1>5, <2>1, <2>2 DEF RollbackSplit

\* A split a rollback restores is what its row says.
LEMMA RestoreStored ==
    ASSUME EditInv, FieldTypes', Parents, Rows, NEW t \in Trans, NEW s \in Split, Restore(t, s)
    PROVE  Parents' /\ Rows'
<1>1. /\ Under("restore") /\ Head(stack).t = t /\ Head(stack).s = s
      /\ UNCHANGED <<trans, splitRow>>
      /\ split' = [split EXCEPT ![s].amount = trans[t].orig.amount[s],
                                ![s].reconciled = trans[t].orig.reconciled[s],
                                ![s].dirty = FALSE]
  BY DEF Restore
<1>2. FieldTypes /\ split \in [Split -> SplitRec] /\ split[s] \in SplitRec /\ ~Tidying
  BY <1>1 DEF EditInv, FieldTypes, Tidying, Under
<1>3. PICK todo \in SUBSET Split :
        /\ InHand(t, s, "restore") /\ trans[t].editlevel = 1
        /\ stack = <<Call("restore", t, s, {}), Loop("rollback", t, todo)>>
  BY <1>1, InRestore
<1>4. /\ split'[s] = [split[s] EXCEPT !.amount = trans[t].orig.amount[s],
                        !.reconciled = trans[t].orig.reconciled[s], !.dirty = FALSE]
      /\ \A x \in Split \ {s} : split'[x] = split[x]
  BY <1>1, <1>2
<1>5. /\ split'[s].live = split[s].live /\ split'[s].parent = split[s].parent
      /\ split'[s].orig_parent = split[s].orig_parent
      /\ split'[s].acc = split[s].acc /\ split'[s].orig_acc = split[s].orig_acc
      /\ split'[s].amount = trans[t].orig.amount[s]
      /\ split'[s].reconciled = trans[t].orig.reconciled[s]
  BY <1>2, <1>4 DEF SplitRec
<1>6. /\ s \in trans[t].orig.splits /\ split[s].parent = t /\ split[s].acc = split[s].orig_acc
  BY <1>3 DEF InHand
<1>7. splitRow[s] = CopiedRow(t, s) /\ splitRow[s] # None
  BY <1>2, <1>6, NotTidying, CopyNotNone DEF Rows
<1>8. splitRow[s] = RowOf(split'[s])
  BY <1>5, <1>6, <1>7 DEF CopiedRow, RowOf
<1>9. Parents'
 <2>1. \A u \in Trans : \A x \in trans[u].splits : x \in trans'[u].splits
   BY <1>1
 <2>2. ASSUME NEW x \in Split
       PROVE  split'[x].live => split[x].live /\ split'[x].parent = split[x].parent
   BY <1>4, <1>5
 <2>3. QED
   BY <2>1, <2>2, ParentsKept
<1>10. ASSUME NEW x \in Split
       PROVE  /\ (split[x].live /\ ~split[x].dirty => splitRow[x] = RowOf(split[x]))'
              /\ (splitRow[x] # None => /\ split[x].live
                                        /\ split[x].orig_parent = splitRow[x].parent
                                        /\ split[x].parent = splitRow[x].parent
                                        /\ splitRow[x].parent # None)'
              /\ (split[x].live /\ splitRow[x] = None => split[x].infant \/ Clearing(x))'
 <2>1. CASE x = s
  <3>1. /\ splitRow'[s] = splitRow[s] /\ splitRow'[s] = RowOf(split'[s])
        /\ splitRow'[s] # None
    BY <1>1, <1>7, <1>8
  <3>2. /\ split[s].live /\ split[s].orig_parent = splitRow[s].parent
        /\ split[s].parent = splitRow[s].parent /\ splitRow[s].parent # None
    BY <1>7 DEF Rows
  <3>3. QED
    BY <1>5, <2>1, <3>1, <3>2 DEF RowOf
 <2>2. CASE x # s
   BY <1>1, <1>2, <1>4, <2>2, NotTidying DEF Rows, RowOf
 <2>3. QED
   BY <2>1, <2>2
<1>11. ASSUME NEW u \in Trans, NEW x \in trans'[u].orig.splits
       PROVE  splitRow'[x] = CopiedRow(u, x)'
 <2>1. x \in trans[u].orig.splits /\ x \in Split
   BY <1>1, <1>2 DEF FieldTypes, TransRec, Copy
 <2>2. splitRow[x] = CopiedRow(u, x)
   BY <1>2, <2>1, NotTidying DEF Rows
 <2>3. split'[x].orig_acc = split[x].orig_acc
   BY <1>4, <1>5, <2>1
 <2>4. QED
   BY <1>1, <2>2, <2>3 DEF CopiedRow
<1>12. Rows'
  BY <1>10, <1>11 DEF Rows
<1>13. QED
  BY <1>9, <1>12

\* One it discards has no row.
LEMMA DiscardStored ==
    ASSUME EditInv, FieldTypes', Parents, Rows, NEW t \in Trans, NEW s \in Split, Discard(t, s)
    PROVE  Parents' /\ Rows'
<1>1. /\ Under("discard") /\ Head(stack).t = t /\ Head(stack).s = s
      /\ trans' = [trans EXCEPT ![t].splits = @ \ {s}] /\ splitRow' = splitRow
      /\ split[s].parent = None => split' = [split EXCEPT ![s] = FreedSplit]
  BY DEF Discard
<1>2. FieldTypes /\ trans \in [Trans -> TransRec] /\ trans[t] \in TransRec /\ ~Tidying
  BY <1>1 DEF EditInv, FieldTypes, Tidying, Under
<1>3. split[s].parent = None
 <2>1. PICK u \in Trans, x \in Split, todo \in SUBSET Split :
         /\ InHand(u, x, "discard")
         /\ stack = <<Call("discard", u, x, {}), Loop("rollback", u, todo)>>
  <3>1. ~Under("adopt")
    BY <1>1 DEF Under
  <3>2. QED
    BY <1>1, <3>1, InDiscard
 <2>2. u = t /\ x = s
   BY <1>1, <2>1, Stack2, CallFields
 <2>3. QED
   BY <2>1, <2>2 DEF InHand
<1>4. /\ split'[s] = FreedSplit /\ \A x \in Split \ {s} : split'[x] = split[x]
  BY <1>1, <1>2, <1>3 DEF FieldTypes
<1>5. ~split'[s].live
  BY <1>4 DEF FreedSplit
<1>6. splitRow[s] = None
  BY <1>3 DEF Rows
<1>7. /\ trans'[t].splits = trans[t].splits \ {s} /\ trans'[t].orig = trans[t].orig
      /\ \A u \in Trans \ {t} : trans'[u] = trans[u]
  BY <1>2, <1>1 DEF TransRec
<1>8. Parents'
 <2>1. \A u \in Trans : \A x \in trans[u].splits :
         x \in trans'[u].splits \/ ~split'[x].live \/ split'[x].parent # u
   BY <1>5, <1>7
 <2>2. \A x \in Split : split'[x].live => split[x].live /\ split'[x].parent = split[x].parent
   BY <1>4, <1>5
 <2>3. QED
   BY <2>1, <2>2, ParentsKept
<1>9. Rows'
 <2>1. \A x \in Split : Changed(x) /\ (Clearing(x) => Clearing(x)')
   BY <1>2, <1>4, <1>5, <1>6, NotTidying DEF Changed
 <2>2. \A u \in Trans : CopyKept(u)
   BY <1>2, <1>7, NotTidying DEF CopyKept
 <2>3. QED
   BY <1>1, <1>2, <2>1, <2>2, RowsKept
<1>10. QED
  BY <1>8, <1>9

LEMMA AdoptStored ==
    ASSUME EditInv, FieldTypes', Parents, Rows, NEW s \in Split, Adopt(s)
    PROVE  Parents' /\ Rows'
<1>1. /\ Under("adopt") /\ Head(stack).s = s /\ splitRow' = splitRow
      /\ split' = [split EXCEPT ![s].dirty = TRUE]
      /\ Head(stack).t \notin Trans => trans' = trans
  BY DEF Adopt
<1>2. /\ split \in [Split -> SplitRec] /\ split[s] \in SplitRec /\ ~Tidying
  BY <1>1 DEF EditInv, FieldTypes, Tidying, Under
<1>3. PICK t \in Trans, x \in Split, todo \in SUBSET Split :
        /\ InHand(t, x, "discard")
        /\ RollingBack(t, x, todo)
        /\ stack = <<Call("adopt", None, x, {}), Call("discard", t, x, {}),
                     Loop("rollback", t, todo)>>
 <2>1. ~Under("discard")
   BY <1>1 DEF Under
 <2>2. QED
   BY <1>1, <2>1, InDiscard
<1>4. x = s /\ Head(stack).t = None /\ Len(stack) > 1
      /\ stack[Len(stack) - 1] = Call("discard", t, x, {})
  BY <1>1, <1>3, Stack3, CallFields
<1>5. trans' = trans
  BY <1>1, <1>4, TransEditAssumption
<1>6. split[s].live
 <2>1. InOrder(t)
   BY <1>2, <1>4, DroppingOne
 <2>2. s \in trans[t].splits
   BY <1>3, <1>4 DEF InHand
 <2>3. QED
   BY <2>1, <2>2 DEF InOrder
<1>7. /\ split'[s] = [split[s] EXCEPT !.dirty = TRUE]
      /\ \A y \in Split \ {s} : split'[y] = split[y]
  BY <1>1, <1>2
<1>8. /\ split'[s].live = split[s].live /\ split'[s].dirty
      /\ split'[s].infant = split[s].infant /\ split'[s].orig_acc = split[s].orig_acc
      /\ split'[s].orig_parent = split[s].orig_parent
      /\ split'[s].parent = split[s].parent
  BY <1>2, <1>7 DEF SplitRec
<1>9. split'[s].live
  BY <1>6, <1>8
<1>10. QED
  BY <1>1, <1>2, <1>5, <1>6, <1>7, <1>8, <1>9, QuietSetters

LEMMA CloseStored ==
    ASSUME EditInv, FieldTypes', Parents, Rows, CanFail = FALSE, Close
    PROVE  Parents' /\ Rows'
<1>1. /\ Under("close") /\ ~Tidying
      /\ \A t \in Trans : Head(stack).t = t => CommitCall(t, Tail(stack))
  BY TransEditAssumption DEF Close, Under, Tidying
<1>2. ASSUME NEW t \in Trans, stack = <<Call("close", t, None, {})>>
      PROVE  Parents' /\ Rows'
 <2>1. Head(stack).t = t /\ Tail(stack) = <<>> /\ \E f : stack = <<f>>
   BY <1>2, Stack1, CallFields
 <2>2. CommitCall(t, <<>>)
   BY <1>1, <2>1
 <2>3. QED
   BY <1>1, <2>1, <2>2, CommitCallStored
<1>3. ASSUME NEW t \in Trans, trans[t].editlevel = 2, Head(stack).t = t
      PROVE  Parents' /\ Rows'
 <2>1. CommitCall(t, Tail(stack))
   BY <1>1, <1>3
 <2>2. /\ trans' = [trans EXCEPT ![t].editlevel = @ - 1]
       /\ split' = split /\ splitRow' = splitRow
   BY <1>3, <2>1 DEF CommitCall
 <2>3. trans \in [Trans -> TransRec] /\ trans[t] \in TransRec
   BY DEF EditInv, FieldTypes
 <2>4. /\ trans'[t] = [trans[t] EXCEPT !.editlevel = @ - 1]
       /\ \A u \in Trans \ {t} : trans'[u] = trans[u]
   BY <2>2, <2>3
 <2>5. trans'[t].splits = trans[t].splits /\ trans'[t].orig = trans[t].orig
   BY <2>3, <2>4 DEF TransRec
 <2>6. QED
   BY <1>1, <2>2, <2>4, <2>5, QuietSetters
<1>4. PICK t \in Trans :
        \/ stack = <<Call("close", t, None, {})>>
        \/ \E s \in Split, todo \in SUBSET Split :
             /\ trans[t].editlevel = 2
             /\ stack = <<Call("close", t, None, {}), Call("adopt", None, s, {}),
                          Call("discard", t, s, {}), Loop("rollback", t, todo)>>
  BY <1>1, InClose DEF EditInv
<1>5. ASSUME NEW s \in Split, NEW todo \in SUBSET Split,
             stack = <<Call("close", t, None, {}), Call("adopt", None, s, {}),
                       Call("discard", t, s, {}), Loop("rollback", t, todo)>>
      PROVE  Head(stack).t = t
  BY <1>5, Stack4, CallFields
<1>6. QED
  BY <1>2, <1>3, <1>4, <1>5

LEMMA CallStored ==
    ASSUME EditInv, EditInv', Parents, Rows, CanFail = FALSE, CallStep
    PROVE  Parents' /\ Rows'
<1>1. FieldTypes'
  BY DEF EditInv
<1>2. ASSUME NEW t \in Trans, NEW s \in Split, ReadFreed(t, s) PROVE Parents' /\ Rows'
 <2>1. PICK op \in {"cleanup", "clear", "rollback"} : Visiting(op, t, s)
   BY <1>2 DEF ReadFreed
 <2>2. split[s].live
   BY <2>1, LoopSplits
 <2>3. QED
   BY <1>2, <2>2 DEF ReadFreed
<1>3. QED
  BY <1>1, <1>2, CloseStored, AdoptStored, LoopEndStored, LoopStored, RollbackSplitStored,
     RestoreStored, DiscardStored DEF CallStep

LEMMA InitStored ==
    ASSUME Init
    PROVE  Parents /\ Rows
<1>1. /\ stack = <<>> /\ splitRow = Loaded
      /\ \A s \in Split : split[s] = LoadedSplit(s)
      /\ trans = [t \in Trans |->
                    [FreedTrans EXCEPT !.live = LoadedInto(t) # {}, !.splits = LoadedInto(t)]]
  BY DEF Init
<1>2. ASSUME NEW t \in Trans
      PROVE  trans[t].splits = LoadedInto(t) /\ trans[t].orig.splits = {}
 <2> DEFINE there == LoadedInto(t) # {}
            listed == LoadedInto(t)
 <2>1. trans[t] = [FreedTrans EXCEPT !.live = there, !.splits = listed]
   BY <1>1
 <2> HIDE DEF there, listed
 <2>2. trans[t].splits = listed /\ trans[t].orig.splits = {}
   BY <2>1 DEF FreedTrans, NoCopy
 <2>3. QED
   BY <2>2 DEF listed
<1>3. ASSUME NEW s \in Split
      PROVE  /\ split[s].live <=> Loaded[s] # None
             /\ Loaded[s] # None => /\ split[s].parent = Loaded[s].parent
                                    /\ split[s].orig_parent = Loaded[s].parent
                                    /\ Loaded[s].parent # None
                                    /\ Loaded[s] = RowOf(split[s])
 <2>1. split[s] = LoadedSplit(s)
   BY <1>1
 <2>2. CASE Loaded[s] = None
   BY <2>1, <2>2 DEF LoadedSplit, FreedSplit
 <2>3. CASE Loaded[s] # None
  <3>1. Loaded[s] \in Row /\ Loaded[s].parent # None
    BY <2>3, TransEditAssumption
  <3>2. Loaded[s] = [parent |-> Loaded[s].parent, acc |-> Loaded[s].acc,
                     amount |-> Loaded[s].amount, reconciled |-> Loaded[s].reconciled]
    BY <3>1 DEF Row
  <3>3. /\ split[s].live /\ split[s].parent = Loaded[s].parent
        /\ split[s].orig_parent = Loaded[s].parent
        /\ split[s].acc = Loaded[s].acc /\ split[s].amount = Loaded[s].amount
        /\ split[s].reconciled = Loaded[s].reconciled
    BY <2>1, <2>3 DEF LoadedSplit
  <3>4. QED
    BY <2>3, <3>1, <3>2, <3>3 DEF RowOf
 <2>4. QED
   BY <2>2, <2>3
<1>4. Parents
 <2>1. ASSUME NEW s \in Split, NEW t \in Trans, split[s].live, split[s].parent = t
       PROVE  s \in trans[t].splits
   BY <1>2, <1>3, <2>1 DEF LoadedInto
 <2>2. QED
   BY <2>1 DEF Parents
<1>5. Rows
  BY <1>1, <1>2, <1>3 DEF Rows
<1>6. QED
  BY <1>4, <1>5

\* The inductive invariant when the backend refuses nothing.
LEMMA StoredInvHolds ==
    ASSUME "move" \notin Calls, CanFail = FALSE
    PROVE  Spec => []StoredInv
<1>1. Init => StoredInv
  BY InitEditInv, InitStored DEF StoredInv
<1>2. StoredInv /\ [Next]_vars => StoredInv'
 <2>1. CASE EditInv /\ Parents /\ Rows /\ ClientCall
   BY <2>1, ClientEditInv, ClientStored DEF StoredInv
 <2>2. CASE EditInv /\ Parents /\ Rows /\ CallStep
   BY <2>2, CallEditInv, CallStored DEF StoredInv
 <2>3. CASE EditInv /\ Parents /\ Rows /\ UNCHANGED vars
  <3>1. EditInv'
    BY <2>3, StillEditInv
  <3>2. UNCHANGED <<split, trans, splitRow, stack>>
    BY <2>3 DEF vars
  <3>3. Parents' /\ Rows'
    BY <2>3, <3>2 DEF Parents, Rows, Busy, Clearing, CopiedRow, RowOf
  <3>4. QED
    BY <3>1, <3>3 DEF StoredInv
 <2>4. QED
   BY <2>1, <2>2, <2>3 DEF StoredInv, Next
<1>3. QED
  BY <1>1, <1>2, PTL DEF Spec

\* While splits stay with their transaction no loop of the edit cycle reads a
\* split that was freed, and its assertions hold, whatever the backend refuses.
THEOREM NoFaultHolds ==
    ASSUME "move" \notin Calls
    PROVE  Spec => []NoFault
<1>1. EditInv => NoFault
  BY DEF EditInv
<1>2. QED
  BY <1>1, EditInvHolds, PTL

\* Between edits a transaction lists live splits of its own, and all of them
\* when the backend refuses nothing.
THEOREM SplitListExactHolds ==
    ASSUME "move" \notin Calls
    PROVE  Spec => []SplitListExact
<1>1. ASSUME EditInv, Idle, CanFail \/ Parents PROVE SplitListExact
 <2>1. stack = <<>> /\ ~Tidying
   BY <1>1 DEF Idle, Tidying
 <2>2. \A t \in Trans : \A s \in trans[t].splits : split[s].live /\ split[s].parent = t
   BY <1>1, <2>1, IdleOrder
 <2>3. QED
   BY <1>1, <2>2 DEF SplitListExact, Parents
<1>2. ~Idle => SplitListExact
  BY DEF SplitListExact
<1>3. CASE CanFail
 <2>1. EditInv => SplitListExact
   BY <1>1, <1>2, <1>3
 <2>2. QED
   BY <2>1, EditInvHolds, PTL
<1>4. CASE ~CanFail
 <2>1. StoredInv => SplitListExact
   BY <1>1, <1>2 DEF StoredInv
 <2>2. CanFail = FALSE
   BY <1>4, TransEditAssumption
 <2>3. QED
   BY <2>1, <2>2, StoredInvHolds, PTL
<1>5. QED
  BY <1>3, <1>4

\* What is not dirty is what the backend has, and no row outlives its split:
\* while no commit is refused and splits stay with their transaction.
THEOREM CleanIsStoredHolds ==
    ASSUME "move" \notin Calls, CanFail = FALSE
    PROVE  Spec => []CleanIsStored
<1>1. StoredInv => CleanIsStored
  BY DEF StoredInv, Rows, CleanIsStored
<1>2. QED
  BY <1>1, StoredInvHolds, PTL

-----------------------------------------------------------------------------
(* When no commit is refused, the parent of a split lists it, also while    *)
(* splits are moved.  A commit then never rolls back, so that calls nest    *)
(* four deep at most: a rollback, what it does with the split in hand, the  *)
(* adoption of that split, and the commit of a transaction.                 *)

Closing == {"close", "cleanup", "clear"}

\* In the calls q, split s is about to be listed by transaction t.
AdoptingIn(q, t, s) == \E i \in 1 .. Len(q) : q[i] = Call("adopt", t, s, {})

\* A commit calls nothing, an adoption only the commit of another transaction,
\* and a rollback is called by nothing.
CallersIn(q) ==
    \A i \in 1 .. Len(q) :
        /\ q[i].op \in Closing => i = 1
        /\ q[i].op = "adopt" =>
             /\ q[i] = Call("adopt", q[i].t, q[i].s, {})
             /\ i = 1 \/ (i = 2 /\ q[1].op \in Closing /\ q[1].t # q[2].t)
        /\ q[i].op = "rollback" => i = Len(q)

Listed ==
    \A s \in Split, t \in Trans :
        split[s].live /\ split[s].parent = t =>
            s \in trans[t].splits \/ AdoptingIn(stack, t, s)

\* The loop of xaccTransClearSplits will destroy every split of t.
Doomed ==
    \A t \in Trans : Busy("clear", t) =>
        \A s \in Split : split[s].live /\ split[s].parent = t =>
            s \in Head(stack).todo /\ split[s].dirty /\ split[s].do_free

\* A transaction that was freed is not open and is the parent of no split.
Buried ==
    \A t \in Trans : ~trans[t].live =>
        /\ trans[t].editlevel <= 0
        /\ \A s \in Split : split[s].live => split[s].parent # t

MoveOK == CallersIn(stack) /\ Listed /\ Doomed /\ Buried

MoveInv == FieldTypes /\ (fault = "none" => MoveOK)

LEMMA PushFacts ==
    ASSUME NEW q \in Seq(Frame), NEW f \in Frame
    PROVE  /\ <<f>> \o q \in Seq(Frame) /\ <<f>> \o q # <<>>
           /\ Len(<<f>> \o q) = Len(q) + 1
           /\ Head(<<f>> \o q) = f /\ (<<f>> \o q)[1] = f
           /\ \A i \in 1 .. Len(q) : (<<f>> \o q)[i + 1] = q[i]
           /\ \A i \in 1 .. Len(q) + 1 : i = 1 \/ (<<f>> \o q)[i] = q[i - 1]
<1> DEFINE r == <<f>> \o q
<1>1. <<f>> \in Seq(Frame) /\ Len(<<f>>) = 1 /\ <<f>>[1] = f
  OBVIOUS
<1>2. /\ r \in Seq(Frame) /\ Len(r) = 1 + Len(q)
      /\ \A i \in 1 .. 1 + Len(q) : r[i] = IF i <= 1 THEN <<f>>[i] ELSE q[i - 1]
 <2> HIDE DEF r
 <2>1. /\ <<f>> \o q \in Seq(Frame) /\ Len(<<f>> \o q) = Len(<<f>>) + Len(q)
       /\ \A i \in 1 .. Len(<<f>>) + Len(q) :
            (<<f>> \o q)[i] = IF i <= Len(<<f>>) THEN <<f>>[i] ELSE q[i - Len(<<f>>)]
   BY <1>1, ConcatProperties
 <2>2. QED
   BY <1>1, <2>1 DEF r
<1>3. Len(q) \in Nat
  BY LenProperties
<1> HIDE DEF r
<1>4. r[1] = f /\ r # <<>>
  BY <1>1, <1>2, <1>3
<1>5. Head(r) = r[1]
  BY <1>2, <1>4
<1>6. \A i \in 1 .. Len(q) + 1 : i = 1 \/ r[i] = q[i - 1]
  BY <1>2, <1>3
<1>7. \A i \in 1 .. Len(q) : r[i + 1] = q[i]
  BY <1>2, <1>3
<1>8. QED
  BY <1>2, <1>3, <1>4, <1>5, <1>6, <1>7 DEF r

LEMMA TailFacts ==
    ASSUME NEW q \in Seq(Frame), q # <<>>
    PROVE  /\ Tail(q) \in Seq(Frame) /\ Len(q) \in Nat /\ Len(q) > 0
           /\ Len(Tail(q)) = Len(q) - 1 /\ Head(q) = q[1] /\ Head(q) \in Frame
           /\ \A i \in 1 .. Len(q) - 1 : Tail(q)[i] = q[i + 1]
           /\ \A i \in 1 .. Len(q) : i = 1 \/ q[i] = Tail(q)[i - 1]
<1>1. Len(q) \in Nat /\ Len(q) > 0 /\ Head(q) = q[1]
  BY LenProperties, EmptySeq
<1>2. /\ Tail(q) \in Seq(Frame) /\ Len(Tail(q)) = Len(q) - 1 /\ Head(q) \in Frame
      /\ \A i \in 1 .. Len(Tail(q)) : Tail(q)[i] = q[i + 1]
  BY HeadTailProperties
<1>3. \A i \in 1 .. Len(q) : i = 1 \/ q[i] = Tail(q)[i - 1]
 <2>1. SUFFICES ASSUME NEW i \in 1 .. Len(q), i # 1 PROVE q[i] = Tail(q)[i - 1]
   OBVIOUS
 <2>2. i - 1 \in 1 .. Len(Tail(q)) /\ (i - 1) + 1 = i
   BY <1>1, <1>2, <2>1
 <2>3. QED
   BY <1>2, <2>2
<1>4. QED
  BY <1>1, <1>2, <1>3

\* The call returns.
LEMMA ReturnCallers ==
    ASSUME NEW q \in Seq(Frame), q # <<>>, CallersIn(q)
    PROVE  /\ CallersIn(Tail(q))
           /\ \A i \in 1 .. Len(Tail(q)) : Tail(q)[i].op \notin Closing
<1>1. /\ Len(q) \in Nat /\ Len(Tail(q)) = Len(q) - 1
      /\ \A i \in 1 .. Len(q) - 1 : Tail(q)[i] = q[i + 1] /\ i + 1 \in 1 .. Len(q)
  BY TailFacts
<1>2. ASSUME NEW i \in 1 .. Len(Tail(q))
      PROVE  /\ Tail(q)[i].op \notin Closing
             /\ Tail(q)[i].op = "adopt" =>
                  Tail(q)[i] = Call("adopt", Tail(q)[i].t, Tail(q)[i].s, {}) /\ i = 1
             /\ Tail(q)[i].op = "rollback" => i = Len(Tail(q))
 <2>1. Tail(q)[i] = q[i + 1] /\ i + 1 \in 1 .. Len(q) /\ i + 1 # 1 /\ i \in Nat
   BY <1>1
 <2>2. /\ q[i + 1].op \in Closing => i + 1 = 1
       /\ q[i + 1].op = "adopt" =>
            q[i + 1] = Call("adopt", q[i + 1].t, q[i + 1].s, {}) /\ (i + 1 = 1 \/ i + 1 = 2)
       /\ q[i + 1].op = "rollback" => i + 1 = Len(q)
   BY <2>1 DEF CallersIn
 <2>3. Tail(q)[i].op \notin Closing
   BY <2>1, <2>2
 <2>4. Tail(q)[i].op = "adopt" =>
         Tail(q)[i] = Call("adopt", Tail(q)[i].t, Tail(q)[i].s, {}) /\ i = 1
   BY <2>1, <2>2
 <2>5. ASSUME Tail(q)[i].op = "rollback" PROVE i = Len(Tail(q))
  <3>1. q[i + 1].op = "rollback"
    BY <2>1, <2>5
  <3>2. i + 1 = Len(q)
    BY <2>2, <3>1
  <3>3. Len(Tail(q)) = Len(q) - 1 /\ Len(q) \in Nat /\ i \in Nat
    BY <1>1, <2>1
  <3> HIDE <1>1, <2>1, <2>2
  <3>4. QED
    BY <3>2, <3>3
 <2>6. QED
   BY <2>3, <2>4, <2>5
<1>3. QED
  BY <1>2 DEF CallersIn

LEMMA ReturnAdopting ==
    ASSUME NEW q \in Seq(Frame), q # <<>>, Head(q).op # "adopt", NEW t, NEW s
    PROVE  AdoptingIn(Tail(q), t, s) <=> AdoptingIn(q, t, s)
<1>1. /\ Len(q) \in Nat /\ Len(Tail(q)) = Len(q) - 1 /\ Head(q) = q[1]
      /\ \A i \in 1 .. Len(q) - 1 : Tail(q)[i] = q[i + 1] /\ i + 1 \in 1 .. Len(q)
      /\ \A i \in 1 .. Len(q) : i = 1 \/ (q[i] = Tail(q)[i - 1] /\ i - 1 \in 1 .. Len(q) - 1)
  BY TailFacts
<1>2. q[1] # Call("adopt", t, s, {})
  BY <1>1, CallFields
<1>3. ASSUME AdoptingIn(Tail(q), t, s) PROVE AdoptingIn(q, t, s)
 <2>1. PICK i \in 1 .. Len(Tail(q)) : Tail(q)[i] = Call("adopt", t, s, {})
   BY <1>3 DEF AdoptingIn
 <2>2. q[i + 1] = Call("adopt", t, s, {}) /\ i + 1 \in 1 .. Len(q)
   BY <1>1, <2>1
 <2>3. QED
   BY <2>2 DEF AdoptingIn
<1>4. ASSUME AdoptingIn(q, t, s) PROVE AdoptingIn(Tail(q), t, s)
 <2>1. PICK i \in 1 .. Len(q) : q[i] = Call("adopt", t, s, {})
   BY <1>4 DEF AdoptingIn
 <2>2. Tail(q)[i - 1] = Call("adopt", t, s, {}) /\ i - 1 \in 1 .. Len(Tail(q))
   BY <1>1, <1>2, <2>1
 <2>3. QED
   BY <2>2 DEF AdoptingIn
<1>5. QED
  BY <1>3, <1>4

\* A call that is not an adoption is made.
LEMMA CalledAdopting ==
    ASSUME NEW q \in Seq(Frame), NEW f \in Frame, f.op # "adopt", NEW t, NEW s
    PROVE  AdoptingIn(<<f>> \o q, t, s) <=> AdoptingIn(q, t, s)
<1>1. /\ Len(q) \in Nat /\ Len(<<f>> \o q) = Len(q) + 1 /\ (<<f>> \o q)[1] = f
      /\ \A i \in 1 .. Len(q) : (<<f>> \o q)[i + 1] = q[i] /\ i + 1 \in 1 .. Len(q) + 1
      /\ \A i \in 1 .. Len(q) + 1 :
           i = 1 \/ ((<<f>> \o q)[i] = q[i - 1] /\ i - 1 \in 1 .. Len(q))
  BY PushFacts, LenProperties
<1>2. f # Call("adopt", t, s, {})
  BY CallFields
<1>3. ASSUME AdoptingIn(q, t, s) PROVE AdoptingIn(<<f>> \o q, t, s)
 <2>1. PICK i \in 1 .. Len(q) : q[i] = Call("adopt", t, s, {})
   BY <1>3 DEF AdoptingIn
 <2>2. (<<f>> \o q)[i + 1] = Call("adopt", t, s, {}) /\ i + 1 \in 1 .. Len(<<f>> \o q)
   BY <1>1, <2>1
 <2>3. QED
   BY <2>2 DEF AdoptingIn
<1>4. ASSUME AdoptingIn(<<f>> \o q, t, s) PROVE AdoptingIn(q, t, s)
 <2>1. PICK i \in 1 .. Len(<<f>> \o q) : (<<f>> \o q)[i] = Call("adopt", t, s, {})
   BY <1>4 DEF AdoptingIn
 <2>2. q[i - 1] = Call("adopt", t, s, {}) /\ i - 1 \in 1 .. Len(q)
   BY <1>1, <1>2, <2>1
 <2>3. QED
   BY <2>2 DEF AdoptingIn
<1>5. QED
  BY <1>3, <1>4

\* A transaction is committed, by a caller that adopts no split of it.
LEMMA ClosingCallers ==
    ASSUME NEW q \in Seq(Frame), NEW f \in Frame, f.op \in Closing, CallersIn(q),
           \A i \in 1 .. Len(q) : q[i].op \notin Closing,
           q # <<>> /\ q[1].op = "adopt" => q[1].t # f.t
    PROVE  CallersIn(<<f>> \o q)
<1> DEFINE r == <<f>> \o q
<1>1. /\ Len(q) \in Nat /\ Len(r) = Len(q) + 1 /\ r[1] = f
      /\ \A i \in 1 .. Len(q) : r[i + 1] = q[i]
      /\ \A i \in 1 .. Len(q) + 1 : i = 1 \/ (r[i] = q[i - 1] /\ i - 1 \in 1 .. Len(q))
  BY PushFacts, LenProperties
<1> HIDE DEF r
<1>2. f.op # "adopt" /\ f.op # "rollback"
  BY DEF Closing
<1>3. ASSUME NEW i \in 1 .. Len(r)
      PROVE  /\ r[i].op \in Closing => i = 1
             /\ r[i].op = "adopt" =>
                  /\ r[i] = Call("adopt", r[i].t, r[i].s, {})
                  /\ i = 1 \/ (i = 2 /\ r[1].op \in Closing /\ r[1].t # r[2].t)
             /\ r[i].op = "rollback" => i = Len(r)
 <2>1. CASE i = 1
   BY <1>1, <1>2, <2>1
 <2>2. CASE i # 1
  <3>1. r[i] = q[i - 1] /\ i - 1 \in 1 .. Len(q)
    BY <1>1, <2>2
  <3>2. /\ q[i - 1].op \notin Closing
        /\ q[i - 1].op = "adopt" =>
             /\ q[i - 1] = Call("adopt", q[i - 1].t, q[i - 1].s, {})
             /\ i - 1 = 1 \/ q[1].op \in Closing
        /\ q[i - 1].op = "rollback" => i - 1 = Len(q)
    BY <3>1 DEF CallersIn
  <3>3. q[1].op \notin Closing /\ q # <<>>
    BY <1>1, <3>1
  <3>4. r[i].op = "adopt" => i = 2 /\ r[2] = q[1] /\ r[1].t # r[2].t
    BY <1>1, <3>1, <3>2, <3>3
  <3>5. QED
    BY <1>1, <2>2, <3>1, <3>2, <3>4
 <2>3. QED
   BY <2>1, <2>2
<1>4. QED
  BY <1>3 DEF CallersIn, r

\* A step keeps the parents of splits, or has them listed or about to be.
LEMMA MoveStep ==
    ASSUME MoveOK, CallersIn(stack)',
           \A s \in Split, t \in Trans : split'[s].live /\ split'[s].parent = t =>
              \/ /\ split[s].live /\ split[s].parent = t
                 /\ s \in trans[t].splits => s \in trans'[t].splits
                 /\ AdoptingIn(stack, t, s) => s \in trans'[t].splits \/ AdoptingIn(stack', t, s)
              \/ trans'[t].live /\ (s \in trans'[t].splits \/ AdoptingIn(stack', t, s)),
           \A t \in Trans : trans[t].live => trans'[t].live,
           \A t \in Trans : ~trans'[t].live => trans'[t].editlevel <= trans[t].editlevel,
           FieldTypes, FieldTypes',
           \A t \in Trans : Busy("clear", t)' =>
              \A s \in Split : split'[s].live /\ split'[s].parent = t =>
                  s \in Head(stack').todo /\ split'[s].dirty /\ split'[s].do_free
    PROVE  MoveOK'
<1>1. Listed'
  BY DEF MoveOK, Listed
<1>2. Doomed'
  BY DEF Doomed
<1>3. Buried'
 <2>1. \A t \in Trans : trans[t].editlevel \in Int /\ trans'[t].editlevel \in Int
   BY DEF FieldTypes, TransRec
 <2>2. ASSUME NEW t \in Trans, ~trans'[t].live
       PROVE  trans'[t].editlevel <= 0 /\ \A s \in Split : split'[s].live => split'[s].parent # t
  <3>1. ~trans[t].live /\ trans'[t].editlevel <= trans[t].editlevel
    BY <2>2
  <3>2. trans[t].editlevel <= 0 /\ \A s \in Split : split[s].live => split[s].parent # t
    BY <3>1 DEF MoveOK, Buried
  <3>3. \A s \in Split : split'[s].live => split'[s].parent # t
    BY <2>2, <3>2
  <3>4. QED
    BY <2>1, <3>1, <3>2, <3>3
 <2>3. QED
   BY <2>2 DEF Buried
<1>4. QED
  BY <1>1, <1>2, <1>3 DEF MoveOK

LEMMA NoCalls ==
    /\ CallersIn(<<>>)
    /\ \A t, s : ~AdoptingIn(<<>>, t, s)
BY DEF CallersIn, AdoptingIn

\* Client calls that open, change or describe.
LEMMA SetterMoves ==
    ASSUME FieldTypes, FieldTypes', MoveOK,
           \/ \E t \in Trans :
                \/ BeginEdit(t) \/ MallocTrans(t) \/ TransDestroy(t)
                \/ \E d \in Description : SetDescription(t, d)
                \/ \E s \in Split, a \in Account, v \in Entered : MallocSplit(t, s, a, v)
           \/ \E s \in Split :
                \/ SplitDestroy(s)
                \/ \E v \in Entered : SetBaseValue(s, v)
                \/ \E r \in BOOLEAN : SetReconcile(s, r)
                \/ \E a \in Account : SetAccount(s, a)
           \/ \E a \in Account : AccountCommitEdit(a)
    PROVE  MoveOK'
<1> USE DEF Idle
<1>1. /\ \A t \in Trans : trans[t] \in TransRec
      /\ \A s \in Split : split[s] \in SplitRec
      /\ DOMAIN trans = Trans /\ DOMAIN split = Split
  BY DEF FieldTypes
<1>2. ASSUME stack = <<>>, stack' = <<>>,
             \A s \in Split : split'[s].live /\ split'[s].parent \in Trans =>
               \/ split[s].live /\ split'[s].parent = split[s].parent
               \/ /\ trans'[split'[s].parent].live
                  /\ s \in trans'[split'[s].parent].splits,
             \A t \in Trans : /\ trans[t].live => /\ trans'[t].live
                                                  /\ trans[t].splits \subseteq trans'[t].splits
                              /\ ~trans'[t].live => trans'[t].editlevel <= trans[t].editlevel
      PROVE  MoveOK'
 <2>1. CallersIn(stack)' /\ \A t, s : ~AdoptingIn(stack, t, s)
   BY <1>2, NoCalls
 <2>2. \A t \in Trans : ~Busy("clear", t)'
   BY <1>2 DEF Busy
 <2>3. \A s \in Split, t \in Trans : split[s].live /\ split[s].parent = t => trans[t].live
   BY DEF MoveOK, Buried
 <2>4. QED
   BY <1>2, <2>1, <2>2, <2>3, MoveStep
<1>3. ASSUME NEW t \in Trans, BeginEdit(t) PROVE MoveOK'
 <2>1. /\ stack = <<>> /\ stack' = <<>> /\ trans[t].live /\ split' = split
       /\ trans' = Begun({t})
   BY <1>3 DEF BeginEdit
 <2>2. \A u \in Trans : trans'[u].live = trans[u].live /\ trans'[u].splits = trans[u].splits
   BY <1>1, <2>1 DEF Begun, TransRec
 <2>3. \A u \in Trans : u # t => trans'[u] = trans[u]
   BY <2>1 DEF Begun
 <2>4. \A u \in Trans : ~trans'[u].live => trans'[u].editlevel <= trans[u].editlevel
  <3>1. \A u \in Trans : trans[u].editlevel \in Int
    BY <1>1 DEF TransRec
  <3>2. trans[t].live
    BY <2>1
  <3>3. QED
    BY <2>2, <2>3, <3>1, <3>2
 <2>5. \A x \in Split : split'[x] = split[x]
   BY <2>1
 <2>6. QED
   BY <1>2, <2>1, <2>2, <2>4, <2>5
<1>4. ASSUME NEW t \in Trans, MallocTrans(t) PROVE MoveOK'
 <2>1. /\ stack = <<>> /\ stack' = <<>> /\ ~trans[t].live /\ split' = split
       /\ trans' = [trans EXCEPT ![t] = [FreedTrans EXCEPT !.live = TRUE, !.dirty = TRUE]]
   BY <1>4 DEF MallocTrans
 <2>2. trans'[t].live /\ \A u \in Trans : u # t => trans'[u] = trans[u]
   BY <1>1, <2>1 DEF FreedTrans
 <2>3. \A u \in Trans : trans[u].editlevel \in Int
   BY <1>1 DEF TransRec
 <2>4. QED
   BY <1>2, <2>1, <2>2, <2>3
<1>5. ASSUME NEW t \in Trans, TransDestroy(t) PROVE MoveOK'
 <2>1. /\ stack = <<>> /\ stack' = <<Call("close", t, None, {})>> /\ trans[t].live
       /\ split' = split /\ trans' = [Begun({t}) EXCEPT ![t].do_free = TRUE]
   BY <1>5 DEF TransDestroy
 <2>2. \A u \in Trans : trans'[u].live = trans[u].live /\ trans'[u].splits = trans[u].splits
   BY <1>1, <2>1 DEF Begun, TransRec
 <2>3. \A u \in Trans : u # t => trans'[u] = trans[u]
   BY <2>1 DEF Begun
 <2>4. \A u \in Trans : ~trans'[u].live => trans'[u].editlevel <= trans[u].editlevel
  <3>1. \A u \in Trans : trans[u].editlevel \in Int
    BY <1>1 DEF TransRec
  <3>2. trans[t].live
    BY <2>1
  <3>3. QED
    BY <2>2, <2>3, <3>1, <3>2
 <2>5. CallersIn(stack)'
   BY <2>1, CallFields DEF CallersIn
 <2>6. \A u \in Trans : ~Busy("clear", u)'
   BY <2>1, CallFields DEF Busy
 <2>7. \A u, s : ~AdoptingIn(stack, u, s)
   BY <2>1, NoCalls
 <2>8. \A x \in Split : split'[x] = split[x]
   BY <2>1
 <2>9. QED
   BY <2>2, <2>4, <2>5, <2>6, <2>7, <2>8, MoveStep
<1>6. ASSUME NEW t \in Trans, NEW d \in Description, SetDescription(t, d) PROVE MoveOK'
 <2>1. /\ stack = <<>> /\ stack' = <<>> /\ split' = split
       /\ trans' = [trans EXCEPT ![t].description = d, ![t].dirty = TRUE]
   BY <1>6 DEF SetDescription, Setting
 <2>2. \A u \in Trans : /\ trans'[u].live = trans[u].live
                        /\ trans'[u].splits = trans[u].splits
                        /\ trans'[u].editlevel <= trans[u].editlevel
   BY <1>1, <2>1 DEF TransRec
 <2>3. \A x \in Split : split'[x] = split[x]
   BY <2>1
 <2>4. QED
   BY <1>2, <2>1, <2>2, <2>3
<1>7. ASSUME NEW t \in Trans, NEW s \in Split, NEW a \in Account, NEW v \in Entered,
             MallocSplit(t, s, a, v)
      PROVE  MoveOK'
 <2>1. /\ stack = <<>> /\ stack' = <<>> /\ trans[t].live
       /\ split' = [split EXCEPT ![s] = NewSplit(t, a, v)]
       /\ trans' = [trans EXCEPT ![t].splits = @ \cup {s}]
   BY <1>7 DEF MallocSplit, Setting
 <2>2. split'[s].parent = t /\ \A x \in Split : x # s => split'[x] = split[x]
   BY <1>1, <2>1 DEF NewSplit
 <2>3. \A u \in Trans : /\ trans'[u].live = trans[u].live
                        /\ trans[u].splits \subseteq trans'[u].splits
                        /\ trans'[u].editlevel = trans[u].editlevel
                        /\ trans[u].editlevel \in Int
   BY <1>1, <2>1 DEF TransRec
 <2>4. s \in trans'[t].splits
   BY <1>1, <2>1 DEF TransRec
 <2>5. QED
   BY <1>2, <2>1, <2>2, <2>3, <2>4
<1>8. ASSUME NEW s \in Split,
             \/ SplitDestroy(s)
             \/ \E v \in Entered : SetBaseValue(s, v)
             \/ \E r \in BOOLEAN : SetReconcile(s, r)
             \/ \E a \in Account : SetAccount(s, a)
      PROVE  MoveOK'
 <2>1. /\ stack = <<>> /\ stack' = <<>> /\ trans' = trans
       /\ \/ split' = [split EXCEPT ![s].dirty = TRUE, ![s].do_free = TRUE]
          \/ \E v \in Entered : split' = [split EXCEPT ![s].amount = v, ![s].dirty = TRUE]
          \/ \E r \in BOOLEAN : split' = [split EXCEPT ![s].reconciled = r, ![s].dirty = TRUE]
          \/ \E a \in Account : split' = [split EXCEPT ![s].acc = a, ![s].dirty = TRUE]
   BY <1>8 DEF SplitDestroy, SetBaseValue, SetReconcile, SetAccount, SettingSplit, Setting
 <2>2. \A x \in Split : split'[x].live = split[x].live /\ split'[x].parent = split[x].parent
  <3>1. CASE split' = [split EXCEPT ![s].dirty = TRUE, ![s].do_free = TRUE]
    BY <1>1, <3>1 DEF SplitRec
  <3>2. ASSUME NEW v \in Entered, split' = [split EXCEPT ![s].amount = v, ![s].dirty = TRUE]
        PROVE  \A x \in Split : split'[x].live = split[x].live /\ split'[x].parent = split[x].parent
    BY <1>1, <3>2 DEF SplitRec
  <3>3. ASSUME NEW r \in BOOLEAN,
               split' = [split EXCEPT ![s].reconciled = r, ![s].dirty = TRUE]
        PROVE  \A x \in Split : split'[x].live = split[x].live /\ split'[x].parent = split[x].parent
    BY <1>1, <3>3 DEF SplitRec
  <3>4. ASSUME NEW a \in Account, split' = [split EXCEPT ![s].acc = a, ![s].dirty = TRUE]
        PROVE  \A x \in Split : split'[x].live = split[x].live /\ split'[x].parent = split[x].parent
    BY <1>1, <3>4 DEF SplitRec
  <3>5. QED
    BY <2>1, <3>1, <3>2, <3>3, <3>4
 <2>3. \A u \in Trans : trans[u].editlevel \in Int
   BY <1>1 DEF TransRec
 <2>4. QED
   BY <1>2, <2>1, <2>2, <2>3
<1>9. ASSUME NEW a \in Account, AccountCommitEdit(a) PROVE MoveOK'
 <2>1. stack = <<>> /\ stack' = <<>> /\ trans' = trans /\ split' = split
   BY <1>9 DEF AccountCommitEdit
 <2>2. \A u \in Trans : trans[u].editlevel \in Int
   BY <1>1 DEF TransRec
 <2>3. QED
   BY <1>2, <2>1, <2>2
<1>10. QED
  BY <1>3, <1>4, <1>5, <1>6, <1>7, <1>8, <1>9

LEMMA NoRefusal ==
    ASSUME CanFail = FALSE
    PROVE  Answers = {TRUE}
BY DEF Answers

\* The frames the calls below push.
LEMMA CallTypes ==
    ASSUME NEW t \in Trans \cup {None}, NEW s \in Split \cup {None}, NEW todo \in SUBSET Split,
           NEW op \in {"close", "adopt", "cleanup", "clear", "rollback", "restore", "discard"}
    PROVE  Call(op, t, s, todo) \in Frame
BY DEF Call, Frame

\* The calls rest adopt no split of t and commit nothing.
Elsewhere(t, rest) ==
    /\ rest \in Seq(Frame)
    /\ CallersIn(rest)
    /\ \A i \in 1 .. Len(rest) : rest[i].op \notin Closing
    /\ rest # <<>> /\ rest[1].op = "adopt" => rest[1].t # t

LEMMA ElsewhereAdopts ==
    ASSUME NEW t \in Trans, NEW rest, Elsewhere(t, rest), NEW s
    PROVE  ~AdoptingIn(rest, t, s)
<1>1. ASSUME NEW i \in 1 .. Len(rest), rest[i] = Call("adopt", t, s, {}) PROVE FALSE
 <2>1. rest[i].op = "adopt" /\ rest[i].t = t
   BY <1>1, CallFields
 <2>2. i = 1 \/ rest[1].op \in Closing
   BY <2>1 DEF Elsewhere, CallersIn
 <2>3. Len(rest) \in Nat
   BY LenProperties DEF Elsewhere
 <2>4. 1 \in 1 .. Len(rest) /\ rest # <<>>
   BY <2>3
 <2>5. QED
   BY <2>1, <2>2, <2>4 DEF Elsewhere
<1>2. QED
  BY <1>1 DEF AdoptingIn

\* The loop over the splits of t starts.
LEMMA LoopStarts ==
    ASSUME NEW t \in Trans, NEW rest, Elsewhere(t, rest), NEW todo \in SUBSET Split,
           NEW op \in Closing, stack' = <<Call(op, t, None, todo)>> \o rest
    PROVE  /\ CallersIn(stack)'
           /\ \A u, s : AdoptingIn(stack', u, s) <=> AdoptingIn(rest, u, s)
           /\ Head(stack') = Call(op, t, None, todo)
           /\ \A u : Busy("clear", u)' => op = "clear" /\ u = t
<1> DEFINE f == Call(op, t, None, todo)
<1>1. f \in Frame /\ f.op = op /\ f.t = t
 <2>1. op \in {"close", "adopt", "cleanup", "clear", "rollback", "restore", "discard"}
   BY DEF Closing
 <2>2. f \in Frame
   BY <2>1, CallTypes
 <2>3. QED
   BY <2>2, CallFields
<1> HIDE DEF f
<1>2. CallersIn(<<f>> \o rest)
  BY <1>1, ClosingCallers DEF Elsewhere
<1>3. f.op # "adopt"
  BY <1>1 DEF Closing
<1>4. \A u, s : AdoptingIn(<<f>> \o rest, u, s) <=> AdoptingIn(rest, u, s)
  BY <1>1, <1>3, CalledAdopting DEF Elsewhere
<1>5. Head(<<f>> \o rest) = f
  BY <1>1, PushFacts DEF Elsewhere
<1>6. stack' = <<f>> \o rest
  BY DEF f
<1>7. Head(stack') = f
  BY <1>5, <1>6
<1>8. \A u : Busy("clear", u)' => op = "clear" /\ u = t
  BY <1>1, <1>7 DEF Busy
<1>9. QED
  BY <1>2, <1>4, <1>6, <1>7, <1>8 DEF f

\* xaccTransCommitEdit of t.
LEMMA CommitMoves ==
    ASSUME FieldTypes, FieldTypes', MoveOK, CanFail = FALSE, NEW t \in Trans, NEW rest,
           Elsewhere(t, rest), CommitCall(t, rest),
           \A u \in Trans, s \in Split : AdoptingIn(stack, u, s) <=> AdoptingIn(rest, u, s),
           \A u \in Trans : ~Busy("clear", u)
    PROVE  MoveOK'
<1>1. /\ \A u \in Trans : trans[u] \in TransRec
      /\ \A s \in Split : split[s] \in SplitRec
      /\ DOMAIN trans = Trans /\ DOMAIN split = Split
  BY DEF FieldTypes
<1>2. \A s \in Split : ~AdoptingIn(stack, t, s)
  BY ElsewhereAdopts
<1>3. \A s \in Split : split[s].live /\ split[s].parent = t => s \in trans[t].splits
  BY <1>2 DEF MoveOK, Listed
<1>4. trans[t].editlevel \in {1} \/ trans[t].editlevel > 1
  BY DEF CommitCall
<1>5. trans[t].live
  BY <1>1, <1>4 DEF MoveOK, Buried, TransRec
<1>6. CASE trans[t].editlevel > 1
 <2>1. trans' = [trans EXCEPT ![t].editlevel = @ - 1] /\ stack' = rest /\ split' = split
   BY <1>6 DEF CommitCall
 <2>2. CallersIn(stack)'
   BY <2>1 DEF Elsewhere
 <2>3. \A u \in Trans : ~Busy("clear", u)'
  <3>1. SUFFICES ASSUME rest # <<>>, Head(rest).op = "clear" PROVE FALSE
    BY <2>1 DEF Busy
  <3>2. rest \in Seq(Frame)
    BY DEF Elsewhere
  <3>3. Head(rest) = rest[1] /\ 1 \in 1 .. Len(rest)
    BY <3>1, <3>2, TailFacts
  <3>4. QED
    BY <3>1, <3>3 DEF Elsewhere, Closing
 <2>4. \A u \in Trans : /\ trans'[u].live = trans[u].live
                        /\ trans'[u].splits = trans[u].splits
                        /\ trans'[u].editlevel <= trans[u].editlevel
   BY <1>1, <2>1 DEF TransRec
 <2>5. \A s \in Split, u \in Trans : AdoptingIn(stack, u, s) => AdoptingIn(stack', u, s)
   BY <2>1
 <2>6. \A s \in Split : split'[s] = split[s]
   BY <2>1
 <2>7. QED
   BY <2>2, <2>3, <2>4, <2>5, <2>6, MoveStep
<1>7. CASE CommitKept(t, rest)
 <2>1. PICK listed \in SUBSET Split :
         /\ StoreTrans(t, listed, rest)
         /\ trans[t].splits \subseteq listed
         /\ \A s \in Split :
              split'[s].live => \/ split[s].live /\ split'[s].parent = split[s].parent
                                \/ split'[s].parent = t /\ s \in listed
  <3>1. CASE StoreTrans(t, trans[t].splits, rest) /\ split' = split
   <4>1. trans[t].splits \in SUBSET Split
     BY <1>1 DEF TransRec
   <4>2. \A s \in Split : split'[s] = split[s]
     BY <3>1
   <4>3. QED
     BY <3>1, <4>1, <4>2
  <3>2. ASSUME NEW b \in BalanceSplits(t), NEW new \in Amount,
               split' = Balanced(t, b, new), StoreTrans(t, trans[t].splits \cup {b}, rest)
        PROVE  \E listed \in SUBSET Split :
                  /\ StoreTrans(t, listed, rest)
                  /\ trans[t].splits \subseteq listed
                  /\ \A s \in Split :
                       split'[s].live => \/ split[s].live /\ split'[s].parent = split[s].parent
                                         \/ split'[s].parent = t /\ s \in listed
   <4>1. b \in Split /\ trans[t].splits \in SUBSET Split
     BY <1>1 DEF BalanceSplits, Owned, TransRec
   <4>2. \A s \in Split : s # b => split'[s] = split[s]
     BY <1>1, <3>2 DEF Balanced
   <4>3. split'[b].parent = t \/ (split[b].live /\ split'[b].parent = split[b].parent)
    <5>1. split'[b] = IF ~split[b].live THEN NewSplit(t, Imbalance, new)
                      ELSE IF new = 0 THEN [split[b] EXCEPT !.dirty = TRUE, !.do_free = TRUE]
                      ELSE [split[b] EXCEPT !.dirty = TRUE, !.amount = new]
      BY <1>1, <3>2, <4>1 DEF Balanced
    <5>2. split[b] \in SplitRec
      BY <1>1, <4>1
    <5>3. QED
      BY <5>1, <5>2 DEF NewSplit, SplitRec
   <4>4. QED
     BY <3>2, <4>1, <4>2, <4>3
  <3>3. QED
    BY <1>7, <3>1, <3>2 DEF CommitKept
 <2>2. /\ stack' = <<Call("cleanup", t, None, listed)>> \o rest
       /\ trans' = [trans EXCEPT ![t].dirty = FALSE, ![t].splits = listed]
   BY <2>1, NoRefusal DEF StoreTrans
 <2>3. /\ CallersIn(stack)' /\ \A u \in Trans : ~Busy("clear", u)'
       /\ \A u, s : AdoptingIn(stack', u, s) <=> AdoptingIn(rest, u, s)
   BY <2>2, LoopStarts DEF Closing
 <2>4. \A u \in Trans : /\ trans'[u].live = trans[u].live
                        /\ trans[u].splits \subseteq trans'[u].splits
                        /\ trans'[u].editlevel <= trans[u].editlevel
   BY <1>1, <2>1, <2>2 DEF TransRec
 <2>5. trans'[t].splits = listed
   BY <1>1, <2>2 DEF TransRec
 <2>6. \A s \in Split, u \in Trans : split'[s].live /\ split'[s].parent = u =>
          \/ split[s].live /\ split[s].parent = u
          \/ u = t /\ s \in listed
   BY <2>1
 <2>7. QED
   BY <1>5, <2>3, <2>4, <2>5, <2>6, MoveStep
<1>8. CASE CommitDestroyed(t, rest)
 <2> DEFINE mine == {s \in trans[t].splits : split[s].parent = t}
 <2>1. /\ split' = [s \in Split |-> IF s \in mine
                                    THEN [split[s] EXCEPT !.dirty = TRUE, !.do_free = TRUE]
                                    ELSE split[s]]
       /\ trans' = [trans EXCEPT ![t].do_free = TRUE]
       /\ stack' = <<Call("clear", t, None, mine)>> \o rest
  <3>1. Answers = {TRUE}
    BY NoRefusal
  <3> HIDE DEF mine
  <3>2. QED
    BY <1>8, <3>1 DEF CommitDestroyed, mine
 <2>2. mine \in SUBSET Split
   BY <1>1 DEF TransRec
 <2>3. \A s \in Split : /\ split'[s].live = split[s].live /\ split'[s].parent = split[s].parent
                        /\ s \in mine => split'[s].dirty /\ split'[s].do_free
  <3> HIDE DEF mine
  <3>1. QED
    BY <1>1, <2>1 DEF SplitRec
 <2>4. \A s \in Split : split[s].live /\ split[s].parent = t => s \in mine
   BY <1>3
 <2> HIDE DEF mine
 <2>5. /\ CallersIn(stack)'
       /\ \A u, s : AdoptingIn(stack', u, s) <=> AdoptingIn(rest, u, s)
       /\ Head(stack') = Call("clear", t, None, mine)
       /\ \A u : Busy("clear", u)' => u = t
   BY <2>1, <2>2, LoopStarts DEF Closing
 <2>6. Head(stack').todo = mine
   BY <2>5, CallFields
 <2>7. \A u \in Trans : /\ trans'[u].live = trans[u].live
                        /\ trans'[u].splits = trans[u].splits
                        /\ trans'[u].editlevel <= trans[u].editlevel
  <3>1. trans' = [trans EXCEPT ![t].do_free = TRUE]
    BY <2>1
  <3>2. QED
    BY <1>1, <3>1 DEF TransRec
 <2>8. QED
   BY <2>3, <2>4, <2>5, <2>6, <2>7, MoveStep
<1>9. QED
  BY <1>6, <1>7, <1>8 DEF CommitCall

\* A call returns, or a loop advances: the calls below it are what they were.
LEMMA ReturnedCalls ==
    ASSUME FieldTypes, MoveOK, stack # <<>>, stack' = Tail(stack)
    PROVE  /\ CallersIn(stack)'
           /\ \A u \in Trans : ~Busy("clear", u)'
           /\ Head(stack).op # "adopt" =>
                \A u, x : AdoptingIn(stack', u, x) <=> AdoptingIn(stack, u, x)
<1>1. stack \in Seq(Frame) /\ CallersIn(stack)
  BY DEF FieldTypes, MoveOK
<1>2. CallersIn(Tail(stack)) /\ \A i \in 1 .. Len(Tail(stack)) : Tail(stack)[i].op \notin Closing
  BY <1>1, ReturnCallers
<1>3. ASSUME NEW u \in Trans, Busy("clear", u)' PROVE FALSE
 <2>1. Tail(stack) # <<>> /\ Head(Tail(stack)).op = "clear" /\ Tail(stack) \in Seq(Frame)
   BY <1>1, <1>3, TailFacts DEF Busy
 <2>2. Head(Tail(stack)) = Tail(stack)[1] /\ 1 \in 1 .. Len(Tail(stack))
   BY <2>1, TailFacts
 <2>3. QED
   BY <1>2, <2>1, <2>2 DEF Closing
<1>4. Head(stack).op # "adopt" =>
        \A u, x : AdoptingIn(Tail(stack), u, x) <=> AdoptingIn(stack, u, x)
  BY <1>1, ReturnAdopting
<1>5. QED
  BY <1>2, <1>3, <1>4

LEMMA VisitedCalls ==
    ASSUME FieldTypes, MoveOK, NEW s \in Split, stack # <<>>, stack' = Visited(s),
           Head(stack).op # "adopt"
    PROVE  /\ CallersIn(stack)'
           /\ stack' \in Seq(Frame) /\ Len(stack') = Len(stack)
           /\ Head(stack').op = Head(stack).op /\ Head(stack').t = Head(stack).t
           /\ Head(stack').todo = Head(stack).todo \ {s}
           /\ \A u, x : AdoptingIn(stack', u, x) <=> AdoptingIn(stack, u, x)
           /\ \A i \in 1 .. Len(stack) : stack'[i].op = stack[i].op
<1> DEFINE f == [Head(stack) EXCEPT !.todo = @ \ {s}]
<1>1. /\ stack \in Seq(Frame) /\ CallersIn(stack)
  BY DEF FieldTypes, MoveOK
<1>2. /\ Tail(stack) \in Seq(Frame) /\ Len(stack) \in Nat /\ Len(stack) > 0
      /\ Len(Tail(stack)) = Len(stack) - 1 /\ Head(stack) = stack[1] /\ Head(stack) \in Frame
      /\ \A i \in 1 .. Len(stack) : i = 1 \/ stack[i] = Tail(stack)[i - 1]
  BY <1>1, TailFacts
<1>3. /\ f \in Frame /\ f.op = Head(stack).op /\ f.t = Head(stack).t
      /\ f.todo = Head(stack).todo \ {s}
  BY <1>2 DEF Frame
<1>4. stack' = <<f>> \o Tail(stack)
  BY DEF Visited
<1> HIDE DEF f
<1>5. /\ stack' \in Seq(Frame) /\ Len(stack') = Len(Tail(stack)) + 1
      /\ Head(stack') = f /\ stack'[1] = f
      /\ \A i \in 1 .. Len(Tail(stack)) + 1 : i = 1 \/ stack'[i] = Tail(stack)[i - 1]
  BY <1>2, <1>3, <1>4, PushFacts
<1>6. Len(stack') = Len(stack) /\ \A i \in 1 .. Len(stack) : i # 1 => stack'[i] = stack[i]
  BY <1>2, <1>5
<1>7. \A i \in 1 .. Len(stack) : stack'[i].op = stack[i].op
  BY <1>2, <1>3, <1>5, <1>6
<1>8. ASSUME NEW i \in 1 .. Len(stack')
      PROVE  /\ stack'[i].op \in Closing => i = 1
             /\ stack'[i].op = "adopt" =>
                  /\ stack'[i] = Call("adopt", stack'[i].t, stack'[i].s, {})
                  /\ i = 1 \/ (i = 2 /\ stack'[1].op \in Closing /\ stack'[1].t # stack'[2].t)
             /\ stack'[i].op = "rollback" => i = Len(stack')
 <2>1. i \in 1 .. Len(stack) /\ stack'[i].op = stack[i].op
   BY <1>6, <1>7
 <2>2. /\ stack[i].op \in Closing => i = 1
       /\ stack[i].op = "adopt" =>
            /\ stack[i] = Call("adopt", stack[i].t, stack[i].s, {})
            /\ i = 1 \/ (i = 2 /\ stack[1].op \in Closing /\ stack[1].t # stack[2].t)
       /\ stack[i].op = "rollback" => i = Len(stack)
   BY <1>1, <2>1 DEF CallersIn
 <2>3. ASSUME stack[i].op = "adopt"
       PROVE  /\ stack'[i] = Call("adopt", stack'[i].t, stack'[i].s, {})
              /\ i = 2 /\ stack'[1].op \in Closing /\ stack'[1].t # stack'[2].t
  <3>1. i # 1
    BY <1>2, <2>3
  <3>2. i = 2 /\ stack'[2] = stack[2] /\ stack[1].op \in Closing /\ stack[1].t # stack[2].t
    BY <1>6, <2>1, <2>2, <2>3, <3>1
  <3>3. stack'[1].op = stack[1].op /\ stack'[1].t = stack[1].t
    BY <1>2, <1>3, <1>5
  <3>4. QED
    BY <2>2, <2>3, <3>2, <3>3
 <2>4. QED
   BY <1>6, <2>1, <2>2, <2>3
<1>9. CallersIn(stack)'
  BY <1>8 DEF CallersIn
<1>10. ASSUME NEW u, NEW x PROVE AdoptingIn(stack', u, x) <=> AdoptingIn(stack, u, x)
 <2>1. /\ stack'[1] # Call("adopt", u, x, {})
       /\ stack[1] # Call("adopt", u, x, {})
   BY <1>2, <1>3, <1>5, CallFields
 <2>2. \A i \in 1 .. Len(stack) :
         stack'[i] = Call("adopt", u, x, {}) <=> stack[i] = Call("adopt", u, x, {})
   BY <1>6, <2>1
 <2>3. QED
   BY <1>6, <2>2 DEF AdoptingIn
<1>11. QED
  BY <1>3, <1>5, <1>6, <1>7, <1>9, <1>10

\* A rollback is the outermost call.
LEMMA RollbackAlone ==
    ASSUME FieldTypes, MoveOK, stack # <<>>, Head(stack).op = "rollback"
    PROVE  /\ Len(stack) = 1 /\ stack[1].op = "rollback"
           /\ \A u, x : ~AdoptingIn(stack, u, x)
<1>1. stack \in Seq(Frame) /\ CallersIn(stack)
  BY DEF FieldTypes, MoveOK
<1>2. Head(stack) = stack[1] /\ Len(stack) \in Nat /\ Len(stack) > 0
  BY <1>1, TailFacts
<1>3. 1 \in 1 .. Len(stack)
  BY <1>2
<1>4. Len(stack) = 1
  BY <1>1, <1>2, <1>3 DEF CallersIn
<1>5. \A u, x : stack[1] # Call("adopt", u, x, {})
  BY <1>2, CallFields
<1>6. \A u, x : ~AdoptingIn(stack, u, x)
  BY <1>4, <1>5 DEF AdoptingIn
<1>7. QED
  BY <1>2, <1>4, <1>6

\* The last call of a commit or of a rollback's loop leaves the parents alone.
LEMMA QuietMoves ==
    ASSUME FieldTypes, FieldTypes', MoveOK, CallersIn(stack)',
           \A u \in Trans : ~Busy("clear", u)',
           \A u \in Trans, x \in Split : AdoptingIn(stack, u, x) => AdoptingIn(stack', u, x),
           \A x \in Split : split'[x].live =>
              split[x].live /\ split'[x].parent = split[x].parent,
           \A u \in Trans : /\ trans'[u].live = trans[u].live
                            /\ trans'[u].editlevel <= trans[u].editlevel,
           \A u \in Trans, x \in Split :
              split'[x].live /\ split'[x].parent = u /\ x \in trans[u].splits
                => x \in trans'[u].splits
    PROVE  MoveOK'
BY MoveStep

LEMMA EndMoves ==
    ASSUME FieldTypes, FieldTypes', MoveOK, NEW t \in Trans,
           RollbackEdit(t) \/ CleanupDone(t) \/ RollbackDone(t)
           \/ \E s \in Split : Restore(t, s)
    PROVE  MoveOK'
<1>1. /\ trans[t] \in TransRec /\ DOMAIN trans = Trans /\ DOMAIN split = Split
      /\ \A u \in Trans : trans[u].editlevel \in Int /\ trans[u].editlevel - 1 <= trans[u].editlevel
      /\ \A s \in Split : split[s] \in SplitRec
 <2>1. \A u \in Trans : trans[u] \in TransRec
   BY DEF FieldTypes
 <2>2. \A u \in Trans : trans[u].editlevel \in Int
   BY <2>1 DEF TransRec
 <2>3. DOMAIN trans = Trans /\ DOMAIN split = Split /\ \A s \in Split : split[s] \in SplitRec
   BY DEF FieldTypes
 <2>4. QED
   BY <2>1, <2>2, <2>3
<1>2. ASSUME RollbackEdit(t) PROVE MoveOK'
 <2>1. stack = <<>> /\ split' = split
   BY <1>2 DEF RollbackEdit, Idle
 <2>2. \/ trans' = [trans EXCEPT ![t].editlevel = @ - 1] /\ stack' = <<>>
       \/ /\ trans' = [trans EXCEPT ![t].description = trans[t].orig.description]
          /\ stack' = <<Call("rollback", t, None, trans[t].splits)>>
   BY <1>2, <2>1 DEF RollbackEdit
 <2>3. \A u \in Trans : /\ trans'[u].live = trans[u].live
                        /\ trans'[u].splits = trans[u].splits
                        /\ trans'[u].editlevel <= trans[u].editlevel
   BY <1>1, <2>2 DEF TransRec
 <2>4. CallersIn(stack)' /\ \A u \in Trans : ~Busy("clear", u)'
  <3>1. CASE stack' = <<>>
    BY <3>1, NoCalls DEF Busy
  <3>2. CASE stack' = <<Call("rollback", t, None, trans[t].splits)>>
    BY <3>2, CallFields DEF CallersIn, Closing, Busy
  <3>3. QED
    BY <2>2, <3>1, <3>2
 <2>5. \A u, x : ~AdoptingIn(stack, u, x)
   BY <2>1, NoCalls
 <2>6. \A x \in Split : split'[x] = split[x]
   BY <2>1
 <2>7. QED
   BY <2>3, <2>4, <2>5, <2>6, QuietMoves
<1>3. ASSUME CleanupDone(t) \/ RollbackDone(t) \/ \E s \in Split : Restore(t, s)
      PROVE MoveOK'
 <2>1. /\ stack # <<>> /\ Head(stack).op # "adopt" /\ stack' = Tail(stack)
   BY <1>3 DEF CleanupDone, RollbackDone, LoopDone, Restore, Under
 <2>2. /\ CallersIn(stack)' /\ \A u \in Trans : ~Busy("clear", u)'
       /\ \A u, x : AdoptingIn(stack', u, x) <=> AdoptingIn(stack, u, x)
   BY <2>1, ReturnedCalls
 <2>3. \A u \in Trans : /\ trans'[u].live = trans[u].live
                        /\ trans'[u].splits = trans[u].splits
                        /\ trans'[u].editlevel <= trans[u].editlevel
  <3>1. \/ trans' = trans
        \/ trans' = [trans EXCEPT ![t].editlevel = @ - 1, ![t].orig = NoCopy]
        \/ trans' = [trans EXCEPT ![t].editlevel = @ - 1, ![t].orig = NoCopy,
                                  ![t].do_free = FALSE]
    BY <1>3 DEF CleanupDone, RollbackDone, Restore
  <3>2. CASE trans' = trans
    BY <1>1, <3>2
  <3>3. CASE trans' = [trans EXCEPT ![t].editlevel = @ - 1, ![t].orig = NoCopy]
    BY <1>1, <3>3 DEF TransRec
  <3>4. CASE trans' = [trans EXCEPT ![t].editlevel = @ - 1, ![t].orig = NoCopy,
                                    ![t].do_free = FALSE]
    BY <1>1, <3>4 DEF TransRec
  <3>5. QED
    BY <3>1, <3>2, <3>3, <3>4
 <2>4. \A x \in Split : split'[x].live = split[x].live /\ split'[x].parent = split[x].parent
  <3>1. CASE split' = split
    BY <3>1
  <3>2. ASSUME NEW s \in Split, Restore(t, s)
        PROVE  \A x \in Split : split'[x].live = split[x].live /\ split'[x].parent = split[x].parent
   <4>1. split' = [split EXCEPT ![s].amount = trans[t].orig.amount[s],
                                ![s].reconciled = trans[t].orig.reconciled[s],
                                ![s].dirty = FALSE]
     BY <3>2 DEF Restore
   <4>2. QED
     BY <1>1, <4>1 DEF SplitRec
  <3>3. QED
    BY <1>3, <3>1, <3>2 DEF CleanupDone, RollbackDone
 <2>5. QED
   BY <2>2, <2>3, <2>4, QuietMoves
<1>4. QED
  BY <1>2, <1>3

\* One split of the loop of trans_cleanup_commit.
LEMMA CleanupMoves ==
    ASSUME FieldTypes, FieldTypes', MoveOK, CanFail = FALSE, NEW t \in Trans, NEW s \in Split,
           CleanupSplit(t, s)
    PROVE  MoveOK'
<1>1. stack # <<>> /\ Head(stack).op = "cleanup" /\ stack' = Visited(s)
  BY DEF CleanupSplit, Visiting, Under
<1>2. /\ CallersIn(stack)' /\ \A u, x : AdoptingIn(stack', u, x) <=> AdoptingIn(stack, u, x)
      /\ \A u \in Trans : ~Busy("clear", u)'
  BY <1>1, VisitedCalls DEF Busy
<1>3. \A x \in Split : split'[x].live =>
        /\ split[x].live /\ split'[x].parent = split[x].parent
        /\ x = s /\ split[s].parent = t => ~split[s].do_free
 <2>1. CASE split[s].parent # t
  <3>1. split' = split
    BY <2>1 DEF CleanupSplit
  <3>2. QED
    BY <2>1, <3>1
 <2>2. CASE split[s].parent = t
  <3>1. PICK ok \in Answers : CommitSplit(s, ok)
    BY <2>2 DEF CleanupSplit
  <3>2. ok = TRUE
    BY <3>1, NoRefusal
  <3>3. /\ \A x \in Split \ {s} : split'[x] = split[x]
        /\ \/ split'[s] = FreedSplit
           \/ /\ ~split[s].do_free /\ split'[s].live = split[s].live
              /\ split'[s].parent = split[s].parent
    BY <3>1, <3>2, CommitSplitResult
  <3>4. ~FreedSplit.live
    BY DEF FreedSplit
  <3>5. QED
    BY <3>3, <3>4
 <2>3. QED
   BY <2>1, <2>2
<1>4. \/ trans' = trans
      \/ /\ trans' = [trans EXCEPT ![t].splits = @ \ {s}]
         /\ split[s].parent # t \/ split[s].do_free
  BY DEF CleanupSplit, StillHasSplit
<1>5. /\ \A u \in Trans : trans'[u].live = trans[u].live /\ trans'[u].editlevel = trans[u].editlevel
      /\ \A u \in Trans, x \in Split : x \in trans[u].splits =>
           \/ x \in trans'[u].splits
           \/ u = t /\ x = s /\ (split[s].parent # t \/ split[s].do_free)
 <2>1. trans \in [Trans -> TransRec]
   BY DEF FieldTypes
 <2>2. QED
   BY <1>4, <2>1 DEF TransRec
<1>6. \A u \in Trans : trans[u].editlevel \in Int
  BY DEF FieldTypes, TransRec
<1>7. QED
  BY <1>2, <1>3, <1>5, <1>6, QuietMoves

\* One split of a transaction that is being destroyed: committed, it is freed.
LEMMA ClearMoves ==
    ASSUME FieldTypes, FieldTypes', MoveOK, CanFail = FALSE, NEW t \in Trans, NEW s \in Split,
           ClearSplit(t, s)
    PROVE  MoveOK'
<1>1. /\ stack # <<>> /\ Head(stack).op = "clear" /\ Head(stack).t = t
      /\ stack' = Visited(s) /\ trans' = trans
  BY DEF ClearSplit, Visiting, Under
<1>2. /\ CallersIn(stack)' /\ \A u, x : AdoptingIn(stack', u, x) <=> AdoptingIn(stack, u, x)
      /\ Head(stack').todo = Head(stack).todo \ {s} /\ Head(stack').t = t
  BY <1>1, VisitedCalls
<1>3. \A x \in Split : split[x].live /\ split[x].parent = t =>
        x \in Head(stack).todo /\ split[x].dirty /\ split[x].do_free
  BY <1>1 DEF MoveOK, Doomed, Busy
<1>4. /\ \A x \in Split : x # s => split'[x] = split[x]
      /\ split'[s] = split[s] \/ ~split'[s].live
      /\ split[s].parent = t => ~split'[s].live
 <2>1. CASE split[s].parent = t /\ split[s].dirty
  <3>1. PICK ok \in Answers : CommitSplit(s, ok)
    BY <2>1 DEF ClearSplit
  <3>2. ok = TRUE
    BY <3>1, NoRefusal
  <3>3. /\ \A x \in Split \ {s} : split'[x] = split[x]
        /\ \/ split'[s] = FreedSplit
           \/ ~split[s].do_free /\ split'[s].live = split[s].live
    BY <3>1, <3>2, CommitSplitResult
  <3>4. ~FreedSplit.live
    BY DEF FreedSplit
  <3>5. split[s].live => split[s].do_free
    BY <1>3, <2>1
  <3>6. split[s].live \in BOOLEAN
    BY DEF FieldTypes, SplitRec
  <3>7. ~split'[s].live
    BY <3>3, <3>4, <3>5, <3>6
  <3>8. QED
    BY <3>3, <3>7
 <2>2. CASE ~(split[s].parent = t /\ split[s].dirty)
  <3>1. split' = split
    BY <2>2 DEF ClearSplit
  <3>2. split[s].parent = t => ~split[s].live
    BY <1>3, <2>2
  <3>3. QED
    BY <3>1, <3>2
 <2>3. QED
   BY <2>1, <2>2
<1>5. \A u \in Trans : Busy("clear", u)' =>
        \A x \in Split : split'[x].live /\ split'[x].parent = u =>
            x \in Head(stack').todo /\ split'[x].dirty /\ split'[x].do_free
 <2>1. \A u \in Trans : Busy("clear", u)' => u = t
   BY <1>2 DEF Busy
 <2>2. ASSUME NEW x \in Split, split'[x].live, split'[x].parent = t
       PROVE  x \in Head(stack').todo /\ split'[x].dirty /\ split'[x].do_free
   BY <1>2, <1>3, <2>2, <1>4
 <2>3. QED
   BY <2>1, <2>2
<1>6. \A u \in Trans : trans[u].editlevel \in Int
  BY DEF FieldTypes, TransRec
<1>7. \A x \in Split : split'[x].live => split[x].live /\ split'[x].parent = split[x].parent
  BY <1>4
<1>8. QED
  BY <1>1, <1>2, <1>5, <1>6, <1>7, MoveStep

\* xaccFreeTransaction: the loop left it no split.
LEMMA FreeMoves ==
    ASSUME FieldTypes, FieldTypes', MoveOK, NEW t \in Trans, FreeTransaction(t)
    PROVE  MoveOK'
<1>1. /\ stack # <<>> /\ Head(stack).op = "clear" /\ Head(stack).t = t
      /\ Head(stack).todo = {} /\ stack' = Tail(stack) /\ split' = split
      /\ trans' = [trans EXCEPT ![t] = FreedTrans]
  BY DEF FreeTransaction, LoopDone, Under
<1>2. /\ CallersIn(stack)' /\ \A u \in Trans : ~Busy("clear", u)'
      /\ \A u, x : AdoptingIn(stack', u, x) <=> AdoptingIn(stack, u, x)
  BY <1>1, ReturnedCalls
<1>3. \A s \in Split : split[s].live => split[s].parent # t
  BY <1>1 DEF MoveOK, Doomed, Busy
<1>4. /\ trans'[t] = FreedTrans /\ FreedTrans.editlevel = 0
      /\ \A u \in Trans : u # t => trans'[u] = trans[u]
  BY <1>1 DEF FreedTrans, FieldTypes
<1>5. Listed'
 <2>1. SUFFICES ASSUME NEW s \in Split, NEW u \in Trans, split'[s].live, split'[s].parent = u
                PROVE  s \in trans'[u].splits \/ AdoptingIn(stack', u, s)
   BY DEF Listed
 <2>2. split[s].live /\ split[s].parent = u
   BY <1>1, <2>1
 <2>3. u # t
   BY <1>3, <2>2
 <2>4. s \in trans[u].splits \/ AdoptingIn(stack, u, s)
   BY <2>2 DEF MoveOK, Listed
 <2>5. QED
   BY <1>2, <1>4, <2>3, <2>4
<1>6. Buried'
 <2>1. SUFFICES ASSUME NEW u \in Trans, ~trans'[u].live
                PROVE  /\ trans'[u].editlevel <= 0
                       /\ \A s \in Split : split'[s].live => split'[s].parent # u
   BY DEF Buried
 <2>2. CASE u = t
   BY <1>1, <1>3, <1>4, <2>2
 <2>3. CASE u # t
   BY <1>1, <1>4, <2>1, <2>3 DEF MoveOK, Buried
 <2>4. QED
   BY <2>2, <2>3
<1>7. QED
  BY <1>2, <1>5, <1>6 DEF MoveOK, Doomed

\* xaccSplitSetParent(s, t), called while nothing is being committed.
LEMMA SetParentMoves ==
    ASSUME FieldTypes, FieldTypes', MoveOK, fault = "none", fault' = "none",
           NEW sp \in [Split -> SplitRec], NEW s \in Split, NEW t \in Trans \cup {None},
           NEW rest \in Seq(Frame),
           \A x \in Split : sp[x].live = split[x].live /\ sp[x].parent = split[x].parent,
           \A u, x : ~AdoptingIn(stack, u, x),
           CallersIn(rest), \A i \in 1 .. Len(rest) : rest[i].op \notin Closing \cup {"adopt"},
           SetParentCall(sp, s, t, rest)
    PROVE  MoveOK'
<1>1. Len(rest) \in Nat
  BY LenProperties
<1>2. CASE sp[s].parent = t
 <2>1. split' = sp /\ stack' = rest /\ trans' = trans
   BY <1>2 DEF SetParentCall
 <2>2. \A u \in Trans : ~Busy("clear", u)'
  <3>1. SUFFICES ASSUME rest # <<>>, Head(rest).op = "clear" PROVE FALSE
    BY <2>1 DEF Busy
  <3>2. Head(rest) = rest[1] /\ 1 \in 1 .. Len(rest)
    BY <3>1, TailFacts
  <3>3. QED
    BY <3>1, <3>2 DEF Closing
 <2>3. CallersIn(stack)'
   BY <2>1
 <2>4. \A u \in Trans : trans[u].editlevel \in Int
   BY DEF FieldTypes, TransRec
 <2>5. QED
   BY <2>1, <2>2, <2>3, <2>4, QuietMoves
<1>3. CASE sp[s].parent # t
 <2> DEFINE old == sp[s].parent
            both == {t, old} \ {None}
            f == Call("close", old, None, {})
            g == Call("adopt", t, s, {})
 <2>1. /\ split' = [sp EXCEPT ![s].parent = t] /\ trans' = Begun(both)
       /\ stack' = <<f, g>> \o rest
       /\ \A x \in both : trans[x].live
   BY <1>3 DEF SetParentCall
 <2>2. old \in Trans \cup {None}
   BY DEF SplitRec
 <2>3. /\ f \in Frame /\ g \in Frame
       /\ f.op = "close" /\ f.t = old /\ g.op = "adopt" /\ g.t = t /\ g.s = s
       /\ g = Call("adopt", g.t, g.s, {})
  <3>1. f \in Frame /\ g \in Frame
    BY <2>2, CallTypes
  <3>2. /\ f.op = "close" /\ f.t = old /\ g.op = "adopt" /\ g.t = t /\ g.s = s
    BY CallFields
  <3>3. g = Call("adopt", g.t, g.s, {})
    BY <3>2
  <3>4. QED
    BY <3>1, <3>2, <3>3
 <2>4. old # t
   BY <1>3
 <2>5. \A x \in Split : /\ split'[x].live = split[x].live
                        /\ split'[x].parent = IF x = s THEN t ELSE split[x].parent
   BY <2>1 DEF SplitRec
 <2>6. both \in SUBSET Trans
   BY <2>2
 <2> HIDE DEF old, both, f, g
 <2>7. \A u \in Trans : /\ trans'[u].live = trans[u].live /\ trans'[u].splits = trans[u].splits
                        /\ u \notin both => trans'[u] = trans[u]
  <3>1. trans' = Begun(both) /\ trans \in [Trans -> TransRec]
    BY <2>1 DEF FieldTypes
  <3>2. QED
    BY <3>1 DEF Begun, TransRec
 <2>8. \A u \in Trans : ~trans'[u].live => trans'[u].editlevel <= trans[u].editlevel
   BY <2>1, <2>7 DEF FieldTypes, TransRec
 <2>9. /\ <<f, g>> \in Seq(Frame) /\ Len(<<f, g>>) = 2 /\ <<f, g>>[1] = f /\ <<f, g>>[2] = g
   BY <2>3
 <2>10. /\ Len(stack') = Len(rest) + 2 /\ stack'[1] = f /\ stack'[2] = g
        /\ \A i \in 1 .. Len(rest) + 2 : i = 1 \/ i = 2 \/ stack'[i] = rest[i - 2]
  <3>1. /\ Len(<<f, g>> \o rest) = Len(<<f, g>>) + Len(rest)
        /\ \A i \in 1 .. Len(<<f, g>>) + Len(rest) :
             (<<f, g>> \o rest)[i] = IF i <= Len(<<f, g>>) THEN <<f, g>>[i]
                                     ELSE rest[i - Len(<<f, g>>)]
    BY <2>9, ConcatProperties
  <3> DEFINE r == <<f, g>> \o rest
             p == <<f, g>>
  <3>2. /\ Len(r) = 2 + Len(rest) /\ p[1] = f /\ p[2] = g
        /\ \A i \in 1 .. 2 + Len(rest) : r[i] = IF i <= 2 THEN p[i] ELSE rest[i - 2]
    BY <2>9, <3>1
  <3>3. stack' = r
    BY <2>1
  <3> HIDE DEF r, p
  <3>4. QED
    BY <1>1, <3>2, <3>3
 <2>11. ASSUME NEW i \in 1 .. Len(stack')
        PROVE  /\ stack'[i].op \in Closing => i = 1
               /\ stack'[i].op = "adopt" =>
                    /\ stack'[i] = Call("adopt", stack'[i].t, stack'[i].s, {})
                    /\ i = 1 \/ (i = 2 /\ stack'[1].op \in Closing /\ stack'[1].t # stack'[2].t)
               /\ stack'[i].op = "rollback" => i = Len(stack')
  <3>1. CASE i = 1
    BY <2>3, <2>10, <3>1
  <3>2. CASE i = 2
   <4>1. stack'[1].op \in Closing /\ stack'[1].t # stack'[2].t
     BY <2>3, <2>4, <2>10 DEF Closing
   <4>2. stack'[2] = g /\ g.op = "adopt" /\ g = Call("adopt", g.t, g.s, {})
     BY <2>3, <2>10
   <4>3. QED
     BY <3>2, <4>1, <4>2 DEF Closing
  <3>3. CASE i # 1 /\ i # 2
   <4>1. stack'[i] = rest[i - 2] /\ i - 2 \in 1 .. Len(rest) /\ i \in Nat
     BY <1>1, <2>10, <3>3
   <4>2. rest[i - 2].op \notin Closing \cup {"adopt"}
     BY <4>1
   <4>3. rest[i - 2].op = "rollback" => i - 2 = Len(rest)
     BY <4>1 DEF CallersIn
   <4>4. QED
     BY <1>1, <2>10, <4>1, <4>2, <4>3
  <3>4. QED
    BY <3>1, <3>2, <3>3
 <2>12. CallersIn(stack)'
   BY <2>11 DEF CallersIn
 <2>13. AdoptingIn(stack', t, s)
   BY <1>1, <2>10 DEF AdoptingIn, g
 <2>14. \A u \in Trans : ~Busy("clear", u)'
  <3>1. stack' \in Seq(Frame)
    BY DEF FieldTypes
  <3>2. stack' # <<>> => Head(stack') = f
    BY <2>10, <3>1, TailFacts
  <3>3. QED
    BY <2>3, <3>2 DEF Busy
 <2>15. t \in Trans => trans'[t].live
  <3>1. t \in Trans => t # None
    BY TransEditAssumption
  <3>2. QED
    BY <2>1, <2>7, <3>1 DEF both
 <2>16. \A x \in Split, u \in Trans : split'[x].live /\ split'[x].parent = u =>
          \/ split[x].live /\ split[x].parent = u
          \/ x = s /\ u = t
   BY <2>5
 <2>17. QED
   BY <2>7, <2>8, <2>12, <2>13, <2>14, <2>15, <2>16, MoveStep
<1>4. QED
  BY <1>2, <1>3

LEMMA MovedMoves ==
    ASSUME FieldTypes, FieldTypes', MoveOK, fault' = "none", NEW t \in Trans, NEW s \in Split,
           MoveSplit(s, t)
    PROVE  MoveOK'
<1>1. stack = <<>> /\ fault = "none" /\ SetParentCall(split, s, t, <<>>)
  BY DEF MoveSplit, Idle
<1>2. /\ CallersIn(<<>>) /\ <<>> \in Seq(Frame) /\ \A u, x : ~AdoptingIn(stack, u, x)
      /\ \A i \in 1 .. Len(<<>>) : <<>>[i].op \notin Closing \cup {"adopt"}
  BY <1>1, NoCalls
<1>3. split \in [Split -> SplitRec]
  BY DEF FieldTypes
<1>4. QED
  BY <1>1, <1>2, <1>3, SetParentMoves

\* One split of the loop of xaccTransRollbackEdit.
LEMMA RollbackMoves ==
    ASSUME FieldTypes, FieldTypes', MoveOK, fault' = "none", NEW t \in Trans, NEW s \in Split,
           RollbackSplit(t, s)
    PROVE  MoveOK'
<1>1. /\ stack # <<>> /\ Head(stack).op = "rollback" /\ fault = "none" /\ stack \in Seq(Frame)
  BY DEF RollbackSplit, Visiting, Under, FieldTypes
<1>2. Len(stack) = 1 /\ stack[1].op = "rollback" /\ \A u, x : ~AdoptingIn(stack, u, x)
  BY <1>1, RollbackAlone
<1>3. /\ Visited(s) \in Seq(Frame) /\ Len(Visited(s)) = 1
      /\ Visited(s)[1].op = "rollback" /\ Head(Visited(s)).op = "rollback"
 <2>1. /\ Tail(stack) \in Seq(Frame) /\ Len(Tail(stack)) = 0 /\ Head(stack) \in Frame
   BY <1>1, <1>2, TailFacts
 <2> DEFINE f == [Head(stack) EXCEPT !.todo = @ \ {s}]
 <2>2. f \in Frame /\ f.op = "rollback"
   BY <1>1, <2>1 DEF Frame
 <2>3. Visited(s) = <<f>> \o Tail(stack)
   BY DEF Visited
 <2> HIDE DEF f
 <2>4. /\ <<f>> \o Tail(stack) \in Seq(Frame) /\ Len(<<f>> \o Tail(stack)) = 0 + 1
       /\ Head(<<f>> \o Tail(stack)) = f /\ (<<f>> \o Tail(stack))[1] = f
   BY <2>1, <2>2, PushFacts
 <2>5. QED
   BY <2>2, <2>3, <2>4
<1>4. \A u \in Trans : trans[u].editlevel \in Int
  BY DEF FieldTypes, TransRec
<1>5. CASE stack' = Visited(s) /\ split' = split
           /\ \/ trans' = trans
              \/ split[s].parent # t /\ trans' = [trans EXCEPT ![t].splits = @ \ {s}]
 <2>1. CallersIn(stack)' /\ \A u \in Trans : ~Busy("clear", u)'
  <3>1. /\ Len(stack') = 1 /\ stack'[1].op = "rollback" /\ Head(stack').op = "rollback"
    BY <1>3, <1>5
  <3>2. \A i \in 1 .. Len(stack') : i = 1 /\ stack'[i].op = "rollback"
    BY <3>1
  <3>3. CallersIn(stack)'
    BY <3>1, <3>2 DEF CallersIn, Closing
  <3>4. QED
    BY <3>1, <3>3 DEF Busy
 <2>2. /\ \A u \in Trans : /\ trans'[u].live = trans[u].live
                           /\ trans'[u].editlevel = trans[u].editlevel
       /\ \A u \in Trans, x \in Split : x \in trans[u].splits =>
            x \in trans'[u].splits \/ (u = t /\ x = s /\ split[s].parent # t)
  <3>1. trans \in [Trans -> TransRec]
    BY DEF FieldTypes
  <3>2. QED
    BY <1>5, <3>1 DEF TransRec
 <2>3. QED
   BY <1>2, <1>4, <1>5, <2>1, <2>2, QuietMoves
<1>6. ASSUME NEW op \in {"restore", "discard"},
             SetParentCall(Reverted(s), s, split[s].orig_parent,
                           <<Call(op, t, s, {})>> \o Visited(s))
      PROVE  MoveOK'
 <2> DEFINE h == Call(op, t, s, {})
            rest == <<h>> \o Visited(s)
 <2>1. h \in Frame /\ h.op = op
   BY CallTypes, CallFields
 <2>2. SetParentCall(Reverted(s), s, split[s].orig_parent, rest)
   BY <1>6
 <2> HIDE DEF h
 <2>3. /\ rest \in Seq(Frame) /\ Len(rest) = 2 /\ rest[1] = h
       /\ \A i \in 1 .. 2 : i = 1 \/ rest[i] = Visited(s)[i - 1]
  <3>1. /\ <<h>> \o Visited(s) \in Seq(Frame) /\ Len(<<h>> \o Visited(s)) = 1 + 1
        /\ (<<h>> \o Visited(s))[1] = h
        /\ \A i \in 1 .. 1 + 1 : i = 1 \/ (<<h>> \o Visited(s))[i] = Visited(s)[i - 1]
   <4> DEFINE q == Visited(s)
   <4>1. q \in Seq(Frame) /\ Len(q) = 1
     BY <1>3
   <4> HIDE DEF q
   <4>2. /\ <<h>> \o q \in Seq(Frame) /\ Len(<<h>> \o q) = 1 + 1
         /\ (<<h>> \o q)[1] = h
         /\ \A i \in 1 .. 1 + 1 : i = 1 \/ (<<h>> \o q)[i] = q[i - 1]
    <5>1. /\ <<h>> \o q \in Seq(Frame) /\ Len(<<h>> \o q) = Len(q) + 1
          /\ (<<h>> \o q)[1] = h
          /\ \A i \in 1 .. Len(q) + 1 : i = 1 \/ (<<h>> \o q)[i] = q[i - 1]
      BY <2>1, <4>1, PushFacts
    <5> DEFINE r == <<h>> \o q
    <5>2. /\ r \in Seq(Frame) /\ Len(r) = Len(q) + 1 /\ r[1] = h
          /\ \A i \in 1 .. Len(q) + 1 : i = 1 \/ r[i] = q[i - 1]
      BY <5>1
    <5> HIDE DEF r
    <5>3. /\ r \in Seq(Frame) /\ Len(r) = 1 + 1 /\ r[1] = h
          /\ \A i \in 1 .. 1 + 1 : i = 1 \/ r[i] = q[i - 1]
      BY <4>1, <5>2
    <5>4. QED
      BY <5>3 DEF r
   <4>3. QED
     BY <4>2 DEF q
  <3>2. 1 + 1 = 2
    OBVIOUS
  <3>3. QED
    BY <3>1, <3>2
 <2> HIDE DEF rest
 <2>4. rest[1].op = op /\ rest[2].op = "rollback"
   BY <1>3, <2>1, <2>3
 <2>5. /\ \A i \in 1 .. Len(rest) : rest[i].op \notin Closing \cup {"adopt"}
       /\ CallersIn(rest)
  <3>1. ASSUME NEW i \in 1 .. Len(rest)
        PROVE  /\ rest[i].op \notin Closing \cup {"adopt"}
               /\ rest[i].op = "rollback" => i = Len(rest)
   <4>1. i = 1 \/ i = 2
     BY <2>3
   <4>2. QED
     BY <2>3, <2>4, <4>1 DEF Closing
  <3>2. QED
    BY <3>1 DEF CallersIn
 <2>6. Reverted(s) \in [Split -> SplitRec]
       /\ \A x \in Split : /\ Reverted(s)[x].live = split[x].live
                           /\ Reverted(s)[x].parent = split[x].parent
   BY RevertedFields
 <2>7. split[s].orig_parent \in Trans \cup {None}
   BY DEF FieldTypes, SplitRec
 <2>8. QED
   BY <1>1, <1>2, <2>2, <2>3, <2>5, <2>6, <2>7, SetParentMoves
<1>7. \/ /\ stack' = Visited(s) /\ split' = split
         /\ \/ trans' = trans
            \/ split[s].parent # t /\ trans' = [trans EXCEPT ![t].splits = @ \ {s}]
      \/ SetParentCall(Reverted(s), s, split[s].orig_parent,
           <<Call(IF s \in trans[t].orig.splits THEN "restore" ELSE "discard", t, s, {})>>
           \o Visited(s))
  BY DEF RollbackSplit
<1>8. QED
 <2>1. CASE s \in trans[t].orig.splits
   BY <1>5, <1>6, <1>7, <2>1
 <2>2. CASE s \notin trans[t].orig.splits
   BY <1>5, <1>6, <1>7, <2>2
 <2>3. QED
   BY <2>1, <2>2

LEMMA DiscardMoves ==
    ASSUME FieldTypes, FieldTypes', MoveOK, fault' = "none", NEW t \in Trans, NEW s \in Split,
           Discard(t, s)
    PROVE  MoveOK'
<1>1. /\ stack # <<>> /\ Head(stack).op # "adopt" /\ stack' = Tail(stack)
      /\ trans' = [trans EXCEPT ![t].splits = @ \ {s}]
  BY DEF Discard, Under
<1>2. /\ CallersIn(stack)' /\ \A u \in Trans : ~Busy("clear", u)'
      /\ \A u, x : AdoptingIn(stack', u, x) <=> AdoptingIn(stack, u, x)
  BY <1>1, ReturnedCalls
<1>3. split[s].parent # t
  BY DEF Discard
<1>4. \A x \in Split : split'[x].live => split'[x] = split[x]
 <2>1. \/ split' = split
       \/ split' = [split EXCEPT ![s] = FreedSplit]
   BY DEF Discard
 <2>2. DOMAIN split = Split /\ ~FreedSplit.live
   BY DEF FieldTypes, FreedSplit
 <2>3. QED
   BY <2>1, <2>2
<1>5. /\ \A u \in Trans : trans'[u].live = trans[u].live /\ trans'[u].editlevel = trans[u].editlevel
      /\ \A u \in Trans, x \in Split : x \in trans[u].splits =>
           x \in trans'[u].splits \/ (u = t /\ x = s)
 <2>1. trans \in [Trans -> TransRec]
   BY DEF FieldTypes
 <2>2. QED
   BY <1>1, <2>1 DEF TransRec
<1>6. \A u \in Trans : trans[u].editlevel \in Int
  BY DEF FieldTypes, TransRec
<1>7. QED
  BY <1>2, <1>3, <1>4, <1>5, <1>6, QuietMoves

\* The split is listed by its new transaction, which is then committed.
LEMMA AdoptMoves ==
    ASSUME FieldTypes, FieldTypes', MoveOK, NEW s \in Split, Adopt(s)
    PROVE  MoveOK'
<1>1. /\ stack # <<>> /\ Head(stack).op = "adopt" /\ Head(stack).s = s
      /\ stack \in Seq(Frame) /\ CallersIn(stack)
      /\ split' = [split EXCEPT ![s].dirty = TRUE]
  BY DEF Adopt, Under, FieldTypes, MoveOK
<1>2. /\ Tail(stack) \in Seq(Frame) /\ Len(stack) \in Nat /\ Len(stack) > 0
      /\ Len(Tail(stack)) = Len(stack) - 1 /\ Head(stack) = stack[1]
      /\ \A i \in 1 .. Len(stack) - 1 : Tail(stack)[i] = stack[i + 1]
  BY <1>1, TailFacts
<1>3. CallersIn(Tail(stack)) /\ \A i \in 1 .. Len(Tail(stack)) : Tail(stack)[i].op \notin Closing
  BY <1>1, ReturnCallers
<1>4. \A i \in 1 .. Len(stack) : stack[i].op = "adopt" => i = 1
  BY <1>1, <1>2 DEF CallersIn, Closing
<1>5. ASSUME NEW u, NEW x, AdoptingIn(stack, u, x)
      PROVE  u = Head(stack).t /\ x = s
 <2>1. PICK i \in 1 .. Len(stack) : stack[i] = Call("adopt", u, x, {})
   BY <1>5 DEF AdoptingIn
 <2>2. i = 1
   BY <1>4, <2>1, CallFields
 <2>3. QED
   BY <1>1, <1>2, <2>1, <2>2, CallFields
<1>6. \A x \in Split : split'[x].live = split[x].live /\ split'[x].parent = split[x].parent
  BY <1>1 DEF FieldTypes, SplitRec
<1>7. \A u \in Trans : trans[u].editlevel \in Int
  BY DEF FieldTypes, TransRec
<1>8. CASE Head(stack).t = None /\ stack' = Tail(stack) /\ trans' = trans
 <2>1. /\ CallersIn(stack)' /\ \A u \in Trans : ~Busy("clear", u)'
   BY <1>1, <1>8, ReturnedCalls
 <2>2. \A u \in Trans, x \in Split : ~AdoptingIn(stack, u, x)
   BY <1>5, <1>8, TransEditAssumption
 <2>3. QED
   BY <1>6, <1>7, <1>8, <2>1, <2>2, QuietMoves
<1>9. ASSUME NEW t \in Trans, Head(stack).t = t,
             trans' = [trans EXCEPT ![t].splits = @ \cup {s}],
             stack' = <<Call("close", t, None, {})>> \o Tail(stack)
      PROVE  MoveOK'
 <2> DEFINE f == Call("close", t, None, {})
 <2>1. f \in Frame /\ f.op = "close"
   BY CallTypes, CallFields
 <2>2. stack' = <<f>> \o Tail(stack)
   BY <1>9
 <2> HIDE DEF f
 <2>3. Tail(stack) # <<>> => Tail(stack)[1].op # "adopt"
  <3>1. SUFFICES ASSUME Tail(stack) # <<>>, Tail(stack)[1].op = "adopt" PROVE FALSE
    OBVIOUS
  <3>2. Len(Tail(stack)) > 0
    BY <1>2, <3>1, EmptySeq, LenProperties
  <3>3. 1 \in 1 .. Len(stack) - 1 /\ 2 \in 1 .. Len(stack) /\ 1 + 1 = 2
    BY <1>2, <3>2
  <3>4. Tail(stack)[1] = stack[2]
    BY <1>2, <3>3
  <3>5. QED
    BY <1>4, <3>1, <3>3, <3>4
 <2>4. CallersIn(stack)'
   BY <1>2, <1>3, <2>1, <2>2, <2>3, ClosingCallers DEF Closing
 <2>5. \A u \in Trans : ~Busy("clear", u)'
   BY <1>2, <2>1, <2>2, PushFacts DEF Busy
 <2>6. /\ \A u \in Trans : /\ trans'[u].live = trans[u].live
                           /\ trans'[u].editlevel = trans[u].editlevel
                           /\ trans[u].splits \subseteq trans'[u].splits
       /\ s \in trans'[t].splits
   BY <1>9 DEF FieldTypes, TransRec
 <2>7. \A u \in Trans, x \in Split : AdoptingIn(stack, u, x) => x \in trans'[u].splits
   BY <1>5, <1>9, <2>6
 <2>8. QED
   BY <1>6, <1>7, <2>4, <2>5, <2>6, <2>7, MoveStep
<1>10. QED
  BY <1>8, <1>9 DEF Adopt

LEMMA CloseMoves ==
    ASSUME FieldTypes, FieldTypes', MoveOK, CanFail = FALSE, Close
    PROVE  MoveOK'
<1>1. /\ stack # <<>> /\ Head(stack).op = "close" /\ stack \in Seq(Frame) /\ CallersIn(stack)
  BY DEF Close, Under, FieldTypes, MoveOK
<1>2. \A u \in Trans : trans[u].editlevel \in Int
  BY DEF FieldTypes, TransRec
<1>3. CASE stack' = Tail(stack) /\ split' = split /\ trans' = trans
  BY <1>2, <1>3, <1>1, QuietMoves, ReturnedCalls
<1>4. ASSUME NEW t \in Trans, Head(stack).t = t, CommitCall(t, Tail(stack))
      PROVE  MoveOK'
 <2>1. /\ Tail(stack) \in Seq(Frame) /\ Len(stack) \in Nat /\ Len(stack) > 0
       /\ Len(Tail(stack)) = Len(stack) - 1 /\ Head(stack) = stack[1]
       /\ \A i \in 1 .. Len(stack) - 1 : Tail(stack)[i] = stack[i + 1]
   BY <1>1, TailFacts
 <2>2. /\ CallersIn(Tail(stack))
       /\ \A i \in 1 .. Len(Tail(stack)) : Tail(stack)[i].op \notin Closing
   BY <1>1, ReturnCallers
 <2>3. ASSUME Tail(stack) # <<>>, Tail(stack)[1].op = "adopt" PROVE Tail(stack)[1].t # t
  <3>1. Len(Tail(stack)) > 0
    BY <2>1, <2>3, EmptySeq, LenProperties
  <3>2. 1 \in 1 .. Len(stack) - 1 /\ 2 \in 1 .. Len(stack) /\ 1 + 1 = 2
    BY <2>1, <3>1
  <3>3. Tail(stack)[1] = stack[2]
    BY <2>1, <3>2
  <3>4. stack[1].t # stack[2].t
    BY <1>1, <2>3, <3>2, <3>3 DEF CallersIn
  <3>5. QED
    BY <1>4, <2>1, <3>3, <3>4
 <2>4. Elsewhere(t, Tail(stack))
   BY <2>1, <2>2, <2>3 DEF Elsewhere
 <2>5. \A u \in Trans, s \in Split : AdoptingIn(stack, u, s) <=> AdoptingIn(Tail(stack), u, s)
   BY <1>1, ReturnAdopting
 <2>6. \A u \in Trans : ~Busy("clear", u)
   BY <1>1 DEF Busy
 <2>7. QED
   BY <1>4, <2>4, <2>5, <2>6, CommitMoves
<1>5. QED
  BY <1>3, <1>4 DEF Close

LEMMA CommitEditMoves ==
    ASSUME FieldTypes, FieldTypes', MoveOK, CanFail = FALSE, NEW t \in Trans, CommitEdit(t)
    PROVE  MoveOK'
<1>1. stack = <<>> /\ CommitCall(t, <<>>)
  BY DEF CommitEdit, Idle
<1>2. Elsewhere(t, <<>>)
  BY NoCalls DEF Elsewhere
<1>3. QED
  BY <1>1, <1>2, CommitMoves DEF Busy

\* No step but the read of a freed split leaves a fault as it was without one.
LEMMA MoveNext ==
    ASSUME MoveInv, CanFail = FALSE, Next
    PROVE  MoveInv'
<1>1. FieldTypes /\ FieldTypes'
  BY ClientTypeOK, CallTypeOK DEF MoveInv, Next
<1>2. ClientCall => fault = "none"
  BY DEF ClientCall, BeginEdit, CommitEdit, RollbackEdit, MallocTrans, TransDestroy,
         SetDescription, MallocSplit, SplitDestroy, SetBaseValue, SetReconcile, SetAccount,
         MoveSplit, AccountCommitEdit, Setting, SettingSplit, Idle
<1>3. CallStep => fault = "none"
 <2>1. Close => fault = "none"
   BY DEF Close, Under
 <2>2. \A s \in Split : Adopt(s) => fault = "none"
   BY DEF Adopt, Under
 <2>3. \A t \in Trans : CleanupDone(t) \/ FreeTransaction(t) \/ RollbackDone(t)
                          => fault = "none"
   BY DEF CleanupDone, FreeTransaction, RollbackDone, LoopDone, Under
 <2>4. \A t \in Trans, s \in Split :
         CleanupSplit(t, s) \/ ClearSplit(t, s) \/ RollbackSplit(t, s) => fault = "none"
   BY DEF CleanupSplit, ClearSplit, RollbackSplit, Visiting, Under
 <2>5. \A t \in Trans, s \in Split : Restore(t, s) \/ Discard(t, s) => fault = "none"
   BY DEF Restore, Discard, Under
 <2>6. \A t \in Trans, s \in Split : ReadFreed(t, s) => fault = "none"
   BY DEF ReadFreed, Visiting, Under
 <2>7. QED
   BY <2>1, <2>2, <2>3, <2>4, <2>5, <2>6 DEF CallStep
<1>4. MoveOK
  BY <1>2, <1>3 DEF MoveInv, Next
<1>5. SUFFICES ASSUME fault' = "none" PROVE MoveOK'
  BY <1>1 DEF MoveInv
<1>6. CASE ClientCall
 <2>1. ASSUME NEW t \in Trans, CommitEdit(t) PROVE MoveOK'
   BY <1>1, <1>4, <2>1, CommitEditMoves
 <2>2. ASSUME NEW t \in Trans, RollbackEdit(t) PROVE MoveOK'
   BY <1>1, <1>4, <2>2, EndMoves
 <2>3. ASSUME NEW t \in Trans, NEW s \in Split, MoveSplit(s, t) PROVE MoveOK'
   BY <1>1, <1>4, <1>5, <2>3, MovedMoves
 <2>4. QED
   BY <1>1, <1>4, <1>6, <2>1, <2>2, <2>3, SetterMoves DEF ClientCall
<1>7. CASE CallStep
 <2>1. ASSUME NEW t \in Trans, CleanupDone(t) \/ RollbackDone(t) PROVE MoveOK'
   BY <1>1, <1>4, <2>1, EndMoves
 <2>2. ASSUME NEW t \in Trans, FreeTransaction(t) PROVE MoveOK'
   BY <1>1, <1>4, <2>2, FreeMoves
 <2>3. ASSUME NEW t \in Trans, NEW s \in Split,
              CleanupSplit(t, s) \/ ClearSplit(t, s) \/ RollbackSplit(t, s)
              \/ Restore(t, s) \/ Discard(t, s) \/ ReadFreed(t, s)
       PROVE  MoveOK'
  <3>1. ~ReadFreed(t, s)
    BY <1>5 DEF ReadFreed
  <3>2. QED
    BY <1>1, <1>4, <1>5, <2>3, <3>1, CleanupMoves, ClearMoves, RollbackMoves, EndMoves,
       DiscardMoves
 <2>4. QED
   BY <1>1, <1>4, <1>7, <2>1, <2>2, <2>3, CloseMoves, AdoptMoves DEF CallStep
<1>8. QED
  BY <1>6, <1>7 DEF Next

LEMMA InitMoves == Init => MoveInv
<1> SUFFICES ASSUME Init PROVE MoveOK
  BY InitTypeOK DEF MoveInv
<1>1. stack = <<>>
  BY DEF Init
<1>2. CallersIn(stack) /\ Doomed
  BY <1>1, NoCalls DEF Doomed, Busy
<1>3. \A s \in Split : split[s] = LoadedSplit(s)
  BY DEF Init
<1>4. \A t \in Trans : /\ trans[t].live = (LoadedInto(t) # {})
                       /\ trans[t].splits = LoadedInto(t)
                       /\ trans[t].editlevel = 0
  BY DEF Init, FreedTrans
<1>5. \A s \in Split, t \in Trans : split[s].live /\ split[s].parent = t => s \in LoadedInto(t)
 <2>1. SUFFICES ASSUME NEW s \in Split, NEW t \in Trans, split[s].live, split[s].parent = t
                PROVE  s \in LoadedInto(t)
   OBVIOUS
 <2>0. split[s] = LoadedSplit(s)
   BY <1>3
 <2>2. CASE Loaded[s] = None
  <3>1. ~FreedSplit.live
    BY DEF FreedSplit
  <3>2. LoadedSplit(s) = FreedSplit
    BY <2>2 DEF LoadedSplit
  <3>3. QED
    BY <2>0, <2>1, <3>1, <3>2
 <2>3. CASE Loaded[s] # None
   BY <2>0, <2>1, <2>3 DEF LoadedInto, LoadedSplit
 <2>4. QED
   BY <2>2, <2>3
<1>6. Listed /\ Buried
 <2>1. Listed
   BY <1>4, <1>5 DEF Listed
 <2>2. ASSUME NEW t \in Trans, ~trans[t].live
       PROVE  trans[t].editlevel <= 0 /\ \A s \in Split : s \notin LoadedInto(t)
  <3>1. LoadedInto(t) = {}
    BY <1>4, <2>2
  <3>2. QED
    BY <1>4, <3>1
 <2>3. QED
   BY <1>5, <2>1, <2>2 DEF Buried
<1>7. QED
  BY <1>2, <1>6 DEF MoveOK

\* When no commit is refused no split is orphaned: between calls its parent
\* lists it, however splits are moved, rolled back and destroyed.
THEOREM ParentListsSplitHolds ==
    ASSUME CanFail = FALSE
    PROVE  Spec => []ParentListsSplit
<1>1. Init => MoveInv
  BY InitMoves
<1>2. MoveInv /\ [Next]_vars => MoveInv'
 <2>1. CASE MoveInv /\ Next
   BY <2>1, MoveNext
 <2>2. CASE MoveInv /\ UNCHANGED vars
   BY <2>2 DEF MoveInv, MoveOK, FieldTypes, Listed, Doomed, Buried, Busy, vars
 <2>3. QED
   BY <2>1, <2>2
<1>3. MoveInv => ParentListsSplit
  BY NoCalls DEF MoveInv, MoveOK, Listed, ParentListsSplit, Idle
<1>4. QED
  BY <1>1, <1>2, <1>3, PTL DEF Spec

-----------------------------------------------------------------------------
(* What is posted for the transactions (module Ledger), while splits stay  *)
(* with their transaction and whatever the backend refuses.                *)

\* The edit of t is not stored yet: its copy is what is posted for it.
Pending(t) == IsOpen(t) /\ ~Busy("cleanup", t) /\ ~Busy("clear", t)

Copied(t) ==
    [s \in trans[t].orig.splits |->
        <<split[s].orig_acc, trans[t].orig.amount[s], trans[t].orig.reconciled[s]>>]

Own(t) == [s \in Owned(t) |-> <<split[s].acc, split[s].amount, split[s].reconciled>>]

NoContent == [s \in {} |-> None]

\* A split of a transaction is entered in an account, and one that is not dirty
\* is not being destroyed.
Booking(s) ==
    split[s].live => /\ split[s].orig_parent # None => split[s].orig_acc # None
                     /\ split[s].parent # None => split[s].acc # None
                     /\ split[s].dirty \/ ~split[s].do_free

\* What an edit has not touched is what the copy says.
CopyTrue(t) ==
    Pending(t) => \A s \in trans[t].orig.splits :
        \/ split[s].dirty
        \/ /\ split[s].amount = trans[t].orig.amount[s]
           /\ split[s].reconciled = trans[t].orig.reconciled[s]

\* What is stored is in its account to stay.
Stored(t) ==
    IsOpen(t) /\ Busy("cleanup", t) =>
        \A s \in trans[t].splits \ Head(stack).todo :
            ~split[s].do_free /\ split[s].acc = split[s].orig_acc

AtRest(t) ==
    ~IsOpen(t) => \A s \in trans[t].splits :
        ~split[s].do_free /\ split[s].acc = split[s].orig_acc

Posting(t) == CopyTrue(t) /\ Stored(t) /\ AtRest(t)

PostInv == EditInv /\ (\A s \in Split : Booking(s)) /\ (\A t \in Trans : Posting(t))

\* What is posted for t does not change.
SameContent(t) == CommittedContent(t)' = CommittedContent(t)

LEMMA LoopOutermost ==
    ASSUME CallsMade, NEW i \in 1 .. Len(stack), stack[i].op \in {"cleanup", "clear"}
    PROVE  i = 1
<1>1. ASSUME NEW f, stack = <<f>> PROVE i = 1
  BY <1>1
<1>2. ASSUME NEW f, NEW t, NEW todo, stack = <<f, Loop("rollback", t, todo)>>
      PROVE  i = 1
 <2>1. Len(stack) = 2 /\ stack[2] = Loop("rollback", t, todo)
   BY <1>2
 <2>2. i # 2
   BY <2>1, LoopFields
 <2>3. QED
   BY <2>1, <2>2
<1>3. ASSUME NEW f, NEW t, NEW s, NEW todo,
             stack = <<f, Call("discard", t, s, {}), Loop("rollback", t, todo)>>
      PROVE  i = 1
 <2>1. /\ Len(stack) = 3 /\ stack[3] = Loop("rollback", t, todo)
       /\ stack[2] = Call("discard", t, s, {})
   BY <1>3
 <2>2. i # 2 /\ i # 3
   BY <2>1, LoopFields, CallFields
 <2>3. QED
   BY <2>1, <2>2
<1>4. ASSUME NEW f, NEW t, NEW s, NEW todo,
             stack = <<f, Call("adopt", None, s, {}), Call("discard", t, s, {}),
                       Loop("rollback", t, todo)>>
      PROVE  i = 1
 <2>1. /\ Len(stack) = 4 /\ stack[4] = Loop("rollback", t, todo)
       /\ stack[3] = Call("discard", t, s, {}) /\ stack[2] = Call("adopt", None, s, {})
   BY <1>4
 <2>2. i # 2 /\ i # 3 /\ i # 4
   BY <2>1, LoopFields, CallFields
 <2>3. QED
   BY <2>1, <2>2
<1>5. stack # <<>>
  OBVIOUS
<1>6. QED
  BY <1>1, <1>2, <1>3, <1>4, <1>5 DEF CallsMade

LEMMA InCallBusy ==
    ASSUME EditInv, NEW t \in Trans, NEW op \in {"cleanup", "clear"}
    PROVE  InCall(op, t) <=> Busy(op, t)
<1>1. stack \in Seq(Frame) /\ CallsMade
  BY DEF EditInv, FieldTypes
<1>2. ASSUME InCall(op, t) PROVE Busy(op, t)
 <2>1. PICK i \in 1 .. Len(stack) : stack[i].op = op /\ stack[i].t = t
   BY <1>2 DEF InCall
 <2>2. i = 1 /\ stack # <<>>
   BY <1>1, <2>1, LoopOutermost
 <2>3. Head(stack) = stack[1]
   BY <1>1, <2>2, TailFacts
 <2>4. QED
   BY <2>1, <2>2, <2>3 DEF Busy
<1>3. ASSUME Busy(op, t) PROVE InCall(op, t)
  BY <1>3, <1>1, TailFacts DEF Busy, InCall
<1>4. QED
  BY <1>2, <1>3

\* The content of every transaction, by what is going on with it.
ContentCases ==
    \A t \in Trans :
        CommittedContent(t) = IF Pending(t) THEN Copied(t)
                              ELSE IF Busy("clear", t) THEN NoContent ELSE Own(t)

LEMMA ContentIs == EditInv => ContentCases
<1> SUFFICES ASSUME EditInv, NEW t \in Trans
             PROVE  CommittedContent(t) = IF Pending(t) THEN Copied(t)
                                          ELSE IF Busy("clear", t) THEN NoContent ELSE Own(t)
  BY DEF ContentCases
<1>1. /\ InCall("cleanup", t) <=> Busy("cleanup", t)
      /\ InCall("clear", t) <=> Busy("clear", t)
  BY InCallBusy
<1>2. CASE Pending(t)
  BY <1>1, <1>2 DEF CommittedContent, Pending, InCall, IsOpen, Owned, StillHasSplit, Copied
<1>3. CASE ~Pending(t) /\ Busy("clear", t)
  BY <1>1, <1>3 DEF CommittedContent, Pending, InCall, IsOpen, Owned, StillHasSplit, NoContent
<1>4. CASE ~Pending(t) /\ ~Busy("clear", t)
 <2> DEFINE listed == IF InCall("clear", t) THEN {} ELSE Owned(t)
            committed ==
              [s \in listed |-> <<split[s].acc, split[s].amount, split[s].reconciled>>]
 <2>1. CommittedContent(t) = committed
   BY <1>1, <1>4 DEF CommittedContent, Pending, InCall, IsOpen, Owned, StillHasSplit
 <2>2. listed = Owned(t)
   BY <1>1, <1>4
 <2> HIDE DEF listed
 <2>3. committed = Own(t)
   BY <2>2 DEF Own
 <2>4. QED
   BY <1>4, <2>1, <2>3
<1>5. QED
  BY <1>2, <1>3, <1>4

LEMMA ContentNext ==
    ASSUME EditInv', NEW t \in Trans
    PROVE  CommittedContent(t)' = IF Pending(t)' THEN Copied(t)'
                                  ELSE IF Busy("clear", t)' THEN NoContent ELSE Own(t)'
<1>1. (EditInv => ContentCases)'
  BY ContentIs, PTL
<1>2. NoContent' = NoContent
  BY DEF NoContent
<1>3. QED
  BY <1>1, <1>2 DEF ContentCases

\* A transaction no loop is at, before or after the step.
Calm(t) == ~Busy("cleanup", t) /\ ~Busy("clear", t) /\ ~Busy("cleanup", t)' /\ ~Busy("clear", t)'

\* The step keeps what is posted for t.
LEMMA PostingKept ==
    ASSUME EditInv, EditInv', NEW t \in Trans, Posting(t), Calm(t),
           IsOpen(t)' <=> IsOpen(t),
           IsOpen(t) =>
             /\ trans'[t].orig = trans[t].orig
             /\ \A s \in trans[t].orig.splits :
                  /\ split'[s].orig_acc = split[s].orig_acc
                  /\ \/ split'[s] = split[s]
                     \/ split'[s].dirty
                     \/ /\ split'[s].amount = trans[t].orig.amount[s]
                        /\ split'[s].reconciled = trans[t].orig.reconciled[s],
           ~IsOpen(t) =>
             /\ trans'[t].splits = trans[t].splits
             /\ \A s \in trans[t].splits : split'[s] = split[s]
    PROVE  Posting(t)' /\ SameContent(t)
<1>1. Stored(t)'
  BY DEF Stored, Calm
<1>2. CASE IsOpen(t)
 <2>1. Pending(t) /\ Pending(t)' /\ IsOpen(t)'
   BY <1>2 DEF Pending, Calm
 <2>2. CopyTrue(t)' /\ AtRest(t)'
   BY <1>2, <2>1 DEF CopyTrue, AtRest, Posting
 <2>3. Copied(t)' = Copied(t)
  <3>1. \A s \in trans[t].orig.splits : split'[s].orig_acc = split[s].orig_acc
    BY <1>2
  <3>2. trans'[t].orig = trans[t].orig
    BY <1>2
  <3>3. QED
    BY <3>1, <3>2 DEF Copied
 <2>4. CommittedContent(t) = Copied(t)
   BY <2>1, ContentIs DEF ContentCases
 <2>5. CommittedContent(t)' = Copied(t)'
   BY <2>1, ContentNext
 <2>6. QED
   BY <1>1, <2>2, <2>3, <2>4, <2>5 DEF Posting, SameContent
<1>3. CASE ~IsOpen(t)
 <2>1. ~Pending(t) /\ ~Pending(t)' /\ ~IsOpen(t)' /\ ~Busy("clear", t) /\ ~Busy("clear", t)'
   BY <1>3 DEF Pending, Calm
 <2>2. CopyTrue(t)' /\ AtRest(t)'
   BY <1>3, <2>1 DEF CopyTrue, AtRest, Posting
 <2>3. Own(t)' = Own(t)
  <3>1. trans'[t].splits = trans[t].splits /\ \A s \in trans[t].splits : split'[s] = split[s]
    BY <1>3
  <3>2. Owned(t)' = Owned(t) /\ \A s \in Owned(t) : split'[s] = split[s]
    BY <3>1 DEF Owned, StillHasSplit
  <3>3. QED
    BY <3>2 DEF Own
 <2>4. CommittedContent(t) = Own(t)
   BY <2>1, ContentIs DEF ContentCases
 <2>5. CommittedContent(t)' = Own(t)'
   BY <2>1, ContentNext
 <2>6. QED
   BY <1>1, <2>2, <2>3, <2>4, <2>5 DEF Posting, SameContent
<1>4. QED
  BY <1>2, <1>3

\* ... of a transaction that the step does not touch.
LEMMA PostingAside ==
    ASSUME EditInv, EditInv', NEW t \in Trans, Posting(t), Calm(t), trans'[t] = trans[t],
           \A s \in trans[t].splits : split'[s] = split[s]
    PROVE  Posting(t)' /\ SameContent(t)
<1>1. IsOpen(t)' <=> IsOpen(t)
  BY DEF IsOpen
<1>2. trans[t].orig.splits \subseteq trans[t].splits
 <2>1. InOrder(t)
   BY DEF EditInv, Lists, Calm
 <2>2. QED
   BY <2>1 DEF InOrder
<1>3. /\ trans'[t].orig = trans[t].orig /\ trans'[t].splits = trans[t].splits
      /\ \A s \in trans[t].orig.splits : split'[s] = split[s]
  BY <1>2
<1>4. \A s \in trans[t].orig.splits : split'[s].orig_acc = split[s].orig_acc
  BY <1>3
<1>5. QED
  BY <1>1, <1>3, <1>4, PostingKept

\* A content that can be posted for t.
Fit(t, content) ==
    /\ DOMAIN content \subseteq Split
    /\ \A s \in DOMAIN content : content[s] \in Account \X Amount \X BOOLEAN
    /\ SumOver([s \in DOMAIN content |-> content[s][2]]) = 0
    /\ \A u \in Trans \ {t} : DOMAIN CommittedContent(u) \cap DOMAIN content = {}

\* What a step may do: nothing to be seen, or one transaction is posted.
PostStep ==
    /\ \A s \in Split : Booking(s)'
    /\ \A t \in Trans : Posting(t)'
    /\ \/ \A t \in Trans : SameContent(t)
       \/ \E t \in Trans : /\ Fit(t, CommittedContent(t)')
                           /\ \A u \in Trans \ {t} : SameContent(u)

\* A step of a call that neither opens nor closes a transaction, and only touches
\* splits of open ones.
LEMMA QuietPosting ==
    ASSUME PostInv, EditInv', ~Tidying, ~Tidying',
           \A t \in Trans : /\ IsOpen(t)' <=> IsOpen(t)
                            /\ IsOpen(t) => trans'[t].orig = trans[t].orig
                            /\ ~IsOpen(t) => trans'[t].splits = trans[t].splits,
           \A s \in Split :
             \/ split'[s] = split[s]
             \/ /\ split'[s].dirty /\ Booking(s)'
                /\ \A t \in Trans : s \in trans[t].splits =>
                     IsOpen(t) /\ split'[s].orig_acc = split[s].orig_acc
    PROVE  PostStep
<1>1. \A t \in Trans : Calm(t)
  BY DEF Calm, Tidying, Busy
<1>2. ASSUME NEW s \in Split PROVE Booking(s)'
 <2>1. CASE split'[s] = split[s]
  <3>1. Booking(s)
    BY DEF PostInv
  <3>2. QED
    BY <2>1, <3>1 DEF Booking
 <2>2. CASE split'[s] # split[s]
   BY <2>2
 <2>3. QED
   BY <2>1, <2>2
<1>3. ASSUME NEW t \in Trans PROVE Posting(t)' /\ SameContent(t)
 <2>1. /\ EditInv /\ Posting(t) /\ Calm(t)
       /\ InOrder(t) /\ trans[t].splits \in SUBSET Split
   BY <1>1, OrderedLists DEF PostInv, EditInv, FieldTypes, TransRec
 <2>2. trans[t].orig.splits \subseteq trans[t].splits
   BY <2>1 DEF InOrder
 <2>3. ASSUME IsOpen(t)
       PROVE  /\ trans'[t].orig = trans[t].orig
              /\ \A s \in trans[t].orig.splits :
                   /\ split'[s].orig_acc = split[s].orig_acc
                   /\ split'[s] = split[s] \/ split'[s].dirty
   BY <2>1, <2>2, <2>3
 <2>4. ASSUME ~IsOpen(t)
       PROVE  /\ trans'[t].splits = trans[t].splits
              /\ \A s \in trans[t].splits : split'[s] = split[s]
   BY <2>1, <2>4
 <2>5. QED
   BY <2>1, <2>3, <2>4, PostingKept
<1>4. QED
  BY <1>2, <1>3 DEF PostStep

\* The transactions a step does not touch.
LEMMA OthersPosting ==
    ASSUME PostInv, EditInv', NEW t \in Trans,
           \A u \in Trans \ {t} : /\ Calm(u) /\ trans'[u] = trans[u]
                                  /\ \A s \in trans[u].splits : split'[s] = split[s]
    PROVE  \A u \in Trans \ {t} : Posting(u)' /\ SameContent(u)
<1>1. ASSUME NEW u \in Trans \ {t} PROVE Posting(u)' /\ SameContent(u)
 <2>1. EditInv /\ Posting(u) /\ u \in Trans
   BY DEF PostInv
 <2>2. Calm(u) /\ trans'[u] = trans[u] /\ \A s \in trans[u].splits : split'[s] = split[s]
   OBVIOUS
 <2>3. QED
   BY <2>1, <2>2, PostingAside
<1>2. QED
  BY <1>1

LEMMA OnePosted ==
    ASSUME NEW t \in Trans, \A s \in Split : Booking(s)', Posting(t)',
           \A u \in Trans \ {t} : Posting(u)' /\ SameContent(u),
           SameContent(t) \/ Fit(t, CommittedContent(t)')
    PROVE  PostStep
BY DEF PostStep

LEMMA SetterPosts ==
    ASSUME PostInv, EditInv',
           \/ \E t \in Trans, d \in Description : SetDescription(t, d)
           \/ \E s \in Split : \/ SplitDestroy(s)
                               \/ \E v \in Entered : SetBaseValue(s, v)
                               \/ \E r \in BOOLEAN : SetReconcile(s, r)
                               \/ \E a \in Account : SetAccount(s, a)
           \/ \E a \in Account : AccountCommitEdit(a)
    PROVE  PostStep
<1>1. /\ split \in [Split -> SplitRec] /\ \A s \in Split : split[s] \in SplitRec
      /\ trans \in [Trans -> TransRec] /\ \A t \in Trans : trans[t] \in TransRec
      /\ EditInv
  BY DEF PostInv, EditInv, FieldTypes
<1>2. ASSUME NEW t \in Trans, NEW d \in Description, SetDescription(t, d)
      PROVE  PostStep
 <2>1. /\ trans' = [trans EXCEPT ![t].description = d, ![t].dirty = TRUE]
       /\ split' = split /\ stack = <<>> /\ stack' = <<>>
   BY <1>2 DEF SetDescription, Setting, Idle
 <2>2. trans'[t] = [trans[t] EXCEPT !.description = d, !.dirty = TRUE]
       /\ \A u \in Trans \ {t} : trans'[u] = trans[u]
   BY <1>1, <2>1
 <2>3. \A u \in Trans : /\ trans'[u].splits = trans[u].splits
                        /\ trans'[u].orig = trans[u].orig
                        /\ trans'[u].editlevel = trans[u].editlevel
   BY <1>1, <2>2 DEF TransRec
 <2>4. QED
   BY <2>1, <2>3, QuietPosting DEF Tidying, IsOpen
<1>3. ASSUME NEW a \in Account, AccountCommitEdit(a) PROVE PostStep
  BY <1>3, QuietPosting DEF Tidying, IsOpen, AccountCommitEdit, Idle
<1>4. ASSUME NEW s \in Split, NEW r \in SplitRec, SettingSplit(s),
             split' = [split EXCEPT ![s] = r], r.dirty, r.live = split[s].live,
             r.parent = split[s].parent, r.orig_parent = split[s].orig_parent,
             r.orig_acc = split[s].orig_acc, r.acc = split[s].acc \/ r.acc \in Account,
             UNCHANGED <<trans, stack, fault>>
      PROVE  PostStep
 <2>1. PICK t \in Trans : split[s].parent = t /\ Setting(t)
   BY <1>4 DEF SettingSplit
 <2>2. stack = <<>> /\ stack' = <<>> /\ IsOpen(t) /\ ~Tidying /\ ~Tidying'
   BY <1>4, <2>1 DEF Setting, Idle, Tidying
 <2>3. split'[s] = r /\ \A x \in Split \ {s} : split'[x] = split[x]
   BY <1>1, <1>4
 <2>4. Booking(s)'
   BY <1>4, <2>3, TransEditAssumption DEF Booking, PostInv
 <2>5. \A u \in Trans : s \in trans[u].splits => IsOpen(u)
   BY <1>1, <2>1, <2>2, IdleOrder
 <2>6. trans' = trans /\ \A u \in Trans : IsOpen(u)' <=> IsOpen(u)
   BY <1>4 DEF IsOpen
 <2>7. QED
   BY <1>4, <2>2, <2>3, <2>4, <2>5, <2>6, QuietPosting
<1>5. ASSUME NEW s \in Split,
             \/ SplitDestroy(s)
             \/ \E v \in Entered : SetBaseValue(s, v)
             \/ \E r \in BOOLEAN : SetReconcile(s, r)
             \/ \E a \in Account : SetAccount(s, a)
      PROVE  PostStep
 <2> DEFINE r == split'[s]
 <2>1. SettingSplit(s) /\ UNCHANGED <<trans, stack, fault>>
   BY <1>5 DEF SplitDestroy, SetBaseValue, SetReconcile, SetAccount
 <2>2. \/ split' = [split EXCEPT ![s].dirty = TRUE, ![s].do_free = TRUE]
       \/ \E v \in Entered : split' = [split EXCEPT ![s].amount = v, ![s].dirty = TRUE]
       \/ \E q \in BOOLEAN : split' = [split EXCEPT ![s].reconciled = q, ![s].dirty = TRUE]
       \/ \E a \in Account : split' = [split EXCEPT ![s].acc = a, ![s].dirty = TRUE]
   BY <1>5 DEF SplitDestroy, SetBaseValue, SetReconcile, SetAccount
 <2>3. split' = [split EXCEPT ![s] = r] /\ r \in SplitRec
   BY <1>1, <2>2 DEF EditInv, FieldTypes
 <2>4. \/ r = [split[s] EXCEPT !.dirty = TRUE, !.do_free = TRUE]
       \/ \E v \in Entered : r = [split[s] EXCEPT !.amount = v, !.dirty = TRUE]
       \/ \E q \in BOOLEAN : r = [split[s] EXCEPT !.reconciled = q, !.dirty = TRUE]
       \/ \E a \in Account : r = [split[s] EXCEPT !.acc = a, !.dirty = TRUE]
   BY <1>1, <2>2
 <2>5. /\ r.dirty /\ r.live = split[s].live
       /\ r.parent = split[s].parent /\ r.orig_parent = split[s].orig_parent
       /\ r.orig_acc = split[s].orig_acc /\ (r.acc = split[s].acc \/ r.acc \in Account)
   BY <1>1, <2>4 DEF SplitRec
 <2> HIDE DEF r
 <2>6. QED
   BY <1>4, <2>1, <2>3, <2>5
<1>6. QED
  BY <1>2, <1>3, <1>5

LEMMA MallocSplitPosts ==
    ASSUME PostInv, EditInv', NEW t \in Trans, NEW s \in Split, NEW a \in Account,
           NEW v \in Entered, MallocSplit(t, s, a, v)
    PROVE  PostStep
<1>1. /\ stack = <<>> /\ stack' = <<>> /\ IsOpen(t) /\ ~split[s].live
      /\ split' = [split EXCEPT ![s] = NewSplit(t, a, v)]
      /\ trans' = [trans EXCEPT ![t].splits = @ \cup {s}]
  BY DEF MallocSplit, Setting, Idle
<1>2. /\ split \in [Split -> SplitRec] /\ EditInv
      /\ trans \in [Trans -> TransRec] /\ trans[t] \in TransRec
  BY DEF PostInv, EditInv, FieldTypes
<1>3. /\ split'[s] = NewSplit(t, a, v) /\ \A x \in Split \ {s} : split'[x] = split[x]
      /\ trans'[t] = [trans[t] EXCEPT !.splits = @ \cup {s}]
      /\ \A u \in Trans \ {t} : trans'[u] = trans[u]
  BY <1>1, <1>2
<1>4. split'[s].dirty /\ split'[s].orig_parent = None /\ split'[s].acc = a
  BY <1>3 DEF NewSplit
<1>5. trans'[t].orig = trans[t].orig /\ trans'[t].editlevel = trans[t].editlevel
  BY <1>2, <1>3 DEF TransRec
<1>6. ~Tidying /\ ~Tidying'
  BY <1>1 DEF Tidying
<1>7. Booking(s)'
 <2>1. None \notin Account
   BY TransEditAssumption
 <2>2. QED
   BY <1>4, <2>1 DEF Booking
<1>8. \A u \in Trans : s \notin trans[u].splits
  BY <1>1, <1>2, <1>6, IdleOrder
<1>9. \A u \in Trans : /\ IsOpen(u)' <=> IsOpen(u)
                       /\ IsOpen(u) => trans'[u].orig = trans[u].orig
                       /\ ~IsOpen(u) => trans'[u].splits = trans[u].splits
  BY <1>1, <1>3, <1>5 DEF IsOpen
<1>10. QED
  BY <1>3, <1>4, <1>6, <1>7, <1>8, <1>9, QuietPosting

\* Opening a transaction: what is posted for it is copied.
LEMMA OpeningPosts ==
    ASSUME PostInv, EditInv', NEW t \in Trans, stack = <<>>, ~Tidying', split' = split,
           ~IsOpen(t), IsOpen(t)', trans'[t].orig = DupeTrans(t),
           \A u \in Trans \ {t} : trans'[u] = trans[u]
    PROVE  PostStep
<1>1. /\ EditInv /\ ~Tidying /\ Posting(t)
      /\ \A s \in Split : split[s] \in SplitRec
  BY DEF PostInv, EditInv, FieldTypes, Tidying
<1>2. /\ trans[t].splits \in SUBSET Split
      /\ \A s \in trans[t].splits : split[s].live /\ split[s].parent = t
  BY <1>1, IdleOrder
<1>3. \A s \in trans[t].splits : ~split[s].do_free /\ split[s].acc = split[s].orig_acc
  BY <1>1 DEF Posting, AtRest
<1>4. /\ DupeTrans(t).splits = trans[t].splits
      /\ \A s \in trans[t].splits : /\ DupeTrans(t).amount[s] = split[s].amount
                                    /\ DupeTrans(t).reconciled[s] = split[s].reconciled
  BY <1>1, <1>2 DEF DupeTrans, SplitRec
<1>5. \A u \in Trans : Calm(u)
  BY <1>1 DEF Calm, Tidying, Busy
<1>6. \A s \in Split : Booking(s)'
  BY DEF PostInv, Booking
<1>7. Posting(t)'
 <2>1. CopyTrue(t)'
   BY <1>4 DEF CopyTrue
 <2>2. Stored(t)' /\ AtRest(t)'
   BY <1>5 DEF Stored, AtRest, Calm
 <2>3. QED
   BY <2>1, <2>2 DEF Posting
<1>8. SameContent(t)
 <2>1. Owned(t) = trans[t].splits
   BY <1>2, <1>3 DEF Owned, StillHasSplit
 <2>2. trans'[t].orig.splits = Owned(t)
   BY <1>4, <2>1
 <2>3. \A s \in Owned(t) :
         <<split'[s].orig_acc, trans'[t].orig.amount[s], trans'[t].orig.reconciled[s]>>
           = <<split[s].acc, split[s].amount, split[s].reconciled>>
   BY <1>3, <1>4, <2>1
 <2>4. Copied(t)' = Own(t)
   BY <2>2, <2>3 DEF Copied, Own
 <2>5. CommittedContent(t) = Own(t)
   BY <1>1, <1>5, ContentIs DEF ContentCases, Pending, Calm
 <2>6. CommittedContent(t)' = Copied(t)'
   BY <1>5, ContentNext DEF Pending, Calm
 <2>7. QED
   BY <2>4, <2>5, <2>6 DEF SameContent
<1>9. \A u \in Trans \ {t} : Posting(u)' /\ SameContent(u)
  BY <1>5, OthersPosting
<1>10. QED
  BY <1>6, <1>7, <1>8, <1>9, OnePosted

LEMMA BeginPosts ==
    ASSUME PostInv, EditInv', NEW t \in Trans, BeginEdit(t) \/ TransDestroy(t)
    PROVE  PostStep
<1>1. /\ stack = <<>> /\ split' = split /\ EditInv
      /\ \/ trans' = Begun({t}) /\ stack' = <<>>
         \/ /\ trans' = [Begun({t}) EXCEPT ![t].do_free = TRUE]
            /\ stack' = <<Call("close", t, None, {})>>
  BY DEF BeginEdit, TransDestroy, Idle, PostInv
<1>2. ~Tidying /\ ~Tidying'
  BY <1>1, CallFields DEF Tidying
<1>3. FieldTypes /\ trans[t] \in TransRec /\ Begun({t}) \in [Trans -> TransRec]
      /\ trans[t].editlevel \in Nat
  BY <1>1, BegunType DEF EditInv, FieldTypes, Levels
<1>4. /\ \A u \in Trans \ {t} : trans'[u] = Begun({t})[u]
      /\ trans'[t].editlevel = Begun({t})[t].editlevel
      /\ trans'[t].orig = Begun({t})[t].orig
 <2>1. CASE trans' = Begun({t})
   BY <2>1
 <2>2. CASE trans' = [Begun({t}) EXCEPT ![t].do_free = TRUE]
  <3>1. /\ trans'[t] = [Begun({t})[t] EXCEPT !.do_free = TRUE]
        /\ \A u \in Trans \ {t} : trans'[u] = Begun({t})[u]
    BY <1>3, <2>2
  <3>2. Begun({t})[t] \in TransRec
    BY <1>3
  <3>3. QED
    BY <3>1, <3>2 DEF TransRec
 <2>3. QED
   BY <1>1, <2>1, <2>2
<1>5. /\ \A u \in Trans \ {t} : trans'[u] = trans[u]
      /\ trans'[t].editlevel = trans[t].editlevel + 1
      /\ trans'[t].orig = IF trans[t].editlevel = 0 THEN DupeTrans(t) ELSE trans[t].orig
  BY <1>3, <1>4, BegunFields DEF TransRec
<1>6. IsOpen(t)' /\ (IsOpen(t) <=> trans[t].editlevel # 0)
  BY <1>3, <1>5 DEF IsOpen
<1>7. CASE trans[t].editlevel = 0
  BY <1>1, <1>2, <1>5, <1>6, <1>7, OpeningPosts
<1>8. CASE trans[t].editlevel # 0
  BY <1>1, <1>2, <1>5, <1>6, <1>8, QuietPosting DEF IsOpen
<1>9. QED
  BY <1>7, <1>8

\* A transaction that was just allocated has nothing posted, like the freed one.
LEMMA MallocTransPosts ==
    ASSUME PostInv, EditInv', NEW t \in Trans, MallocTrans(t)
    PROVE  PostStep
<1>1. /\ stack = <<>> /\ stack' = <<>> /\ split' = split /\ EditInv /\ ~trans[t].live
      /\ trans' = [trans EXCEPT ![t] = [FreedTrans EXCEPT !.live = TRUE, !.dirty = TRUE]]
  BY DEF MallocTrans, Idle, PostInv
<1>2. ~Tidying /\ ~Tidying' /\ trans \in [Trans -> TransRec] /\ trans[t] = FreedTrans
  BY <1>1 DEF Tidying, EditInv, FieldTypes, Levels
<1>3. /\ trans'[t] = [FreedTrans EXCEPT !.live = TRUE, !.dirty = TRUE]
      /\ \A u \in Trans \ {t} : trans'[u] = trans[u]
  BY <1>1, <1>2
<1>4. /\ trans'[t].editlevel = trans[t].editlevel /\ trans'[t].orig = trans[t].orig
      /\ trans'[t].splits = trans[t].splits
  BY <1>2, <1>3 DEF FreedTrans
<1>5. \A u \in Trans : /\ IsOpen(u)' <=> IsOpen(u)
                       /\ IsOpen(u) => trans'[u].orig = trans[u].orig
                       /\ ~IsOpen(u) => trans'[u].splits = trans[u].splits
  BY <1>3, <1>4 DEF IsOpen
<1>6. QED
  BY <1>1, <1>2, <1>5, QuietPosting

\* Ending an edit within another one, called in whatever way.
LEMMA UnwoundPosts ==
    ASSUME PostInv, EditInv', NEW t \in Trans, ~Tidying, ~Tidying',
           trans[t].editlevel > 1, trans' = [trans EXCEPT ![t].editlevel = @ - 1],
           split' = split
    PROVE  PostStep
<1>1. /\ trans \in [Trans -> TransRec] /\ trans[t] \in TransRec
      /\ trans[t].editlevel \in Nat
  BY DEF PostInv, EditInv, FieldTypes, Levels
<1>2. /\ trans'[t] = [trans[t] EXCEPT !.editlevel = trans[t].editlevel - 1]
      /\ \A u \in Trans \ {t} : trans'[u] = trans[u]
  BY <1>1
<1>3. trans'[t].editlevel = trans[t].editlevel - 1 /\ trans'[t].orig = trans[t].orig
  BY <1>1, <1>2 DEF TransRec
<1>4. IsOpen(t) /\ IsOpen(t)'
  BY <1>1, <1>3 DEF IsOpen
<1>5. \A u \in Trans : /\ IsOpen(u)' <=> IsOpen(u)
                       /\ IsOpen(u) => trans'[u].orig = trans[u].orig
                       /\ ~IsOpen(u) => trans'[u].splits = trans[u].splits
  BY <1>2, <1>3, <1>4 DEF IsOpen
<1>6. QED
  BY <1>5, QuietPosting

LEMMA RollbackEditPosts ==
    ASSUME PostInv, EditInv', NEW t \in Trans, RollbackEdit(t)
    PROVE  PostStep
<1>1. stack = <<>> /\ IsOpen(t) /\ split' = split
  BY DEF RollbackEdit, Idle
<1>2. ~Tidying
  BY <1>1 DEF Tidying
<1>3. CASE trans[t].editlevel > 1
 <2>1. trans' = [trans EXCEPT ![t].editlevel = @ - 1] /\ stack' = <<>>
   BY <1>1, <1>3 DEF RollbackEdit
 <2>2. ~Tidying'
   BY <2>1 DEF Tidying
 <2>3. QED
   BY <1>1, <1>2, <1>3, <2>1, <2>2, UnwoundPosts
<1>4. CASE ~(trans[t].editlevel > 1)
 <2>1. /\ trans' = [trans EXCEPT ![t].description = trans[t].orig.description]
       /\ stack' = <<Call("rollback", t, None, trans[t].splits)>>
   BY <1>4 DEF RollbackEdit
 <2>2. ~Tidying'
   BY <2>1, CallFields DEF Tidying
 <2>3. trans \in [Trans -> TransRec] /\ trans[t] \in TransRec
   BY DEF PostInv, EditInv, FieldTypes
 <2>4. /\ trans'[t] = [trans[t] EXCEPT !.description = trans[t].orig.description]
       /\ \A u \in Trans \ {t} : trans'[u] = trans[u]
   BY <2>1, <2>3
 <2>5. trans'[t].orig = trans[t].orig /\ trans'[t].editlevel = trans[t].editlevel
   BY <2>3, <2>4 DEF TransRec
 <2>6. \A u \in Trans : /\ IsOpen(u)' <=> IsOpen(u)
                        /\ IsOpen(u) => trans'[u].orig = trans[u].orig
                        /\ ~IsOpen(u) => trans'[u].splits = trans[u].splits
   BY <1>1, <2>4, <2>5 DEF IsOpen
 <2>7. QED
   BY <1>1, <1>2, <2>2, <2>6, QuietPosting
<1>5. QED
  BY <1>3, <1>4

\* The content of t, as it is stored.
LEMMA OwnFits ==
    ASSUME PostInv, EditInv', NEW t \in Trans, ~Tidying, stack = <<>> \/ \E f : stack = <<f>>,
           NEW listed \in SUBSET Split, trans'[t].splits = listed,
           \A s \in listed : s \in trans[t].splits \/ ~split[s].live,
           \A s \in listed : split'[s].live /\ split'[s].parent = t /\ Booking(s)',
           SumOver([s \in Owned(t)' |-> split'[s].amount]) = 0
    PROVE  Fit(t, Own(t)')
<1> DEFINE content == Own(t)'
           owned == Owned(t)'
<1>1. owned \subseteq listed
  BY DEF Owned
<1>2. /\ DOMAIN content = owned
      /\ \A s \in owned :
           content[s] = <<split'[s].acc, split'[s].amount, split'[s].reconciled>>
  BY DEF Own
<1> HIDE DEF content, owned
<1>3. \A s \in owned : content[s] \in Account \X Amount \X BOOLEAN
 <2>1. ASSUME NEW s \in owned PROVE content[s] \in Account \X Amount \X BOOLEAN
  <3>1. s \in listed /\ s \in Split /\ t # None
    BY <1>1, TransEditAssumption
  <3>2. split'[s] \in SplitRec
    BY <3>1 DEF EditInv, FieldTypes
  <3>3. split'[s].acc \in Account
    BY <3>1, <3>2 DEF SplitRec, Booking
  <3>4. split'[s].amount \in Amount /\ split'[s].reconciled \in BOOLEAN
    BY <3>2 DEF SplitRec
  <3>5. content[s] = <<split'[s].acc, split'[s].amount, split'[s].reconciled>>
    BY <1>2
  <3>6. QED
    BY <3>3, <3>4, <3>5
 <2>2. QED
   BY <2>1
<1>4. SumOver([s \in owned |-> content[s][2]]) = 0
 <2>1. \A s \in owned : content[s][2] = split'[s].amount
   BY <1>2
 <2>2. [s \in owned |-> content[s][2]] = [s \in owned |-> split'[s].amount]
   BY <2>1
 <2>3. QED
   BY <2>2 DEF owned
<1>5. ASSUME NEW u \in Trans \ {t}
      PROVE  DOMAIN CommittedContent(u) \cap owned = {}
 <2>1. EditInv /\ InOrder(u) /\ \A s \in trans[u].splits : split[s].live /\ split[s].parent = u
   BY IdleOrder DEF PostInv
 <2>2. \A s \in trans[t].splits : split[s].parent = t
   BY <2>1, IdleOrder
 <2>3. ~Busy("cleanup", u) /\ ~Busy("clear", u)
   BY DEF Tidying, Busy
 <2>4. DOMAIN CommittedContent(u) \subseteq trans[u].splits
  <3>1. trans[u].orig.splits \subseteq trans[u].splits
    BY <2>1 DEF InOrder
  <3>2. CASE Pending(u)
    BY <3>1, <2>1, <3>2, ContentIs DEF Copied, ContentCases
  <3>3. CASE ~Pending(u)
    BY <2>1, <2>3, <3>3, ContentIs DEF Own, Owned, ContentCases
  <3>4. QED
    BY <3>2, <3>3
 <2>5. QED
   BY <1>1, <2>1, <2>2, <2>4
<1>6. Fit(t, content)
  BY <1>1, <1>2, <1>3, <1>4, <1>5 DEF Fit
<1>7. QED
  BY <1>6 DEF content

LEMMA NothingFits == ASSUME NEW t \in Trans PROVE Fit(t, NoContent)
<1>1. DOMAIN NoContent = {}
  BY DEF NoContent
<1>2. SumOver([s \in DOMAIN NoContent |-> NoContent[s][2]]) = 0
  BY <1>1, SumEmpty
<1>3. QED
  BY <1>1, <1>2 DEF Fit

\* Going on to tidy up after t, with what is stored for it.
LEMMA StoringPosts ==
    ASSUME PostInv, EditInv', stack = <<>> \/ \E f : stack = <<f>>, ~Tidying,
           NEW t \in Trans, trans[t].editlevel = 1,
           NEW listed \in SUBSET Split, trans[t].splits \subseteq listed,
           \A s \in trans[t].splits :
             split'[s] = split[s] \/ (split'[s].dirty /\ split'[s].orig_acc = split[s].orig_acc),
           \A s \in listed \ trans[t].splits : ~split[s].live /\ split'[s].dirty,
           \A s \in Split \ listed : split'[s] = split[s],
           \A s \in Split : Booking(s)',
           trans'[t].splits = listed =>
             SumOver([s \in Owned(t)' |-> split'[s].amount]) = 0,
           StoreTrans(t, listed, <<>>)
    PROVE  PostStep
<1>1. /\ EditInv /\ InOrder(t) /\ trans[t].splits \in SUBSET Split
      /\ \A u \in Trans : \A s \in trans[u].splits : split[s].live /\ split[s].parent = u
      /\ \A u \in Trans : trans[u].splits \in SUBSET Split
  BY IdleOrder DEF PostInv
<1>2. trans \in [Trans -> TransRec] /\ trans[t] \in TransRec
  BY DEF PostInv, EditInv, FieldTypes
<1>3. PICK op \in {"cleanup", "rollback"} :
        /\ stack' = <<Call(op, t, None, listed)>> \o <<>>
        /\ \/ trans' = [trans EXCEPT ![t].dirty = FALSE, ![t].splits = listed]
           \/ trans' = [trans EXCEPT ![t].splits = listed,
                                     ![t].description = trans[t].orig.description]
  BY DEF StoreTrans
<1>4. Going(t, op, listed)
  BY <1>3 DEF Going, Loop
<1>5. /\ stack' # <<>> /\ Head(stack').op = op /\ Head(stack').t = t
      /\ Head(stack').todo = listed
  BY <1>4, LoopFields DEF Going
<1>6. /\ \/ trans'[t] = [trans[t] EXCEPT !.dirty = FALSE, !.splits = listed]
         \/ trans'[t] = [trans[t] EXCEPT !.splits = listed,
                                         !.description = trans[t].orig.description]
      /\ \A u \in Trans \ {t} : trans'[u] = trans[u]
  BY <1>2, <1>3
<1>7. /\ trans'[t].splits = listed /\ trans'[t].orig = trans[t].orig
      /\ trans'[t].editlevel = 1
  BY <1>2, <1>6 DEF TransRec
<1>8. IsOpen(t) /\ IsOpen(t)'
  BY <1>7 DEF IsOpen
<1>9. CASE op = "rollback"
 <2>1. ~Tidying'
   BY <1>5, <1>9 DEF Tidying
 <2>2. \A u \in Trans : /\ IsOpen(u)' <=> IsOpen(u)
                        /\ IsOpen(u) => trans'[u].orig = trans[u].orig
                        /\ ~IsOpen(u) => trans'[u].splits = trans[u].splits
   BY <1>6, <1>7, <1>8 DEF IsOpen
 <2>3. ASSUME NEW s \in Split, split'[s] # split[s]
       PROVE  /\ split'[s].dirty /\ Booking(s)'
              /\ \A u \in Trans : s \in trans[u].splits =>
                   IsOpen(u) /\ split'[s].orig_acc = split[s].orig_acc
  <3>1. CASE s \in trans[t].splits
    BY <1>1, <1>8, <2>3, <3>1
  <3>2. CASE s \in listed \ trans[t].splits
    BY <1>1, <3>2
  <3>3. QED
    BY <2>3, <3>1, <3>2
 <2>4. QED
   BY <2>1, <2>2, <2>3, QuietPosting
<1>10. CASE op = "cleanup"
 <2>1. Busy("cleanup", t)' /\ ~Busy("clear", t)'
   BY <1>5, <1>10 DEF Busy
 <2>2. Tidied(t, listed)'
   BY <1>5, <2>1 DEF EditInv, Lists
 <2>3. \A s \in listed : split'[s].live /\ split'[s].parent = t /\ Booking(s)'
   BY <1>7, <2>2 DEF Tidied
 <2>4. Fit(t, Own(t)')
   BY <1>7, <2>3, OwnFits
 <2>5. CommittedContent(t)' = Own(t)'
   BY <2>1, ContentNext DEF Pending
 <2>6. Posting(t)'
  <3>1. CopyTrue(t)' /\ AtRest(t)'
    BY <1>8, <2>1 DEF CopyTrue, AtRest, Pending
  <3>2. Stored(t)'
    BY <1>5, <1>7 DEF Stored
  <3>3. QED
    BY <3>1, <3>2 DEF Posting
 <2>7. ASSUME NEW u \in Trans \ {t}
       PROVE  /\ Calm(u) /\ trans'[u] = trans[u]
              /\ \A s \in trans[u].splits : split'[s] = split[s]
  <3>1. Calm(u)
    BY <1>5 DEF Calm, Tidying, Busy
  <3>2. \A s \in trans[u].splits : s \in Split \ listed
    BY <1>1
  <3>3. QED
    BY <1>6, <3>1, <3>2
 <2>8. \A u \in Trans \ {t} : Posting(u)' /\ SameContent(u)
   BY <2>7, OthersPosting
 <2>9. QED
   BY <2>4, <2>5, <2>6, <2>8, OnePosted
<1>11. QED
  BY <1>9, <1>10

LEMMA DestroyPosts ==
    ASSUME PostInv, EditInv', stack = <<>> \/ \E f : stack = <<f>>, ~Tidying,
           NEW t \in Trans, trans[t].editlevel = 1, CommitDestroyed(t, <<>>)
    PROVE  PostStep
<1> DEFINE mine == {s \in trans[t].splits : split[s].parent = t}
<1>1. /\ EditInv
      /\ \A u \in Trans : \A s \in trans[u].splits : split[s].live /\ split[s].parent = u
      /\ \A u \in Trans : trans[u].splits \in SUBSET Split
  BY IdleOrder DEF PostInv
<1>2. /\ trans \in [Trans -> TransRec] /\ trans[t] \in TransRec
      /\ split \in [Split -> SplitRec] /\ \A s \in Split : split[s] \in SplitRec
  BY DEF PostInv, EditInv, FieldTypes
<1>3. mine = trans[t].splits
  BY <1>1
<1> HIDE DEF mine
<1>4. CASE /\ split' = [s \in Split |->
                          IF s \in mine
                          THEN [split[s] EXCEPT !.dirty = TRUE, !.do_free = TRUE]
                          ELSE split[s]]
           /\ trans' = [trans EXCEPT ![t].do_free = TRUE]
           /\ stack' = <<Call("clear", t, None, mine)>> \o <<>>
 <2>1. /\ stack' # <<>> /\ Head(stack').op = "clear" /\ Head(stack').t = t
  <3>1. \A f : <<f>> \o <<>> = <<f>>
    OBVIOUS
  <3>2. stack' = <<Call("clear", t, None, mine)>>
    BY <1>4, <3>1
  <3>3. QED
    BY <3>2, CallFields
 <2>2. /\ trans'[t] = [trans[t] EXCEPT !.do_free = TRUE]
       /\ \A u \in Trans \ {t} : trans'[u] = trans[u]
   BY <1>2, <1>4
 <2>3. IsOpen(t)'
  <3>1. trans'[t].editlevel = 1
    BY <1>2, <2>2 DEF TransRec
  <3>2. QED
    BY <3>1 DEF IsOpen
 <2>4. Busy("clear", t)' /\ ~Busy("cleanup", t)'
   BY <2>1 DEF Busy
 <2>5. /\ \A s \in trans[t].splits :
            split'[s] = [split[s] EXCEPT !.dirty = TRUE, !.do_free = TRUE]
       /\ \A s \in Split \ trans[t].splits : split'[s] = split[s]
   BY <1>1, <1>3, <1>4
 <2>6. ASSUME NEW s \in Split PROVE Booking(s)'
  <3>1. Booking(s)
    BY DEF PostInv
  <3>2. CASE s \in trans[t].splits
    BY <3>1, <1>2, <2>5, <3>2 DEF Booking, SplitRec
  <3>3. CASE s \notin trans[t].splits
   <4>1. split'[s] = split[s]
     BY <2>5, <3>3
   <4>2. QED
     BY <3>1, <4>1 DEF Booking
  <3>4. QED
    BY <3>2, <3>3
 <2>7. Posting(t)'
   BY <2>3, <2>4 DEF Posting, CopyTrue, Stored, AtRest, Pending
 <2>8. Fit(t, CommittedContent(t)')
  <3>1. CommittedContent(t)' = NoContent
    BY <2>4, ContentNext DEF Pending
  <3>2. QED
    BY <3>1, NothingFits
 <2>9. ASSUME NEW u \in Trans \ {t}
       PROVE  /\ Calm(u) /\ trans'[u] = trans[u]
              /\ \A s \in trans[u].splits : split'[s] = split[s]
  <3>1. Calm(u)
    BY <2>1 DEF Calm, Tidying, Busy
  <3>2. \A s \in trans[u].splits : s \in Split \ trans[t].splits
    BY <1>1
  <3>3. QED
    BY <2>2, <2>5, <3>1, <3>2
 <2>10. \A u \in Trans \ {t} : Posting(u)' /\ SameContent(u)
   BY <2>9, OthersPosting
 <2>11. QED
   BY <2>6, <2>7, <2>8, <2>10, OnePosted
<1>5. CASE /\ trans' = [trans EXCEPT ![t].do_free = FALSE,
                                    ![t].description = trans[t].orig.description]
           /\ stack' = <<Call("rollback", t, None, trans[t].splits)>> \o <<>>
           /\ split' = split
 <2>1. ~Tidying'
   BY <1>5, CallFields DEF Tidying
 <2>2. /\ trans'[t] = [trans[t] EXCEPT !.do_free = FALSE,
                                       !.description = trans[t].orig.description]
       /\ \A u \in Trans \ {t} : trans'[u] = trans[u]
   BY <1>2, <1>5
 <2>3. trans'[t].orig = trans[t].orig /\ trans'[t].editlevel = trans[t].editlevel
   BY <1>2, <2>2 DEF TransRec
 <2>4. \A u \in Trans : /\ IsOpen(u)' <=> IsOpen(u)
                        /\ IsOpen(u) => trans'[u].orig = trans[u].orig
                        /\ ~IsOpen(u) => trans'[u].splits = trans[u].splits
  <3>1. IsOpen(t)
    BY DEF IsOpen
  <3>2. QED
    BY <2>2, <2>3, <3>1 DEF IsOpen
 <2>5. QED
   BY <1>5, <2>1, <2>4, QuietPosting
<1>6. QED
  BY <1>4, <1>5 DEF CommitDestroyed, mine

\* add_balance_split: what t is left owning sums to zero.
LEMMA BalancedSum ==
    ASSUME FieldTypes, NEW t \in Trans, NEW b \in BalanceSplits(t), NEW new \in Amount,
           new = (IF split[b].live THEN split[b].amount ELSE 0) - ImbalanceValue(t),
           split' = Balanced(t, b, new), trans'[t].splits = trans[t].splits \cup {b},
           \A s \in trans[t].splits : split[s].live
    PROVE  SumOver([s \in Owned(t)' |-> split'[s].amount]) = 0
<1> DEFINE O == Owned(t)
           P == Owned(t)'
           f == [s \in O |-> split[s].amount]
           g == [s \in P |-> split'[s].amount]
           rest == [s \in O \ {b} |-> split[s].amount]
<1>1. /\ split \in [Split -> SplitRec] /\ \A s \in Split : split[s].amount \in Int
      /\ new \in Int /\ O \in SUBSET Split /\ IsFiniteSet(O)
 <2>1. split \in [Split -> SplitRec] /\ trans[t].splits \in SUBSET Split
   BY DEF FieldTypes, TransRec
 <2>2. /\ \A s \in Split : split[s] \in SplitRec
       /\ Amount \subseteq Int /\ IsFiniteSet(Split)
   BY <2>1, TransEditAssumption
 <2>3. O \in SUBSET Split
   BY <2>1 DEF Owned
 <2>4. IsFiniteSet(O)
   BY <2>2, <2>3, FS_Subset
 <2>5. QED
   BY <2>1, <2>2, <2>3, <2>4 DEF SplitRec
<1>2. b \in Split /\ (b \in O \/ ~split[b].live)
 <2>1. O \in SUBSET Split
   BY <1>1
 <2>2. QED
   BY <2>1 DEF BalanceSplits
<1>3. \A s \in Split \ {b} : split'[s] = split[s]
  BY <1>1, <1>2 DEF Balanced
<1>4. P = {s \in trans[t].splits \cup {b} : split'[s].parent = t /\ ~split'[s].do_free}
  BY DEF Owned, StillHasSplit
<1>5. O = {s \in trans[t].splits : split[s].parent = t /\ ~split[s].do_free}
  BY DEF Owned, StillHasSplit
<1>6. f \in [O -> Int] /\ SumOver(f) = ImbalanceValue(t)
 <2>1. f \in [O -> Int]
   BY <1>1
 <2>2. QED
   BY <2>1 DEF ImbalanceValue
<1>7. trans[t].splits \in SUBSET Split
  BY DEF FieldTypes, TransRec
<1>8. CASE ~split[b].live
 <2>1. split'[b] = NewSplit(t, Imbalance, new)
   BY <1>1, <1>2, <1>8 DEF Balanced
 <2>2. split'[b].parent = t /\ ~split'[b].do_free /\ split'[b].amount = new
   BY <2>1 DEF NewSplit
 <2>3. b \notin trans[t].splits /\ b \notin O
   BY <1>5, <1>8
 <2>4. P = O \cup {b}
   BY <1>3, <1>4, <1>5, <1>7, <2>2, <2>3
 <2>5. \A s \in O : split'[s] = split[s]
   BY <1>1, <1>3, <2>3
 <2> HIDE DEF O, P
 <2>6. OneMore(g, f, P, b)
  <3>1. IsFiniteSet(P) /\ b \in P /\ P \ {b} = O
    BY <1>1, <2>3, <2>4, FS_AddElement
  <3>2. g \in [P -> Int]
    BY <1>1, <2>2, <2>4, <2>5
  <3>3. \A s \in O : f[s] = g[s]
    BY <2>4, <2>5
  <3>4. QED
    BY <1>6, <3>1, <3>2, <3>3 DEF OneMore, Agree
 <2>7. g[b] = new
   BY <2>2, <2>4
 <2> HIDE DEF f, g
 <2>8. SumOver(g) = new + SumOver(f) /\ SumOver(f) \in Int
   BY <2>6, <2>7, SumRemove
 <2>9. new = 0 - SumOver(f)
   BY <1>6, <1>8
 <2>10. SumOver(g) = 0
   BY <2>8, <2>9
 <2>11. QED
   BY <2>10 DEF g, P
<1>9. CASE split[b].live
 <2>1. b \in O /\ b \in trans[t].splits /\ split[b].parent = t /\ ~split[b].do_free
   BY <1>2, <1>5, <1>9
 <2>2. split'[b] = IF new = 0 THEN [split[b] EXCEPT !.dirty = TRUE, !.do_free = TRUE]
                   ELSE [split[b] EXCEPT !.dirty = TRUE, !.amount = new]
   BY <1>1, <1>2, <1>9 DEF Balanced
 <2>3. split[b] \in SplitRec
   BY <1>1, <1>2
 <2>4. /\ new = 0 => split'[b].do_free
       /\ new # 0 => ~split'[b].do_free /\ split'[b].parent = t /\ split'[b].amount = new
   BY <2>1, <2>2, <2>3 DEF SplitRec
 <2>5. P = IF new = 0 THEN O \ {b} ELSE O
  <3>1. \A s \in (trans[t].splits \cup {b}) \ {b} : s \in O <=> s \in P
    BY <1>3, <1>4, <1>5, <1>7
  <3>2. b \in P <=> new # 0
    BY <1>4, <2>4
  <3>3. P \subseteq trans[t].splits \cup {b} /\ O \subseteq trans[t].splits \cup {b}
    BY <1>4, <1>5
  <3>4. QED
    BY <2>1, <3>1, <3>2, <3>3
 <2>6. \A s \in O \ {b} : split'[s] = split[s]
   BY <1>1, <1>3
 <2> HIDE DEF O, P
 <2>7. OneMore(f, rest, O, b)
   BY <1>1, <1>6, <2>1 DEF OneMore, Agree
 <2>8. f[b] = split[b].amount
   BY <2>1
 <2> HIDE DEF f
 <2>9. SumOver(f) = split[b].amount + SumOver(rest) /\ SumOver(rest) \in Int
   BY <2>7, <2>8, SumRemove
 <2>10. new = split[b].amount - SumOver(f)
   BY <1>6, <1>9
 <2>11. new = 0 - SumOver(rest)
   BY <1>1, <1>2, <2>9, <2>10
 <2>12. CASE new = 0
  <3>1. P = O \ {b}
    BY <2>5, <2>12
  <3>2. g = rest
    BY <2>6, <3>1
  <3> HIDE DEF g, rest
  <3>3. SumOver(g) = 0
    BY <2>9, <2>11, <2>12, <3>2
  <3>4. QED
    BY <3>3 DEF g, P
 <2>13. CASE new # 0
  <3>1. P = O
    BY <2>5, <2>13
  <3>2. g \in [O -> Int] /\ g[b] = new
    BY <1>1, <2>1, <2>4, <2>6, <2>13, <3>1
  <3>3. OneMore(g, rest, O, b)
    BY <1>1, <2>1, <2>6, <3>1, <3>2 DEF OneMore, Agree
  <3> HIDE DEF g, rest
  <3>4. SumOver(g) = new + SumOver(rest)
    BY <3>2, <3>3, SumRemove
  <3>5. SumOver(g) = 0
    BY <1>1, <2>9, <2>11, <3>4
  <3>6. QED
    BY <3>5 DEF g, P
 <2>14. QED
   BY <2>12, <2>13
<1>10. QED
  BY <1>8, <1>9

LEMMA CommitPosts ==
    ASSUME PostInv, EditInv', stack = <<>> \/ \E f : stack = <<f>>, ~Tidying,
           NEW t \in Trans, CommitCall(t, <<>>)
    PROVE  PostStep
<1>1. /\ EditInv /\ FieldTypes /\ trans[t].splits \in SUBSET Split
      /\ \A s \in trans[t].splits : split[s].live /\ split[s].parent = t
  BY IdleOrder DEF PostInv, EditInv
<1>2. split \in [Split -> SplitRec] /\ \A s \in Split : split[s] \in SplitRec
  BY <1>1 DEF FieldTypes
<1>3. None \notin Account /\ Imbalance \in Account
  BY TransEditAssumption
<1>4. \A s \in Split : Booking(s)
  BY DEF PostInv
<1>5. CASE /\ trans[t].editlevel > 1
           /\ trans' = [trans EXCEPT ![t].editlevel = @ - 1]
           /\ stack' = <<>> /\ split' = split
 <2>1. ~Tidying'
   BY <1>5 DEF Tidying
 <2>2. QED
   BY <1>5, <2>1, UnwoundPosts
<1>6. CASE /\ trans[t].editlevel = 1 /\ split' = split /\ IsBalanced(t)
           /\ StoreTrans(t, trans[t].splits, <<>>)
 <2>1. \A s \in Split : Booking(s)'
   BY <1>4, <1>6 DEF Booking
 <2>2. trans'[t].splits = trans[t].splits =>
         SumOver([s \in Owned(t)' |-> split'[s].amount]) = 0
  <3>1. SUFFICES ASSUME trans'[t].splits = trans[t].splits
                 PROVE  SumOver([s \in Owned(t)' |-> split'[s].amount]) = 0
    OBVIOUS
  <3>2. Owned(t)' = Owned(t)
    BY <1>6, <3>1 DEF Owned, StillHasSplit
  <3>3. [s \in Owned(t)' |-> split'[s].amount] = [s \in Owned(t) |-> split[s].amount]
    BY <1>6, <3>2
  <3>4. QED
    BY <1>6, <3>3 DEF IsBalanced, ImbalanceValue
 <2>3. QED
   BY <1>1, <1>6, <2>1, <2>2, StoringPosts
<1>7. ASSUME trans[t].editlevel = 1,
             NEW b \in BalanceSplits(t), NEW new \in Amount,
             new = (IF split[b].live THEN split[b].amount ELSE 0) - ImbalanceValue(t),
             split' = Balanced(t, b, new), StoreTrans(t, trans[t].splits \cup {b}, <<>>)
      PROVE  PostStep
 <2>1. b \in Split /\ (b \in trans[t].splits \/ ~split[b].live)
   BY <1>1 DEF BalanceSplits, Owned
 <2>2. \A s \in Split \ {b} : split'[s] = split[s]
   BY <1>2, <1>7, <2>1 DEF Balanced
 <2>3. /\ split'[b].dirty
       /\ split[b].live => /\ split'[b].orig_acc = split[b].orig_acc
                           /\ split'[b].orig_parent = split[b].orig_parent
                           /\ split'[b].acc = split[b].acc
                           /\ split'[b].parent = split[b].parent
       /\ ~split[b].live => split'[b].orig_parent = None /\ split'[b].acc = Imbalance
  <3>1. CASE ~split[b].live
    BY <3>1, <1>2, <1>7, <2>1 DEF NewSplit, Balanced
  <3>2. CASE split[b].live
    BY <1>2, <2>1, <3>2, <1>7 DEF SplitRec, Balanced
  <3>3. QED
    BY <3>1, <3>2
 <2>4. ASSUME NEW s \in Split PROVE Booking(s)'
  <3>1. CASE s = b
    BY <1>3, <1>4, <2>3, <3>1 DEF Booking
  <3>2. CASE s # b
    BY <1>4, <2>2, <3>2 DEF Booking
  <3>3. QED
    BY <3>1, <3>2
 <2>5. trans'[t].splits = trans[t].splits \cup {b} =>
         SumOver([s \in Owned(t)' |-> split'[s].amount]) = 0
   BY <1>1, <1>7, BalancedSum
 <2>6. trans[t].splits \cup {b} \in SUBSET Split
   BY <1>1, <2>1
 <2>7. /\ \A s \in trans[t].splits :
            split'[s] = split[s] \/ (split'[s].dirty /\ split'[s].orig_acc = split[s].orig_acc)
       /\ \A s \in (trans[t].splits \cup {b}) \ trans[t].splits :
            ~split[s].live /\ split'[s].dirty
       /\ \A s \in Split \ (trans[t].splits \cup {b}) : split'[s] = split[s]
   BY <1>1, <2>1, <2>2, <2>3
 <2>8. QED
   BY <1>7, <2>4, <2>5, <2>6, <2>7, StoringPosts
<1>8. CASE trans[t].editlevel = 1 /\ CommitDestroyed(t, <<>>)
  BY <1>8, DestroyPosts
<1>9. CASE trans[t].editlevel = 1 /\ CommitKept(t, <<>>)
 <2>1. CASE IsBalanced(t)
   BY <1>6, <1>9, <2>1 DEF CommitKept
 <2>2. CASE ~IsBalanced(t)
  <3>1. PICK b \in BalanceSplits(t) :
          LET old == IF split[b].live THEN split[b].amount ELSE 0
              new == old - ImbalanceValue(t)
          IN  /\ new \in Amount
              /\ split' = Balanced(t, b, new)
              /\ StoreTrans(t, trans[t].splits \cup {b}, <<>>)
    BY <1>9, <2>2 DEF CommitKept
  <3>2. QED
    BY <1>7, <1>9, <3>1
 <2>3. QED
   BY <2>1, <2>2
<1>10. QED
  BY <1>5, <1>8, <1>9 DEF CommitCall

LEMMA CommitEditPosts ==
    ASSUME PostInv, EditInv', NEW t \in Trans, CommitEdit(t)
    PROVE  PostStep
<1>1. stack = <<>> /\ CommitCall(t, <<>>)
  BY DEF CommitEdit, Idle
<1>2. ~Tidying
  BY <1>1 DEF Tidying
<1>3. QED
  BY <1>1, <1>2, CommitPosts

LEMMA ClosePosts ==
    ASSUME PostInv, EditInv', Close
    PROVE  PostStep
<1>1. /\ Under("close") /\ Head(stack).op = "close" /\ ~Tidying /\ EditInv
      /\ \A t \in Trans : Head(stack).t = t => CommitCall(t, Tail(stack))
  BY TransEditAssumption DEF Close, Under, Tidying, PostInv
<1>2. ASSUME NEW t \in Trans, stack = <<Call("close", t, None, {})>>
      PROVE  PostStep
 <2>1. Head(stack).t = t /\ Tail(stack) = <<>> /\ \E f : stack = <<f>>
   BY <1>2, Stack1, CallFields
 <2>2. CommitCall(t, <<>>)
   BY <1>1, <2>1
 <2>3. QED
   BY <1>1, <2>1, <2>2, CommitPosts
<1>3. ASSUME NEW t \in Trans, NEW s \in Split, NEW todo \in SUBSET Split,
             trans[t].editlevel = 2,
             stack = <<Call("close", t, None, {}), Call("adopt", None, s, {}),
                       Call("discard", t, s, {}), Loop("rollback", t, todo)>>
      PROVE  PostStep
 <2>1. /\ Head(stack).t = t
       /\ Tail(stack) = <<Call("adopt", None, s, {}), Call("discard", t, s, {}),
                          Loop("rollback", t, todo)>>
   BY <1>3, Stack4, CallFields
 <2>2. CommitCall(t, Tail(stack))
   BY <1>1, <2>1
 <2>3. /\ trans' = [trans EXCEPT ![t].editlevel = @ - 1]
       /\ stack' = Tail(stack) /\ split' = split
   BY <1>3, <2>2 DEF CommitCall
 <2>4. Head(stack').op = "adopt"
  <3>1. stack' = <<Call("adopt", None, s, {}), Call("discard", t, s, {}),
                   Loop("rollback", t, todo)>>
    BY <2>1, <2>3
  <3>2. Head(stack') = Call("adopt", None, s, {})
    BY <3>1
  <3>3. QED
    BY <3>2, CallFields
 <2>5. ~Tidying' /\ trans[t].editlevel > 1
   BY <1>3, <2>4 DEF Tidying
 <2>6. QED
   BY <1>1, <2>3, <2>5, UnwoundPosts
<1>4. PICK t \in Trans :
        \/ stack = <<Call("close", t, None, {})>> /\ IsOpen(t)
        \/ \E s \in Split, todo \in SUBSET Split :
             /\ RollingBack(t, s, todo) /\ InHand(t, s, "discard")
             /\ trans[t].editlevel = 2
             /\ stack = <<Call("close", t, None, {}), Call("adopt", None, s, {}),
                          Call("discard", t, s, {}), Loop("rollback", t, todo)>>
  BY <1>1, InClose DEF EditInv
<1>5. QED
  BY <1>2, <1>3, <1>4

LEMMA ClientPosts ==
    ASSUME PostInv, EditInv', "move" \notin Calls, ClientCall
    PROVE  PostStep
BY BeginPosts, MallocTransPosts, CommitEditPosts, RollbackEditPosts, MallocSplitPosts,
   SetterPosts DEF ClientCall, MoveSplit

\* The transactions other than the one a loop is at.
LEMMA LoopAside ==
    ASSUME PostInv, EditInv', NEW t \in Trans, NEW op \in {"cleanup", "clear", "rollback"},
           Busy(op, t), stack' = <<>> \/ Head(stack').t = t,
           \A u \in Trans \ {t} : trans'[u] = trans[u],
           \A x \in Split : split'[x] = split[x] \/ split[x].parent = t
    PROVE  \A u \in Trans \ {t} : Posting(u)' /\ SameContent(u)
<1>1. EditInv /\ CallsMade /\ Lists
  BY DEF PostInv, EditInv
<1>2. PICK todo \in SUBSET Split : stack = <<Loop(op, t, todo)>>
  BY <1>1, InLoop
<1>3. Len(stack) = 1 /\ Head(stack).t = t
  BY <1>2, Stack1, LoopFields
<1>4. ASSUME NEW u \in Trans \ {t}
      PROVE  /\ Calm(u) /\ trans'[u] = trans[u]
             /\ \A s \in trans[u].splits : split'[s] = split[s]
 <2>1. Calm(u)
   BY <1>3 DEF Calm, Busy
 <2>2. InOrder(u) /\ trans[u].splits \in SUBSET Split
   BY <1>1, <2>1 DEF Lists, Calm, EditInv, FieldTypes, TransRec
 <2>3. \A s \in trans[u].splits : split[s].parent = u
   BY <1>3, <2>2 DEF InOrder, Dropping
 <2>4. QED
   BY <2>1, <2>2, <2>3
<1>5. QED
  BY <1>4, OthersPosting

\* xaccSplitCommitEdit keeps what is posted for a split that stays.
LEMMA CommitSplitKeeps ==
    ASSUME FieldTypes, NEW s \in Split, NEW ok \in Answers, CommitSplit(s, ok)
    PROVE  /\ split'[s] = FreedSplit \/ ~split'[s].do_free
           /\ ~split[s].do_free => /\ split'[s].amount = split[s].amount
                                   /\ split'[s].reconciled = split[s].reconciled
                                   /\ ~split'[s].do_free
<1> DEFINE settled == [split[s] EXCEPT !.orig_acc = split[s].acc,
                                       !.orig_parent = split[s].parent]
<1>1. split[s] \in SplitRec /\ split \in [Split -> SplitRec] /\ ok \in BOOLEAN
  BY DEF FieldTypes, Answers
<1>2. /\ settled \in SplitRec /\ settled.do_free = split[s].do_free
      /\ settled.amount = split[s].amount /\ settled.reconciled = split[s].reconciled
  BY <1>1 DEF SplitRec
<1>3. CASE ok
 <2>1. split' = [split EXCEPT ![s] =
                    IF settled.do_free THEN FreedSplit
                    ELSE [settled EXCEPT !.dirty = FALSE, !.infant = FALSE]]
   BY <1>3 DEF CommitSplit
 <2> HIDE DEF settled
 <2>2. split'[s] = IF settled.do_free THEN FreedSplit
                   ELSE [settled EXCEPT !.dirty = FALSE, !.infant = FALSE]
   BY <1>1, <2>1
 <2>3. QED
   BY <1>2, <2>2 DEF SplitRec
<1>4. CASE ~ok
 <2>1. split' = [split EXCEPT ![s] = [settled EXCEPT !.do_free = FALSE]]
   BY <1>4 DEF CommitSplit
 <2> HIDE DEF settled
 <2>2. split'[s] = [settled EXCEPT !.do_free = FALSE]
   BY <1>1, <2>1
 <2>3. QED
   BY <1>2, <2>2 DEF SplitRec
<1>5. QED
  BY <1>3, <1>4

LEMMA CommitSplitBooking ==
    ASSUME PostInv, NEW s \in Split, \E ok \in Answers : CommitSplit(s, ok)
    PROVE  /\ \A x \in Split \ {s} : split'[x] = split[x]
           /\ \A x \in Split : Booking(x)'
<1>1. PICK ok \in Answers : CommitSplit(s, ok)
  OBVIOUS
<1>2. /\ \A x \in Split \ {s} : split'[x] = split[x]
      /\ \/ split'[s] = FreedSplit /\ split[s].do_free
         \/ /\ split'[s].live = split[s].live
            /\ split'[s].parent = split[s].parent
            /\ split'[s].orig_parent = split[s].parent
            /\ split'[s].acc = split[s].acc
            /\ split'[s].orig_acc = split[s].acc
  BY <1>1, CommitSplitResult DEF PostInv, EditInv
<1>3. split'[s] = FreedSplit \/ ~split'[s].do_free
  BY <1>1, CommitSplitKeeps DEF PostInv, EditInv
<1>4. \A x \in Split : Booking(x)
  BY DEF PostInv
<1>5. ~FreedSplit.live
  BY DEF FreedSplit
<1>6. Booking(s)'
 <2>1. CASE split'[s] = FreedSplit
   BY <1>5, <2>1 DEF Booking
 <2>2. CASE split'[s] # FreedSplit
   BY <1>2, <1>3, <1>4, <2>2 DEF Booking
 <2>3. QED
   BY <2>1, <2>2
<1>7. ASSUME NEW x \in Split \ {s} PROVE Booking(x)'
  BY <1>2, <1>4, <1>7 DEF Booking
<1>8. QED
  BY <1>2, <1>6, <1>7

\* trans_cleanup_commit changes nothing that is posted.
LEMMA CleanupPosts ==
    ASSUME PostInv, EditInv', NEW t \in Trans, NEW s \in Split, CleanupSplit(t, s)
    PROVE  PostStep
<1>1. /\ EditInv /\ Visiting("cleanup", t, s) /\ stack' = Visited(s)
  BY DEF CleanupSplit, PostInv
<1>2. split[s].live /\ split[s].parent = t
  BY <1>1, LoopSplits
<1>3. PICK ok \in Answers : CommitSplit(s, ok)
  BY <1>2 DEF CleanupSplit
<1>4. trans' = IF ~split[s].do_free THEN trans ELSE [trans EXCEPT ![t].splits = @ \ {s}]
  BY <1>2 DEF CleanupSplit, StillHasSplit
<1>5. Busy("cleanup", t) /\ s \in Head(stack).todo
  BY <1>1 DEF Visiting, Under, Busy
<1>6. PICK todo \in SUBSET Split :
        stack = <<Loop("cleanup", t, todo)>> /\ trans[t].editlevel = 1
  BY <1>1, <1>5, InLoop DEF EditInv
<1>7. Head(stack).todo = todo /\ Head(stack) = Loop("cleanup", t, todo)
  BY <1>6, Stack1, LoopFields
<1>8. stack' = <<Loop("cleanup", t, todo \ {s})>>
  BY <1>1, <1>6, LoopVisited
<1>9. /\ stack' # <<>> /\ Head(stack').op = "cleanup" /\ Head(stack').t = t
      /\ Head(stack').todo = todo \ {s}
  BY <1>8, LoopFields
<1>10. /\ trans'[t].splits = IF split[s].do_free THEN trans[t].splits \ {s}
                                                 ELSE trans[t].splits
       /\ trans'[t].editlevel = 1
       /\ \A u \in Trans \ {t} : trans'[u] = trans[u]
 <2>1. trans \in [Trans -> TransRec] /\ trans[t] \in TransRec
   BY <1>1 DEF EditInv, FieldTypes
 <2>2. CASE ~split[s].do_free
   BY <1>4, <1>6, <2>2
 <2>3. CASE split[s].do_free
   BY <1>6, <2>1, <2>3, <1>4 DEF TransRec
 <2>4. QED
   BY <2>2, <2>3
<1>11. /\ \A x \in Split \ {s} : split'[x] = split[x]
       /\ \A x \in Split : Booking(x)'
  BY <1>3, CommitSplitBooking
<1>12. ~split[s].do_free =>
         /\ split'[s].parent = split[s].parent /\ split'[s].acc = split[s].acc
         /\ split'[s].orig_acc = split[s].acc /\ split'[s].amount = split[s].amount
         /\ split'[s].reconciled = split[s].reconciled /\ ~split'[s].do_free
  BY <1>1, <1>3, CommitSplitResult, CommitSplitKeeps DEF EditInv
<1>13. /\ Busy("cleanup", t)' /\ ~Busy("clear", t) /\ ~Busy("clear", t)'
       /\ IsOpen(t) /\ IsOpen(t)' /\ trans[t].splits \in SUBSET Split
 <2>1. trans \in [Trans -> TransRec]
   BY <1>1 DEF EditInv, FieldTypes
 <2>2. trans[t].splits \in SUBSET Split
   BY <2>1 DEF TransRec
 <2>3. IsOpen(t) /\ IsOpen(t)'
   BY <1>6, <1>10 DEF IsOpen
 <2>4. Busy("cleanup", t)' /\ ~Busy("clear", t)'
   BY <1>9 DEF Busy
 <2>5. ~Busy("clear", t)
   BY <1>5 DEF Busy
 <2>6. QED
   BY <2>2, <2>3, <2>4, <2>5
<1>14. Own(t)' = Own(t)
 <2>1. ASSUME NEW x \in trans[t].splits
       PROVE  x \in Owned(t)' <=> x \in Owned(t)
   BY <1>10, <1>11, <1>12, <1>13 DEF Owned, StillHasSplit
 <2>2. Owned(t)' = Owned(t)
   BY <1>10, <2>1 DEF Owned
 <2>3. \A x \in Owned(t) :
         <<split'[x].acc, split'[x].amount, split'[x].reconciled>>
           = <<split[x].acc, split[x].amount, split[x].reconciled>>
   BY <1>11, <1>12, <1>13 DEF Owned, StillHasSplit
 <2>4. QED
   BY <2>2, <2>3 DEF Own
<1>15. SameContent(t)
 <2>1. CommittedContent(t) = Own(t)
   BY <1>1, <1>5, <1>13, ContentIs DEF ContentCases, Pending
 <2>2. CommittedContent(t)' = Own(t)'
   BY <1>13, ContentNext DEF Pending
 <2>3. QED
   BY <1>14, <2>1, <2>2 DEF SameContent
<1>16. Posting(t)'
 <2>1. CopyTrue(t)' /\ AtRest(t)'
   BY <1>13 DEF CopyTrue, AtRest, Pending
 <2>2. Stored(t)
   BY DEF PostInv, Posting
 <2>3. ASSUME NEW x \in trans'[t].splits \ (todo \ {s})
       PROVE  ~split'[x].do_free /\ split'[x].acc = split'[x].orig_acc
  <3>1. CASE x = s
    BY <1>10, <1>12, <2>3, <3>1
  <3>2. CASE x # s
    BY <1>5, <1>7, <1>13, <2>2, <1>10, <1>11, <2>3, <3>2 DEF Stored
  <3>3. QED
    BY <3>1, <3>2
 <2>4. Stored(t)'
   BY <1>9, <2>3 DEF Stored
 <2>5. QED
   BY <2>1, <2>4 DEF Posting
<1>17. \A u \in Trans \ {t} : Posting(u)' /\ SameContent(u)
  BY <1>2, <1>5, <1>9, <1>10, <1>11, LoopAside
<1>18. QED
  BY <1>11, <1>15, <1>16, <1>17, OnePosted

LEMMA CleanedPosts ==
    ASSUME PostInv, EditInv', NEW t \in Trans, CleanupDone(t)
    PROVE  PostStep
<1>1. /\ EditInv /\ Busy("cleanup", t) /\ \A s \in Head(stack).todo : ~split[s].dirty
      /\ trans' = [trans EXCEPT ![t].editlevel = @ - 1, ![t].orig = NoCopy]
      /\ stack' = Tail(stack) /\ split' = split
  BY DEF CleanupDone, Under, Busy, PostInv
<1>2. PICK todo \in SUBSET Split :
        stack = <<Loop("cleanup", t, todo)>> /\ trans[t].editlevel = 1
  BY <1>1, InLoop DEF EditInv
<1>3. Head(stack).todo = todo /\ stack' = <<>>
  BY <1>1, <1>2, Stack1, LoopFields
<1>4. Tidied(t, todo) /\ ~Busy("clear", t) /\ ~Busy("clear", t)'
  BY <1>1, <1>3 DEF EditInv, Lists, Busy
<1>5. trans \in [Trans -> TransRec] /\ trans[t] \in TransRec
  BY <1>1 DEF EditInv, FieldTypes
<1>6. /\ trans'[t] = [trans[t] EXCEPT !.editlevel = @ - 1, !.orig = NoCopy]
      /\ \A u \in Trans \ {t} : trans'[u] = trans[u]
  BY <1>1, <1>5
<1>7. trans'[t].editlevel = 0 /\ trans'[t].splits = trans[t].splits
  BY <1>2, <1>5, <1>6 DEF TransRec
<1>8. IsOpen(t) /\ ~IsOpen(t)'
  BY <1>2, <1>7 DEF IsOpen
<1>9. \A s \in Split : Booking(s) /\ Booking(s)'
  BY <1>1 DEF PostInv, Booking
<1>10. Posting(t)'
 <2>1. CopyTrue(t)' /\ Stored(t)'
   BY <1>8 DEF CopyTrue, Stored, Pending
 <2>2. Stored(t)
   BY DEF PostInv, Posting
 <2>3. ASSUME NEW s \in trans[t].splits
       PROVE  ~split[s].do_free /\ split[s].acc = split[s].orig_acc
  <3>1. CASE s \in todo
    BY <1>1, <1>9, <1>3, <1>4, <3>1 DEF EditInv, CleanSplits, Booking, Tidied
  <3>2. CASE s \notin todo
    BY <1>1, <1>3, <1>8, <2>2, <3>2 DEF Stored
  <3>3. QED
    BY <3>1, <3>2
 <2>4. AtRest(t)'
   BY <1>1, <1>7, <2>3 DEF AtRest
 <2>5. QED
   BY <2>1, <2>4 DEF Posting
<1>11. SameContent(t)
 <2>1. CommittedContent(t) = Own(t)
   BY <1>1, <1>4, ContentIs DEF ContentCases, Pending
 <2>2. CommittedContent(t)' = Own(t)'
   BY <1>4, <1>8, ContentNext DEF Pending
 <2>3. Owned(t)' = Owned(t)
   BY <1>1, <1>7 DEF Owned, StillHasSplit
 <2>4. Own(t)' = Own(t)
   BY <1>1, <2>3 DEF Own
 <2>5. QED
   BY <2>1, <2>2, <2>4 DEF SameContent
<1>12. \A u \in Trans \ {t} : Posting(u)' /\ SameContent(u)
  BY <1>1, <1>3, <1>6, LoopAside
<1>13. QED
  BY <1>9, <1>10, <1>11, <1>12, OnePosted

\* xaccTransClearSplits and xaccFreeTransaction: nothing is posted any more.
LEMMA ClearPosts ==
    ASSUME PostInv, EditInv', NEW t \in Trans, NEW s \in Split, ClearSplit(t, s)
    PROVE  PostStep
<1>1. /\ EditInv /\ Visiting("clear", t, s) /\ stack' = Visited(s) /\ trans' = trans
  BY DEF ClearSplit, PostInv
<1>2. split[s].live /\ split[s].parent = t
  BY <1>1, LoopSplits
<1>3. Busy("clear", t) /\ ~Busy("cleanup", t)
  BY <1>1 DEF Visiting, Under, Busy
<1>4. PICK todo \in SUBSET Split :
        stack = <<Loop("clear", t, todo)>> /\ trans[t].editlevel = 1
  BY <1>1, <1>3, InLoop DEF EditInv
<1>5. stack' = <<Loop("clear", t, todo \ {s})>>
  BY <1>1, <1>4, LoopVisited
<1>6. stack' # <<>> /\ Head(stack').op = "clear" /\ Head(stack').t = t
  BY <1>5, LoopFields
<1>7. Busy("clear", t)' /\ ~Busy("cleanup", t)' /\ IsOpen(t)'
  BY <1>1, <1>4, <1>6 DEF Busy, IsOpen
<1>8. /\ \A x \in Split \ {s} : split'[x] = split[x]
      /\ \A x \in Split : Booking(x)'
 <2>1. CASE \E ok \in Answers : CommitSplit(s, ok)
   BY <2>1, CommitSplitBooking
 <2>2. CASE split' = split
   BY <2>2 DEF PostInv, Booking
 <2>3. QED
   BY <2>1, <2>2 DEF ClearSplit
<1>9. Posting(t)'
  BY <1>7 DEF Posting, CopyTrue, Stored, AtRest, Pending
<1>10. SameContent(t)
 <2>1. CommittedContent(t) = NoContent
   BY <1>1, <1>3, ContentIs DEF ContentCases, Pending
 <2>2. CommittedContent(t)' = NoContent
   BY <1>7, ContentNext DEF Pending
 <2>3. QED
   BY <2>1, <2>2 DEF SameContent
<1>11. \A u \in Trans \ {t} : Posting(u)' /\ SameContent(u)
  BY <1>1, <1>2, <1>3, <1>6, <1>8, LoopAside
<1>12. QED
  BY <1>8, <1>9, <1>10, <1>11, OnePosted

LEMMA FreePosts ==
    ASSUME PostInv, EditInv', NEW t \in Trans, FreeTransaction(t)
    PROVE  PostStep
<1>1. /\ EditInv /\ Busy("clear", t) /\ trans' = [trans EXCEPT ![t] = FreedTrans]
      /\ stack' = Tail(stack) /\ split' = split
  BY DEF FreeTransaction, LoopDone, Under, Busy, PostInv
<1>2. PICK todo \in SUBSET Split : stack = <<Loop("clear", t, todo)>>
  BY <1>1, InLoop DEF EditInv
<1>3. stack' = <<>> /\ ~Busy("clear", t)'
  BY <1>1, <1>2, Stack1 DEF Busy
<1>4. trans'[t] = FreedTrans /\ \A u \in Trans \ {t} : trans'[u] = trans[u]
  BY <1>1 DEF EditInv, FieldTypes
<1>5. trans'[t].splits = {} /\ ~IsOpen(t)'
  BY <1>4 DEF FreedTrans, IsOpen
<1>6. \A s \in Split : Booking(s)'
  BY <1>1 DEF PostInv, Booking
<1>7. Posting(t)'
  BY <1>5 DEF Posting, CopyTrue, Stored, AtRest, Pending
<1>8. SameContent(t)
 <2>1. CommittedContent(t) = NoContent
   BY <1>1, ContentIs DEF ContentCases, Pending
 <2>2. CommittedContent(t)' = Own(t)'
   BY <1>3, <1>5, ContentNext DEF Pending
 <2>3. Owned(t)' = {}
   BY <1>5 DEF Owned
 <2>4. Own(t)' = NoContent
   BY <2>3 DEF Own, NoContent
 <2>5. QED
   BY <2>1, <2>2, <2>4 DEF SameContent
<1>9. \A u \in Trans \ {t} : Posting(u)' /\ SameContent(u)
  BY <1>1, <1>3, <1>4, LoopAside
<1>10. QED
  BY <1>6, <1>7, <1>8, <1>9, OnePosted

\* One split of a rollback, up to what is left to be done with it.
LEMMA RollbackSplitPosts ==
    ASSUME PostInv, EditInv', NEW t \in Trans, NEW s \in Split, RollbackSplit(t, s)
    PROVE  PostStep
<1>1. EditInv /\ Visiting("rollback", t, s)
  BY DEF RollbackSplit, PostInv
<1>2. Busy("rollback", t) /\ ~Tidying
  BY <1>1 DEF Visiting, Under, Busy, Tidying
<1>3. PICK todo \in SUBSET Split :
        stack = <<Loop("rollback", t, todo)>> /\ trans[t].editlevel = 1
  BY <1>1, <1>2, InLoop DEF EditInv
<1>4. /\ split[s].live /\ split[s].parent = t /\ trans[t].live
      /\ None \notin Trans /\ Booking(s)
  BY <1>1, <1>3, LoopSplits, OpenLive, TransEditAssumption DEF PostInv
<1>5. /\ InOrder(t)
      /\ \A u \in Trans : \A x \in trans[u].splits : split[x].live /\ split[x].parent = u
  BY <1>1, <1>2, <1>3, IdleOrder
<1>6. split[s].orig_parent \in {None, t} /\ s \in trans[t].splits
      /\ (s \in trans[t].orig.splits <=> split[s].orig_parent = t)
 <2>1. RollingBack(t, None, Head(stack).todo) /\ s \in Head(stack).todo
  <3>1. PICK left \in SUBSET Split : stack = <<Loop("rollback", t, left)>>
                                     /\ RollingBack(t, None, left)
    BY <1>1, <1>2, InLoop DEF EditInv
  <3>2. Head(stack).todo = left
    BY <3>1, Stack1, LoopFields
  <3>3. QED
    BY <1>1, <3>1, <3>2 DEF Visiting
 <2>2. s \in trans[t].splits
   BY <2>1 DEF RollingBack
 <2>3. IsOpen(t)
   BY <1>3 DEF IsOpen
 <2>4. QED
   BY <1>5, <2>2, <2>3 DEF InOrder
<1>7. Visited(s) = <<Loop("rollback", t, todo \ {s})>>
  BY <1>3, LoopVisited
<1>8. IsOpen(t)
  BY <1>3 DEF IsOpen
<1>9. ASSUME ~Tidying', \A u \in Trans : IsOpen(u)' <=> IsOpen(u),
             \A u \in Trans : trans'[u].orig = trans[u].orig /\ trans'[u].splits = trans[u].splits,
             \A x \in Split \ {s} : split'[x] = split[x],
             split'[s].dirty, split'[s].orig_acc = split[s].orig_acc, Booking(s)'
      PROVE  PostStep
  BY <1>2, <1>9, <1>4, <1>5, <1>8, QuietPosting
<1>10. CASE ~split[s].dirty /\ stack' = Visited(s) /\ UNCHANGED <<split, trans, fault>>
 <2>1. Head(stack') = Loop("rollback", t, todo \ {s})
   BY <1>7, <1>10
 <2>2. ~Tidying'
   BY <2>1, LoopFields DEF Tidying
 <2>3. QED
   BY <1>2, <1>10, <2>2, QuietPosting DEF IsOpen
<1>11. CASE /\ split[s].dirty /\ split[s].orig_parent = t
            /\ SetParentCall(Reverted(s), s, split[s].orig_parent,
                             <<Call("restore", t, s, {})>> \o Visited(s))
 <2>1. /\ split' = Reverted(s) /\ trans' = trans
       /\ stack' = <<Call("restore", t, s, {})>> \o Visited(s)
   BY <1>1, <1>4, <1>11, RevertStays
 <2>2. ~Tidying'
  <3>1. Call("restore", t, s, {}) \in Frame /\ Loop("rollback", t, todo \ {s}) \in Frame
    BY CallType DEF Loop
  <3>2. stack' = <<Call("restore", t, s, {}), Loop("rollback", t, todo \ {s})>>
    BY <1>7, <2>1, <3>1, Pushed
  <3>3. Head(stack') = Call("restore", t, s, {})
    BY <3>2
  <3>4. QED
    BY <3>3, CallFields DEF Tidying
 <2>3. /\ \A x \in Split \ {s} : split'[x] = split[x]
       /\ split'[s].dirty /\ split'[s].live /\ split'[s].parent = t
       /\ split'[s].orig_parent = t
       /\ split'[s].acc = split[s].orig_acc /\ split'[s].orig_acc = split[s].orig_acc
   BY <1>1, <1>4, <1>11, <2>1, RevertedFields DEF EditInv
 <2>4. Booking(s)'
   BY <1>4, <1>11, <2>3 DEF Booking
 <2>5. \A u \in Trans : IsOpen(u)' <=> IsOpen(u)
   BY <2>1 DEF IsOpen
 <2>6. QED
   BY <1>9, <2>1, <2>2, <2>3, <2>4, <2>5
<1>12. CASE /\ split[s].dirty /\ split[s].orig_parent = None
            /\ SetParentCall(Reverted(s), s, split[s].orig_parent,
                             <<Call("discard", t, s, {})>> \o Visited(s))
 <2> DEFINE rest == <<Call("discard", t, s, {})>> \o Visited(s)
 <2>a. rest = <<Call("discard", t, s, {})>> \o <<Loop("rollback", t, todo \ {s})>>
   BY <1>7
 <2>b. SetParentCall(Reverted(s), s, split[s].orig_parent, rest)
   BY <1>12
 <2> HIDE DEF rest
 <2>1. /\ split' = [Reverted(s) EXCEPT ![s].parent = None]
       /\ trans' = Begun({t})
       /\ stack' = <<Call("close", t, None, {}), Call("adopt", None, s, {})>> \o rest
   BY <1>1, <1>4, <1>12, <2>b, RevertLeaves
 <2>2. ~Tidying'
  <3>1. /\ Call("discard", t, s, {}) \in Frame /\ Loop("rollback", t, todo \ {s}) \in Frame
        /\ Call("close", t, None, {}) \in Frame /\ Call("adopt", None, s, {}) \in Frame
    BY CallType DEF Loop
  <3>2. rest = <<Call("discard", t, s, {}), Loop("rollback", t, todo \ {s})>>
    BY <2>a, <3>1, Pushed
  <3>3. stack' = <<Call("close", t, None, {}), Call("adopt", None, s, {}),
                   Call("discard", t, s, {}), Loop("rollback", t, todo \ {s})>>
    BY <2>1, <3>1, <3>2, PushedTwo
  <3>4. Head(stack') = Call("close", t, None, {})
    BY <3>3
  <3>5. QED
    BY <3>4, CallFields DEF Tidying
 <2>3. /\ \A x \in Split \ {s} : split'[x] = split[x]
       /\ split'[s].dirty /\ split'[s].parent = None
       /\ split'[s].orig_parent = None /\ split'[s].orig_acc = split[s].orig_acc
  <3>1. Reverted(s) \in [Split -> SplitRec] /\ Reverted(s)[s] \in SplitRec
    BY <1>1, RevertedFields DEF EditInv
  <3>2. /\ split'[s] = [Reverted(s)[s] EXCEPT !.parent = None]
        /\ \A x \in Split \ {s} : split'[x] = Reverted(s)[x]
    BY <2>1, <3>1
  <3>3. /\ split'[s].dirty = Reverted(s)[s].dirty /\ split'[s].parent = None
        /\ split'[s].orig_parent = Reverted(s)[s].orig_parent
        /\ split'[s].orig_acc = Reverted(s)[s].orig_acc
    BY <3>1, <3>2 DEF SplitRec
  <3>4. QED
    BY <1>1, <1>12, <3>2, <3>3, RevertedFields DEF EditInv
 <2>4. Booking(s)'
   BY <2>3 DEF Booking
 <2>5. /\ \A u \in Trans : IsOpen(u)' <=> IsOpen(u)
       /\ \A u \in Trans : trans'[u].orig = trans[u].orig /\ trans'[u].splits = trans[u].splits
  <3>1. /\ trans'[t] = [trans[t] EXCEPT !.editlevel = trans[t].editlevel + 1,
                                        !.orig = trans[t].orig]
        /\ \A u \in Trans \ {t} : trans'[u] = trans[u]
   <4>1. FieldTypes /\ trans' = Begun({t}) /\ trans[t].editlevel # 0
     BY <1>1, <1>3, <2>1 DEF EditInv
   <4>2. QED
     BY <4>1, BegunAgain
  <3>2. trans[t] \in TransRec
    BY <1>1 DEF EditInv, FieldTypes
  <3>3. /\ trans'[t].orig = trans[t].orig /\ trans'[t].splits = trans[t].splits
        /\ trans'[t].editlevel = 2
    BY <1>3, <3>1, <3>2 DEF TransRec
  <3>4. IsOpen(t)' <=> IsOpen(t)
    BY <1>8, <3>3 DEF IsOpen
  <3>5. \A u \in Trans \ {t} : IsOpen(u)' <=> IsOpen(u)
    BY <3>1 DEF IsOpen
  <3>6. \A u \in Trans \ {t} :
          trans'[u].orig = trans[u].orig /\ trans'[u].splits = trans[u].splits
    BY <3>1
  <3>7. QED
    BY <3>3, <3>4, <3>5, <3>6
 <2>6. QED
   BY <1>9, <2>2, <2>3, <2>4, <2>5
<1>13. QED
  BY <1>4, <1>6, <1>10, <1>11, <1>12 DEF RollbackSplit

\* What the copy says of a split is posted for it already, dirty or not.
LEMMA RestorePosts ==
    ASSUME PostInv, EditInv', NEW t \in Trans, NEW s \in Split, Restore(t, s)
    PROVE  PostStep
<1>1. /\ EditInv /\ Under("restore") /\ Head(stack).t = t /\ Head(stack).s = s
      /\ Head(stack).op = "restore"
      /\ stack' = Tail(stack) /\ trans' = trans
      /\ split' = [split EXCEPT ![s].amount = trans[t].orig.amount[s],
                                ![s].reconciled = trans[t].orig.reconciled[s],
                                ![s].dirty = FALSE]
  BY DEF Restore, PostInv, Under
<1>2. PICK todo \in SUBSET Split :
        /\ InHand(t, s, "restore") /\ trans[t].editlevel = 1
        /\ stack = <<Call("restore", t, s, {}), Loop("rollback", t, todo)>>
  BY <1>1, InRestore
<1>3. ~Tidying /\ ~Tidying'
 <2>1. stack' = <<Loop("rollback", t, todo)>>
   BY <1>1, <1>2, Stack2
 <2>2. Head(stack').op = "rollback"
   BY <2>1, LoopFields
 <2>3. QED
   BY <1>1, <2>2 DEF Tidying
<1>4. \A u \in Trans, x \in Split : ~Dropping(u, x)
  BY <1>2, CallFields, Stack2 DEF Dropping
<1>5. \A u \in Trans : /\ Calm(u) /\ trans'[u] = trans[u] /\ trans[u].splits \in SUBSET Split
                       /\ \A x \in trans[u].splits : split[x].parent = u
 <2>1. ASSUME NEW u \in Trans
       PROVE  /\ trans[u].splits \in SUBSET Split
              /\ \A x \in trans[u].splits : split[x].parent = u
   BY <1>4, <1>1, <1>3, OrderedLists DEF InOrder, EditInv, FieldTypes, TransRec
 <2>2. \A u \in Trans : Calm(u)
   BY <1>3 DEF Calm, Tidying, Busy
 <2>3. QED
   BY <1>1, <2>1, <2>2
<1>6. /\ split[s].parent = t /\ split[s].acc = split[s].orig_acc /\ ~split[s].do_free
      /\ Booking(s) /\ \A x \in Split : Booking(x)
  BY <1>2 DEF InHand, PostInv
<1>7. /\ \A x \in Split \ {s} : split'[x] = split[x]
      /\ split'[s].live = split[s].live /\ split'[s].parent = split[s].parent
      /\ split'[s].orig_parent = split[s].orig_parent
      /\ split'[s].acc = split[s].acc /\ split'[s].orig_acc = split[s].orig_acc
      /\ split'[s].do_free = split[s].do_free
      /\ split'[s].amount = trans[t].orig.amount[s]
      /\ split'[s].reconciled = trans[t].orig.reconciled[s]
 <2>1. split \in [Split -> SplitRec] /\ split[s] \in SplitRec
   BY <1>1 DEF EditInv, FieldTypes
 <2>2. /\ split'[s] = [split[s] EXCEPT !.amount = trans[t].orig.amount[s],
                         !.reconciled = trans[t].orig.reconciled[s], !.dirty = FALSE]
       /\ \A x \in Split \ {s} : split'[x] = split[x]
   BY <1>1, <2>1
 <2>3. QED
   BY <2>1, <2>2 DEF SplitRec
<1>8. \A x \in Split : Booking(x)'
 <2>1. Booking(s)'
   BY <1>6, <1>7 DEF Booking
 <2>2. ASSUME NEW x \in Split \ {s} PROVE Booking(x)'
   BY <1>6, <1>7, <2>2 DEF Booking
 <2>3. QED
   BY <2>1, <2>2
<1>9. Posting(t)' /\ SameContent(t)
 <2>1. IsOpen(t) /\ IsOpen(t)' /\ Posting(t) /\ Calm(t)
   BY <1>1, <1>2, <1>5 DEF IsOpen, PostInv
 <2>2. trans'[t].orig = trans[t].orig
   BY <1>1
 <2>3. trans[t].orig.splits \in SUBSET Split
   BY <1>1 DEF EditInv, FieldTypes, TransRec, Copy
 <2>4. ASSUME NEW x \in trans[t].orig.splits
       PROVE  /\ split'[x].orig_acc = split[x].orig_acc
              /\ \/ split'[x] = split[x]
                 \/ /\ split'[x].amount = trans[t].orig.amount[x]
                    /\ split'[x].reconciled = trans[t].orig.reconciled[x]
   BY <1>7, <2>3
 <2>5. QED
   BY <1>1, <2>1, <2>2, <2>4, PostingKept
<1>10. \A u \in Trans \ {t} : Posting(u)' /\ SameContent(u)
 <2>1. ASSUME NEW u \in Trans \ {t}
       PROVE  /\ Calm(u) /\ trans'[u] = trans[u]
              /\ \A x \in trans[u].splits : split'[x] = split[x]
   BY <1>5, <1>6, <1>7
 <2>2. QED
   BY <2>1, OthersPosting
<1>11. QED
  BY <1>8, <1>9, <1>10, OnePosted

\* A split that the edit added was never posted.
LEMMA DiscardPosts ==
    ASSUME PostInv, EditInv', NEW t \in Trans, NEW s \in Split, Discard(t, s)
    PROVE  PostStep
<1>1. /\ EditInv /\ Under("discard") /\ Head(stack).t = t /\ Head(stack).s = s
      /\ Head(stack).op = "discard"
      /\ stack' = Tail(stack) /\ trans' = [trans EXCEPT ![t].splits = @ \ {s}]
      /\ split[s].parent = None => split' = [split EXCEPT ![s] = FreedSplit]
  BY DEF Discard, PostInv, Under
<1>2. PICK todo \in SUBSET Split :
        /\ InHand(t, s, "discard") /\ trans[t].editlevel = 1
        /\ stack = <<Call("discard", t, s, {}), Loop("rollback", t, todo)>>
 <2>1. PICK u \in Trans, x \in Split, todo \in SUBSET Split :
         /\ InHand(u, x, "discard") /\ trans[u].editlevel = 1
         /\ stack = <<Call("discard", u, x, {}), Loop("rollback", u, todo)>>
  <3>1. ~Under("adopt")
    BY <1>1 DEF Under
  <3>2. QED
    BY <1>1, <3>1, InDiscard
 <2>2. u = t /\ x = s
   BY <1>1, <2>1, Stack2, CallFields
 <2>3. QED
   BY <2>1, <2>2
<1>3. ~Tidying /\ ~Tidying'
 <2>1. stack' = <<Loop("rollback", t, todo)>>
   BY <1>1, <1>2, Stack2
 <2>2. Head(stack').op = "rollback"
   BY <2>1, LoopFields
 <2>3. QED
   BY <1>1, <2>2 DEF Tidying
<1>4. Len(stack) > 1 /\ stack[Len(stack) - 1] = Call("discard", t, s, {})
  BY <1>2, Stack2
<1>5. /\ \A u \in Trans, x \in Split : Dropping(u, x) => u = t /\ x = s
      /\ InOrder(t)
  BY <1>1, <1>3, <1>4, DroppingOne
<1>6. /\ s \notin trans[t].orig.splits /\ split[s].parent = None /\ None \notin Trans
  BY <1>2, TransEditAssumption DEF InHand
<1>7. split'[s] = FreedSplit /\ \A x \in Split \ {s} : split'[x] = split[x]
  BY <1>1, <1>6 DEF EditInv, FieldTypes
<1>8. /\ trans'[t].orig = trans[t].orig /\ trans'[t].editlevel = 1
      /\ \A u \in Trans \ {t} : trans'[u] = trans[u]
 <2>1. trans \in [Trans -> TransRec] /\ trans[t] \in TransRec
   BY <1>1 DEF EditInv, FieldTypes
 <2>2. /\ trans'[t] = [trans[t] EXCEPT !.splits = trans[t].splits \ {s}]
       /\ \A u \in Trans \ {t} : trans'[u] = trans[u]
   BY <1>1, <2>1
 <2>3. QED
   BY <1>2, <2>1, <2>2 DEF TransRec
<1>9. \A x \in Split : Booking(x)'
 <2>1. ~split'[s].live
   BY <1>7 DEF FreedSplit
 <2>2. \A x \in Split : Booking(x)
   BY DEF PostInv
 <2>3. ASSUME NEW x \in Split \ {s} PROVE Booking(x)'
   BY <1>7, <2>2, <2>3 DEF Booking
 <2>4. QED
   BY <2>1, <2>3 DEF Booking
<1>10. \A u \in Trans : Calm(u)
  BY <1>3 DEF Calm, Tidying, Busy
<1>11. Posting(t)' /\ SameContent(t)
 <2>1. IsOpen(t) /\ IsOpen(t)' /\ Posting(t) /\ Calm(t)
   BY <1>2, <1>8, <1>10 DEF IsOpen, PostInv
 <2>2. trans[t].orig.splits \in SUBSET Split
   BY <1>1 DEF EditInv, FieldTypes, TransRec, Copy
 <2>3. \A x \in trans[t].orig.splits : split'[x] = split[x]
   BY <1>6, <1>7, <2>2
 <2>4. \A x \in trans[t].orig.splits : split'[x].orig_acc = split[x].orig_acc
   BY <2>3
 <2>5. QED
   BY <1>1, <1>8, <2>1, <2>3, <2>4, PostingKept
<1>12. \A u \in Trans \ {t} : Posting(u)' /\ SameContent(u)
 <2>1. ASSUME NEW u \in Trans \ {t}
       PROVE  /\ Calm(u) /\ trans'[u] = trans[u]
              /\ \A x \in trans[u].splits : split'[x] = split[x]
  <3>1. InOrder(u) /\ trans[u].splits \in SUBSET Split
    BY <1>1, <1>3, OrderedLists DEF EditInv, FieldTypes, TransRec
  <3>2. \A x \in trans[u].splits : split[x].parent = u
    BY <1>5, <3>1 DEF InOrder
  <3>3. s \notin trans[u].splits
    BY <1>6, <3>2
  <3>4. QED
    BY <1>7, <1>8, <1>10, <3>1, <3>3
 <2>2. QED
   BY <2>1, OthersPosting
<1>13. QED
  BY <1>9, <1>11, <1>12, OnePosted

LEMMA AdoptPosts ==
    ASSUME PostInv, EditInv', NEW s \in Split, Adopt(s)
    PROVE  PostStep
<1>1. /\ EditInv /\ Under("adopt") /\ Head(stack).s = s
      /\ split' = [split EXCEPT ![s].dirty = TRUE]
      /\ Head(stack).t \notin Trans => stack' = Tail(stack) /\ trans' = trans
  BY DEF Adopt, PostInv
<1>2. PICK t \in Trans, todo \in SUBSET Split :
        /\ InHand(t, s, "discard") /\ trans[t].editlevel = 1
        /\ stack = <<Call("adopt", None, s, {}), Call("discard", t, s, {}),
                     Loop("rollback", t, todo)>>
 <2>1. PICK t \in Trans, x \in Split, todo \in SUBSET Split :
         /\ InHand(t, x, "discard") /\ trans[t].editlevel = 1
         /\ stack = <<Call("adopt", None, x, {}), Call("discard", t, x, {}),
                      Loop("rollback", t, todo)>>
  <3>1. ~Under("discard")
    BY <1>1 DEF Under
  <3>2. QED
    BY <1>1, <3>1, InDiscard
 <2>2. x = s
   BY <1>1, <2>1, Stack3, CallFields
 <2>3. QED
   BY <2>1, <2>2
<1>3. /\ Head(stack).t = None /\ Head(stack).op = "adopt"
      /\ Len(stack) > 1 /\ stack[Len(stack) - 1] = Call("discard", t, s, {})
      /\ Tail(stack) = <<Call("discard", t, s, {}), Loop("rollback", t, todo)>>
  BY <1>2, Stack3, CallFields
<1>4. /\ stack' = <<Call("discard", t, s, {}), Loop("rollback", t, todo)>>
      /\ trans' = trans /\ ~Tidying
  BY <1>1, <1>3, TransEditAssumption DEF Tidying
<1>5. ~Tidying'
 <2>1. Head(stack') = Call("discard", t, s, {})
   BY <1>4
 <2>2. QED
   BY <2>1, CallFields DEF Tidying
<1>6. /\ \A u \in Trans, x \in Split : Dropping(u, x) => u = t /\ x = s
      /\ split[s].parent = None /\ split[s].dirty /\ None \notin Trans /\ IsOpen(t)
  BY <1>1, <1>2, <1>3, <1>4, DroppingOne, TransEditAssumption DEF InHand, IsOpen
<1>7. split' = split
 <2>1. split \in [Split -> SplitRec] /\ split[s] \in SplitRec
   BY <1>1 DEF EditInv, FieldTypes
 <2>2. split[s].dirty = TRUE
   BY <1>6, <2>1 DEF SplitRec
 <2>3. [split[s] EXCEPT !.dirty = TRUE] = split[s]
   BY <2>1, <2>2 DEF SplitRec
 <2>4. split' = [split EXCEPT ![s] = [split[s] EXCEPT !.dirty = TRUE]]
   BY <1>1
 <2>5. QED
   BY <2>1, <2>3, <2>4
<1>8. QED
  BY <1>4, <1>5, <1>7, QuietPosting DEF IsOpen

\* A rollback ends with the transaction as it was.
LEMMA RolledBackPosts ==
    ASSUME PostInv, EditInv', NEW t \in Trans, RollbackDone(t)
    PROVE  PostStep
<1>1. /\ EditInv /\ Busy("rollback", t) /\ Head(stack).todo = {} /\ ~Tidying
      /\ trans' = [trans EXCEPT ![t].editlevel = @ - 1, ![t].orig = NoCopy,
                                ![t].do_free = FALSE]
      /\ stack' = Tail(stack) /\ split' = split
  BY DEF RollbackDone, LoopDone, Under, Busy, PostInv, Tidying
<1>2. PICK todo \in SUBSET Split :
        /\ stack = <<Loop("rollback", t, todo)>> /\ trans[t].editlevel = 1
        /\ RollingBack(t, None, todo)
  BY <1>1, InLoop DEF EditInv
<1>3. todo = {} /\ stack' = <<>>
  BY <1>1, <1>2, Stack1, LoopFields
<1>4. /\ InOrder(t) /\ trans[t].splits \in SUBSET Split
      /\ \A s \in trans[t].splits : split[s].live /\ split[s].parent = t
  BY <1>1, <1>2, IdleOrder
<1>5. \A s \in trans[t].splits :
        /\ ~split[s].dirty /\ ~split[s].do_free
        /\ split[s].orig_parent = t /\ split[s].acc = split[s].orig_acc
 <2>1. ASSUME NEW s \in trans[t].splits
       PROVE  ~split[s].dirty
   BY <1>2, <1>3, <1>4, TransEditAssumption DEF RollingBack
 <2>2. \A s \in Split : Booking(s)
   BY DEF PostInv
 <2>3. QED
   BY <1>1, <1>4, <2>1, <2>2 DEF Booking, EditInv, CleanSplits
<1>6. /\ trans'[t].editlevel = 0 /\ trans'[t].splits = trans[t].splits
      /\ \A u \in Trans \ {t} : trans'[u] = trans[u]
 <2>1. trans \in [Trans -> TransRec] /\ trans[t] \in TransRec
   BY <1>1 DEF EditInv, FieldTypes
 <2>2. /\ trans'[t] = [trans[t] EXCEPT !.editlevel = @ - 1, !.orig = NoCopy,
                                       !.do_free = FALSE]
       /\ \A u \in Trans \ {t} : trans'[u] = trans[u]
   BY <1>1, <2>1
 <2>3. QED
   BY <1>2, <2>1, <2>2 DEF TransRec
<1>7. IsOpen(t) /\ ~IsOpen(t)' /\ Pending(t)
  BY <1>1, <1>2, <1>6 DEF IsOpen, Pending, Busy
<1>8. \A s \in Split : Booking(s)'
  BY <1>1 DEF PostInv, Booking
<1>9. Posting(t)'
  BY <1>1, <1>5, <1>6, <1>7 DEF Posting, CopyTrue, Stored, AtRest, Pending
<1>10. trans[t].orig.splits = trans[t].splits
  BY <1>4, <1>5, <1>7 DEF InOrder
<1>11. Own(t)' = Copied(t)
 <2>1. Owned(t)' = trans[t].orig.splits
   BY <1>1, <1>4, <1>5, <1>6, <1>10 DEF Owned, StillHasSplit
 <2>2. CopyTrue(t)
   BY DEF PostInv, Posting
 <2>3. \A s \in trans[t].orig.splits :
         <<split'[s].acc, split'[s].amount, split'[s].reconciled>>
           = <<split[s].orig_acc, trans[t].orig.amount[s], trans[t].orig.reconciled[s]>>
   BY <1>1, <1>5, <1>7, <1>10, <2>2 DEF CopyTrue
 <2>4. QED
   BY <2>1, <2>3 DEF Own, Copied
<1>12. SameContent(t)
 <2>1. CommittedContent(t) = Copied(t)
   BY <1>1, <1>7, ContentIs DEF ContentCases
 <2>2. ~Busy("clear", t)' /\ ~Pending(t)'
   BY <1>3, <1>7 DEF Busy, Pending
 <2>3. CommittedContent(t)' = Own(t)'
   BY <2>2, ContentNext
 <2>4. QED
   BY <1>11, <2>1, <2>3 DEF SameContent
<1>13. \A u \in Trans \ {t} : Posting(u)' /\ SameContent(u)
  BY <1>1, <1>3, <1>6, LoopAside
<1>14. QED
  BY <1>8, <1>9, <1>12, <1>13, OnePosted

LEMMA CallPosts ==
    ASSUME PostInv, EditInv', CallStep
    PROVE  PostStep
<1>1. ASSUME NEW t \in Trans, NEW s \in Split, ReadFreed(t, s) PROVE PostStep
 <2>1. PICK op \in {"cleanup", "clear", "rollback"} : Visiting(op, t, s)
   BY <1>1 DEF ReadFreed
 <2>2. split[s].live
   BY <2>1, LoopSplits DEF PostInv
 <2>3. QED
   BY <1>1, <2>2 DEF ReadFreed
<1>2. QED
  BY <1>1, ClosePosts, AdoptPosts, CleanedPosts, FreePosts, RolledBackPosts, CleanupPosts,
     ClearPosts, RollbackSplitPosts, RestorePosts, DiscardPosts DEF CallStep

\* Nothing is seen of a step in which nothing happens.
LEMMA StillPosts ==
    ASSUME PostInv, EditInv', UNCHANGED vars
    PROVE  PostStep
<1>1. split' = split /\ trans' = trans /\ stack' = stack
  BY DEF vars
<1>2. \A s \in Split : Booking(s)'
  BY <1>1 DEF PostInv, Booking
<1>3. \A t \in Trans : Posting(t)'
  BY <1>1 DEF PostInv, Posting, CopyTrue, Stored, AtRest, Pending, IsOpen, Busy
<1>4. ASSUME NEW t \in Trans PROVE SameContent(t)
 <2>1. CommittedContent(t) = IF Pending(t) THEN Copied(t)
                             ELSE IF Busy("clear", t) THEN NoContent ELSE Own(t)
   BY ContentIs DEF ContentCases, PostInv
 <2>2. CommittedContent(t)' = IF Pending(t)' THEN Copied(t)'
                              ELSE IF Busy("clear", t)' THEN NoContent ELSE Own(t)'
   BY ContentNext
 <2>3. (Pending(t)' <=> Pending(t)) /\ (Busy("clear", t)' <=> Busy("clear", t))
   BY <1>1 DEF Pending, IsOpen, Busy
 <2>4. Copied(t)' = Copied(t) /\ Own(t)' = Own(t)
   BY <1>1 DEF Copied, Own, Owned, StillHasSplit
 <2>5. QED
   BY <2>1, <2>2, <2>3, <2>4 DEF SameContent
<1>5. QED
  BY <1>2, <1>3, <1>4 DEF PostStep

LEMMA InitPosts ==
    ASSUME Init
    PROVE  PostInv /\ \A t \in Trans : CommittedContent(t) = LoadedContent(t)
<1>1. EditInv
  BY InitEditInv
<1>2. /\ stack = <<>> /\ \A s \in Split : split[s] = LoadedSplit(s)
      /\ trans = [t \in Trans |->
                    [FreedTrans EXCEPT !.live = LoadedInto(t) # {}, !.splits = LoadedInto(t)]]
  BY DEF Init
<1>3. ASSUME NEW s \in Split
      PROVE  /\ split[s].live <=> Loaded[s] # None
             /\ ~split[s].do_free
             /\ split[s].live => /\ split[s].parent = Loaded[s].parent
                                 /\ split[s].acc = Loaded[s].acc /\ split[s].acc # None
                                 /\ split[s].orig_acc = Loaded[s].acc
                                 /\ split[s].amount = Loaded[s].amount
                                 /\ split[s].reconciled = Loaded[s].reconciled
 <2>1. CASE Loaded[s] = None
  <3>1. split[s] = FreedSplit
    BY <1>2, <2>1 DEF LoadedSplit
  <3>2. ~split[s].live /\ ~split[s].do_free
    BY <3>1 DEF FreedSplit
  <3>3. QED
    BY <2>1, <3>2
 <2>2. CASE Loaded[s] # None
  <3>1. split[s] = [live |-> TRUE, infant |-> FALSE, dirty |-> FALSE, do_free |-> FALSE,
                    parent |-> Loaded[s].parent, orig_parent |-> Loaded[s].parent,
                    acc |-> Loaded[s].acc, orig_acc |-> Loaded[s].acc,
                    amount |-> Loaded[s].amount, reconciled |-> Loaded[s].reconciled]
    BY <1>2, <2>2 DEF LoadedSplit
  <3>2. split[s].live = TRUE /\ split[s].do_free = FALSE
    BY <3>1
  <3>3. /\ split[s].parent = Loaded[s].parent
        /\ split[s].acc = Loaded[s].acc
        /\ split[s].orig_acc = Loaded[s].acc
        /\ split[s].amount = Loaded[s].amount
        /\ split[s].reconciled = Loaded[s].reconciled
    BY <3>1
  <3>4. Loaded[s].acc # None
    BY <2>2, TransEditAssumption
  <3>5. QED
    BY <2>2, <3>2, <3>3, <3>4
 <2>3. QED
   BY <2>1, <2>2
<1>4. ASSUME NEW t \in Trans
      PROVE  trans[t].editlevel = 0 /\ trans[t].splits = LoadedInto(t)
 <2> DEFINE there == LoadedInto(t) # {}
            listed == LoadedInto(t)
 <2>1. trans[t] = [FreedTrans EXCEPT !.live = there, !.splits = listed]
   BY <1>2
 <2> HIDE DEF there, listed
 <2>2. trans[t].editlevel = 0 /\ trans[t].splits = listed
   BY <2>1 DEF FreedTrans
 <2>3. QED
   BY <2>2 DEF listed
<1>5. \A s \in Split : Booking(s)
  BY <1>3 DEF Booking
<1>6. ASSUME NEW t \in Trans PROVE ~IsOpen(t) /\ Posting(t)
 <2>1. ~IsOpen(t)
   BY <1>4 DEF IsOpen
 <2>2. AtRest(t)
   BY <1>3, <1>4 DEF AtRest, LoadedInto
 <2>3. QED
   BY <2>1, <2>2 DEF Posting, CopyTrue, Stored, Pending
<1>7. ASSUME NEW t \in Trans PROVE CommittedContent(t) = LoadedContent(t)
 <2>1. CommittedContent(t) = Own(t)
   BY <1>1, <1>2, <1>6, ContentIs DEF ContentCases, Pending, Busy
 <2>2. Owned(t) = LoadedInto(t)
   BY <1>3, <1>4 DEF Owned, LoadedInto, StillHasSplit
 <2>3. \A s \in LoadedInto(t) :
         <<split[s].acc, split[s].amount, split[s].reconciled>>
           = <<Loaded[s].acc, Loaded[s].amount, Loaded[s].reconciled>>
   BY <1>3 DEF LoadedInto
 <2>4. QED
   BY <2>1, <2>2, <2>3 DEF Own, LoadedContent
<1>8. QED
  BY <1>1, <1>5, <1>6, <1>7 DEF PostInv

LEMMA LedgerSum ==
    ASSUME NEW f
    PROVE  L!SumOver(f) = SumOver(f)
BY DEF SumOver, L!SumOver, FoldFunction, L!FoldFunction, FoldFunctionOnSet,
       L!FoldFunctionOnSet, MapThenFoldSet, L!MapThenFoldSet

\* Every step is one of the ledger, or is not to be seen in it.
Book == [t \in Trans |-> CommittedContent(t)]

LEMMA PostsLedger ==
    ASSUME PostStep
    PROVE  [L!NextLedger]_Book
<1>1. Book' = [t \in Trans |-> CommittedContent(t)']
  BY DEF Book
<1>2. CASE \A t \in Trans : SameContent(t)
 <2>1. Book' = Book
   BY <1>1, <1>2 DEF SameContent, Book
 <2>2. QED
   BY <2>1
<1>3. ASSUME NEW t \in Trans, ~SameContent(t), Fit(t, CommittedContent(t)'),
             \A u \in Trans \ {t} : SameContent(u)
      PROVE  L!NextLedger
 <2> DEFINE content == CommittedContent(t)'
            book == Book
            after == Book'
 <2>1. after = [u \in Trans |-> CommittedContent(u)'] /\ book = [u \in Trans |-> CommittedContent(u)]
   BY <1>1 DEF Book
 <2>2. after[t] = content /\ book[t] = CommittedContent(t)
   BY <2>1
 <2>3. content # book[t]
   BY <1>3, <2>2 DEF SameContent
 <2>4. \A u \in Trans \ {t} : after[u] = book[u] /\ book[u] = CommittedContent(u)
   BY <1>3, <2>1 DEF SameContent
 <2>5. after = [book EXCEPT ![t] = content]
   BY <2>1, <2>2, <2>4
 <2>6. /\ DOMAIN content \subseteq Split
       /\ \A s \in DOMAIN content : content[s] \in L!Posting
       /\ \A u \in Trans \ {t} : DOMAIN book[u] \cap DOMAIN content = {}
       /\ L!Total(content) = 0
   BY <1>3, <2>4, LedgerSum DEF Fit, L!Posting, L!Total
 <2>7. L!Post(t, content)
   BY <2>3, <2>5, <2>6 DEF L!Post, Book
 <2>8. QED
   BY <2>2, <2>7 DEF L!NextLedger, Book
<1>4. QED
  BY <1>2, <1>3 DEF PostStep

\* Edits are atomic and isolated, rollbacks invisible, and what is posted sums to
\* zero, whatever the backend refuses, while no split is moved to another transaction.
THEOREM LedgerHolds ==
    ASSUME "move" \notin Calls
    PROVE  Spec => Ledger
<1>1. Spec => []EditInv
  BY EditInvHolds
<1>2. Init => PostInv
  BY InitPosts
<1>3. PostInv /\ EditInv' /\ [Next]_vars => PostStep
  BY ClientPosts, CallPosts, StillPosts DEF Next
<1>4. EditInv' /\ PostStep => PostInv'
  BY DEF PostStep, PostInv
<1>5. PostStep => [L!NextLedger]_Book
  BY PostsLedger
<1>6. Init => L!InitLedger
  BY InitPosts DEF L!InitLedger
<1>7. QED
  BY <1>1, <1>2, <1>3, <1>4, <1>5, <1>6, PTL DEF Spec, Ledger, L!LedgerSpec, Book

=============================================================================
