------------------------------ MODULE InvoiceLots ------------------------------
(***************************************************************************)
(* The lots in which the documents of one owner (invoices and credit notes)*)
(* are offset by payments and by each other, in one account: posting and   *)
(* unposting (src/libgnucash/engine/gncInvoice.c), payments and their      *)
(* application (gncOwner.c), the merging of splits (Scrub2.cpp) and the    *)
(* lots themselves (gnc-lot.cpp).                                          *)
(*                                                                         *)
(* Only the splits in the account are modelled, each by its transaction,   *)
(* its lot and its amount: splits that agree in all are interchangeable, so*)
(* that they form a bag.  The order of the list of lots that is worked on, *)
(* which depends on dates and on how lots were found, is left open.  A lot *)
(* without splits has no account and is not found again; that it is in     *)
(* memory only shows while a list has it.                                  *)
(***************************************************************************)
EXTENDS Integers, FiniteSets, Sequences, SequencesExt, Bags, Sums

CONSTANTS
    Doc,       \* invoices and credit notes
    Total,     \* [Doc -> Int], the amount of the split a document posts
    Payment,   \* transactions of type TXN_TYPE_PAYMENT
    Amounts,   \* what may be paid, or refunded
    Link,      \* transactions of type TXN_TYPE_LINK; bound: how many there are
    MaxLots,   \* bound: lots
    None

ASSUME InvoiceLotsAssumption ==
    /\ Total \in [Doc -> Int]
    /\ Amounts \subseteq Int \ {0}
    /\ MaxLots \in Nat
    /\ IsFiniteSet(Doc) /\ None \notin Doc \cup 1 .. MaxLots
    /\ Doc \cap (Payment \cup Link) = {} /\ Payment \cap Link = {}

VARIABLES
    splits,    \* a bag of splits
    invoice,   \* the document each lot is attached to, None for the owner's
    paid,      \* the amount of each payment, 0 for none
    list,      \* the lots gncOwnerAutoApplyPaymentsWithLots works on
    left, right,  \* its place in the list, 0 when it is not running
    leftBal,   \* left_lot_bal
    single,    \* history: the lots it has always seen with one split, or none
    pending,   \* a bag: the splits of links gncInvoiceUnpost has still to look at
    unposted,  \* the lot of the document it takes back
    fault      \* whether a freed split was read

applyVars == <<list, left, right, leftBal, single>>
unpostVars == <<pending, unposted>>
lotVars == <<splits, invoice, paid, applyVars, unpostVars, fault>>

Lot == 1 .. MaxLots
Txn == Doc \cup Payment \cup Link

-----------------------------------------------------------------------------
SplitRec(t, l, a) == [txn |-> t, lot |-> l, amount |-> a]

Of(bag, P(_)) == {s \in BagToSet(bag) : P(s)}
SumOf(bag, P(_)) == SumOver([s \in Of(bag, P) |-> s.amount * bag[s]])

InLot(l) == [s \in Of(splits, LAMBDA s : s.lot = l) |-> splits[s]]
OfTxn(t) == Of(splits, LAMBDA s : s.txn = t)

\* gnc_lot_get_balance
Balance(l) == SumOf(splits, LAMBDA s : s.lot = l)

Empty(l) == InLot(l) = EmptyBag
Closed(l) == ~ Empty(l) /\ Balance(l) = 0      \* gnc_lot_is_closed
HasDoc(l) == invoice[l] # None
LotsOf(d) == {l \in Lot : invoice[l] = d}
Posted(d) == LotsOf(d) # {}

\* xaccAccountFindOpenLots
OpenLots == {l \in Lot : Balance(l) # 0}

\* A lot nothing refers to.
FreeLots == {l \in Lot : Empty(l) /\ ~ HasDoc(l) /\ l # unposted /\ l \notin ToSet(list)}
NewLot(l) == l = Min(FreeLots)

\* The lot has one split at most.
Alone(l) == \A s, u \in DOMAIN InLot(l) : s = u /\ splits[s] = 1

Abs(n) == IF n < 0 THEN - n ELSE n
Sign(n) == n > 0                               \* gnc_numeric_positive_p

\* The bag without the splits of transaction t, which is destroyed.
Without(t) == [s \in {u \in DOMAIN splits : u.txn # t} |-> splits[s]]

Idle == list = <<>> /\ unposted = None /\ ~ fault

\* gncOwnerAutoApplyPaymentsWithLots is called.
Applies(lots) ==
    /\ list' = lots
    /\ left' = 0 /\ right' = Len(lots) /\ leftBal' = 0
    /\ single' = {l \in ToSet(lots) : Alone(l)'}

-----------------------------------------------------------------------------
\* gncInvoicePostToAccount, with autopay or not.
PostToAccount(d) ==
    /\ Idle
    /\ ~ Posted(d)
    /\ \E l \in FreeLots :
         /\ NewLot(l)
         /\ invoice' = [invoice EXCEPT ![l] = d]
         /\ splits' = splits (+) SetToBag({SplitRec(d, l, Total[d])})
         /\ \/ UNCHANGED applyVars
            \/ \E others \in SetToSeqs({o \in OpenLots : Sign(Balance(o)) # Sign(Total[d])}) :
                 Applies(<<l>> \o others)
    /\ UNCHANGED <<paid, unpostVars, fault>>

\* gncOwnerCreatePaymentLotSecs, and gncOwnerApplyPaymentSecs with the lots the
\* user selected.
ApplyPayment(p, amount, lots) ==
    /\ Idle
    /\ paid[p] = 0
    /\ paid' = [paid EXCEPT ![p] = amount]
    /\ \E l \in FreeLots :
         /\ NewLot(l)
         /\ splits' = splits (+) SetToBag({SplitRec(p, l, - amount)})
         /\ \E others \in SetToSeqs(lots) : Applies(<<l>> \o others)
    /\ UNCHANGED <<invoice, unpostVars, fault>>

\* gncOwnerApplyPaymentSecs with no amount: documents and earlier payments are
\* applied to each other.
ApplyLots(lots) ==
    /\ Idle
    /\ Cardinality(lots) > 1
    /\ UNCHANGED splits
    /\ \E order \in SetToSeqs(lots) : Applies(order)
    /\ UNCHANGED <<invoice, paid, unpostVars, fault>>

\* The user deletes a payment or a link between documents.
DeleteTxn(t) ==
    /\ Idle
    /\ OfTxn(t) # {}
    /\ splits' = Without(t)
    /\ paid' = [p \in Payment |-> IF p = t THEN 0 ELSE paid[p]]
    /\ UNCHANGED <<invoice, applyVars, unpostVars, fault>>

-----------------------------------------------------------------------------
(***************************************************************************)
(* Merging: xaccScrubMergeLotSubSplits of the lots.                        *)
(***************************************************************************)
\* Mutant of Merged: splits of one transaction in one lot stay apart.
Unmerged(bag, lots) == bag

Merged(bag, lots) ==
    LET merges(s) == s.lot \in lots /\ s.txn \notin Doc
        places == {<<s.txn, s.lot>> : s \in Of(bag, merges)}
        sum(p) == SumOf(bag, LAMBDA s : s.txn = p[1] /\ s.lot = p[2])
    IN
    [s \in Of(bag, LAMBDA s : ~ merges(s)) |-> bag[s]]
    (+) SetToBag({SplitRec(p[1], p[2], sum(p)) : p \in places})

\* get_ll_transaction_from_lot, which takes any lot for a document's.
LinksOf(l) ==
    {t \in Link : /\ \E s \in OfTxn(t) : s.lot = l
                  /\ \E s \in OfTxn(t) : s.lot # l}

\* A link transaction that is not in memory.
NewLinks == {t \in Link : OfTxn(t) = {} /\ \A s \in BagToSet(pending) : s.txn # t}

LinkFor(from, to) ==
    IF LinksOf(from) # {} THEN LinksOf(from)
    ELSE IF LinksOf(to) # {} THEN LinksOf(to)
    ELSE {t \in NewLinks : t = CHOOSE u \in NewLinks : TRUE}

\* Mutant of CreateLotLink: the link is not limited by the other lot's balance.
CreateLotLinkUnlimited(from, to) ==
    \E txn \in LinkFor(from, to) :
        splits' = Merged(splits (+) SetToBag({SplitRec(txn, from, - Balance(from))})
                                (+) SetToBag({SplitRec(txn, to, Balance(from))}),
                         {from, to})

\* gncOwnerCreateLotLink
CreateLotLink(from, to) ==
    LET f == Balance(from)
        t == Balance(to)
        fromBal == IF Abs(f) > Abs(t) THEN - t ELSE f
        toBal == IF Abs(f) > Abs(t) THEN t ELSE - f
    IN
    \E txn \in LinkFor(from, to) :
        splits' = Merged(splits (+) SetToBag({SplitRec(txn, from, - fromBal)})
                                (+) SetToBag({SplitRec(txn, to, - toBal)}),
                         {from, to})

(***************************************************************************)
(* gncOwnerFindOffsettingSplit: the splits that no other is better than,   *)
(* one of which is found, whichever comes first.                           *)
(***************************************************************************)
Flags(s, target) ==
    (IF Abs(s.amount) = Abs(target) THEN 8
     ELSE IF Abs(s.amount) > Abs(target) THEN 4 ELSE 2)
    + (IF s.txn \in Link THEN 0 ELSE 1)

Offsetting(l, target) ==
    LET candidates == {s \in DOMAIN InLot(l) : s.amount # 0 /\ Sign(s.amount) # Sign(target)}
        better(s, u) == /\ Flags(s, target) >= Flags(u, target)
                        /\ Abs(s.amount) > Abs(u.amount)
    IN {s \in candidates : \A u \in candidates : ~ better(u, s)}

\* Mutant of OffsetLots: the rest of a split that is reduced is lost.
OffsetLotsLosing(from, to) ==
    LET target == Balance(to)
        found == Offsetting(from, target)
    IN
    IF HasDoc(from) \/ target = 0 \/ found = {} THEN UNCHANGED splits
    ELSE \E s \in found :
           LET moved == IF Abs(s.amount) > Abs(target) THEN - target ELSE s.amount
           IN splits' = (splits (-) SetToBag({s})) (+) SetToBag({SplitRec(s.txn, to, moved)})

\* gncOwnerOffsetLots, with gncOwnerReduceSplitTo: of a split that is bigger than
\* what is needed the rest stays where it is.
OffsetLots(from, to) ==
    LET target == Balance(to)
        found == Offsetting(from, target)
    IN
    IF HasDoc(from) \/ target = 0 \/ found = {} THEN UNCHANGED splits
    ELSE \E s \in found :
           LET rest == IF Abs(s.amount) > Abs(target)
                       THEN SetToBag({[s EXCEPT !.amount = s.amount + target]})
                       ELSE EmptyBag
               moved == IF Abs(s.amount) > Abs(target) THEN - target ELSE s.amount
           IN splits' = ((splits (-) SetToBag({s})) (+) rest)
                        (+) SetToBag({SplitRec(s.txn, to, moved)})

-----------------------------------------------------------------------------
(***************************************************************************)
(* gncOwnerAutoApplyPaymentsWithLots.                                      *)
(***************************************************************************)
\* Mutant of Open: a lot counts as done once a payment or a link is in it.
OpenWhole(l) == ~ Empty(l) /\ Alone(l)

\* A lot without splits is passed over, and destroyed; so is one that is closed.
Open(l) == ~ Empty(l) /\ ~ Closed(l)

\* Lots of opposite signs: two documents are linked, a payment is moved to a
\* document, the smaller of two payments is closed with a part of the bigger.
Balances(l, r) ==
    IF HasDoc(l) /\ HasDoc(r) THEN CreateLotLink(l, r)
    ELSE IF ~ HasDoc(l) /\ ~ HasDoc(r)
    THEN IF Abs(leftBal) >= Abs(Balance(r)) THEN OffsetLots(l, r) ELSE OffsetLots(r, l)
    ELSE IF HasDoc(l) THEN OffsetLots(r, l) ELSE OffsetLots(l, r)

\* The lots that come after the right one and may balance the left one.
Rights == {j \in right + 1 .. Len(list) :
             Open(list[j]) /\ Sign(leftBal) # Sign(Balance(list[j]))}
Lefts == {i \in left + 1 .. Len(list) : Open(list[i])}

RightLot ==
    /\ list # <<>> /\ Rights # {}
    /\ right' = Min(Rights)
    /\ Balances(list[left], list[right'])
    /\ single' = {l \in single : Alone(l)'}
    /\ UNCHANGED <<invoice, paid, list, left, leftBal, unpostVars, fault>>

LeftLot ==
    /\ list # <<>> /\ Rights = {} /\ Lefts # {}
    /\ left' = Min(Lefts) /\ right' = left'
    /\ leftBal' = Balance(list[left'])
    /\ UNCHANGED <<splits, invoice, paid, list, single, unpostVars, fault>>

Ends == list # <<>> /\ Rights = {} /\ Lefts = {}

Applied ==
    /\ Ends
    /\ list' = <<>> /\ left' = 0 /\ right' = 0 /\ leftBal' = 0 /\ single' = {}
    /\ UNCHANGED <<splits, invoice, paid, unpostVars, fault>>

-----------------------------------------------------------------------------
(***************************************************************************)
(* gncInvoiceUnpost: the document's transaction is destroyed and its lot   *)
(* given to the owner; then every link the lot has is destroyed, and the   *)
(* other lots of the link are applied to each other.                       *)
(***************************************************************************)
\* Mutant of Unpost: the lot stays attached to the document.
UnpostAttached(d) ==
    /\ Idle
    /\ \E l \in LotsOf(d) :
         /\ splits' = Without(d)
         /\ unposted' = l
         /\ UNCHANGED <<invoice, pending>>
    /\ UNCHANGED <<paid, applyVars, fault>>

Unpost(d) ==
    /\ Idle
    /\ \E l \in LotsOf(d) :
         /\ splits' = Without(d)
         /\ invoice' = [invoice EXCEPT ![l] = None]
         /\ unposted' = l
         /\ pending' = [s \in {u \in DOMAIN InLot(l) : u.txn \in Link} |-> splits[s]]
    /\ UNCHANGED <<paid, applyVars, fault>>

UnpostLink ==
    /\ unposted # None /\ list = <<>> /\ ~ fault
    /\ \E s \in BagToSet(pending) :
         IF OfTxn(s.txn) = {}
         THEN fault' = TRUE /\ UNCHANGED <<splits, applyVars, pending>>
         ELSE /\ splits' = Without(s.txn)
              /\ \E order \in SetToSeqs({u.lot : u \in OfTxn(s.txn)} \ {unposted}) :
                   Applies(order)
              /\ pending' = pending (-) SetToBag({s})
              /\ UNCHANGED fault
    /\ UNCHANGED <<invoice, paid, unposted>>

UnpostDone ==
    /\ unposted # None /\ list = <<>> /\ ~ fault
    /\ pending = EmptyBag
    /\ unposted' = None
    /\ UNCHANGED <<splits, invoice, paid, applyVars, pending, fault>>

-----------------------------------------------------------------------------
Init ==
    /\ splits = EmptyBag
    /\ invoice = [l \in Lot |-> None]
    /\ paid = [p \in Payment |-> 0]
    /\ list = <<>> /\ left = 0 /\ right = 0 /\ leftBal = 0 /\ single = {}
    /\ pending = EmptyBag /\ unposted = None
    /\ fault = FALSE

Next ==
    \/ \E d \in Doc : PostToAccount(d) \/ Unpost(d)
    \/ \E p \in Payment, a \in Amounts, lots \in SUBSET OpenLots : ApplyPayment(p, a, lots)
    \/ \E lots \in SUBSET OpenLots : ApplyLots(lots)
    \/ \E t \in Payment \cup Link : DeleteTxn(t)
    \/ LeftLot \/ RightLot \/ Applied
    \/ UnpostLink \/ UnpostDone

Spec == Init /\ [][Next]_lotVars

-----------------------------------------------------------------------------
\* Types; and a document is posted, by one split in the one lot attached to it, or
\* it has neither.
LotTypeOK ==
    /\ IsABag(splits) /\ IsFiniteSet(BagToSet(splits))
    /\ BagToSet(splits) \subseteq [txn : Txn, lot : Lot, amount : Int]
    /\ invoice \in [Lot -> Doc \cup {None}]
    /\ paid \in [Payment -> Amounts \cup {0}]
    /\ list \in Seq(Lot) /\ single \subseteq ToSet(list)
    /\ left \in 0 .. Len(list) /\ right \in 0 .. Len(list) /\ leftBal \in Int
    /\ IsABag(pending)
    /\ BagToSet(pending) \subseteq [txn : Link, lot : Lot, amount : Int]
    /\ unposted \in Lot \cup {None}
    /\ fault \in BOOLEAN
    /\ \A d \in Doc :
         /\ OfTxn(d) = {SplitRec(d, l, Total[d]) : l \in LotsOf(d)}
         /\ \A s \in OfTxn(d) : splits[s] = 1
         /\ \A l, m \in LotsOf(d) : l = m

\* gncOwnerReduceSplitTo, gncOwnerOffsetLots, merge_splits: however often a
\* payment is divided, moved and merged, its splits sum to what was paid.
PaymentWhole ==
    \A p \in Payment : SumOf(splits, LAMBDA s : s.txn = p) = - paid[p]

\* gncOwnerCreateLotLink: a link takes from one document what it gives to others, it has
\* one split in the lot of each, and a document that is not posted has no part in it (but
\* for the one that is being taken back).  So gncInvoiceUnpost, which walks a copy of the
\* splits of the lot while it destroys the links they are in, never meets a second split
\* of a link that is already destroyed.
LinkSound ==
    /\ ~ fault
    /\ \A t \in Link :
        /\ SumOf(splits, LAMBDA s : s.txn = t) = 0
        /\ \A s \in OfTxn(t) :
             /\ splits[s] = 1
             /\ HasDoc(s.lot) \/ s.lot = unposted
             /\ \A u \in OfTxn(t) : u.lot = s.lot => u = s

\* gncOwnerAutoApplyPaymentsWithLots, "perform a balancing action on a set of
\* lots": when it is done no two lots it was given could still balance each
\* other, but for lots of the owner that held more than one split before, or were given
\* a second one.  Of those it moves one split per pair, and as it goes on with the
\* balance the left lot had it may take out again what has closed it.
Settled ==
    Ends => \A k, l \in ToSet(list) :
              Balance(k) > 0 /\ Balance(l) < 0 =>
                \E m \in {k, l} : ~ HasDoc(m) /\ m \notin single

-----------------------------------------------------------------------------
Owed == [d \in Doc |-> SumOf(splits, LAMBDA s : invoice[s.lot] = d)]
Credit == SumOf(splits, LAMBDA s : ~ HasDoc(s.lot))

R == INSTANCE Receivable
       WITH posted <- {d \in Doc : Posted(d)}, owed <- Owed, credit <- Credit,
            Payments <- Amounts

\* The lots implement what an owner is owed: see Receivable.
Owes == R!Spec

=============================================================================
