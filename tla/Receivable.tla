------------------------------ MODULE Receivable ------------------------------
(***************************************************************************)
(* What InvoiceLots promises: the documents of an owner that are posted,   *)
(* what is still owed on each (negative for a credit note), and the credit *)
(* of the owner, payments that are not applied to a document (negative).   *)
(* Applying payments and documents to each other never owes more than a    *)
(* document's total, never pays more than that, and neither makes nor      *)
(* loses money.                                                            *)
(***************************************************************************)
EXTENDS Integers, Sums

CONSTANTS
    Doc,
    Total,     \* [Doc -> Int], what a document adds to the account
    Payments   \* the amounts that may be paid, or refunded

VARIABLES
    posted,    \* the documents that are posted
    owed,      \* what is owed on each, 0 for one that is not posted
    credit

receivableVars == <<posted, owed, credit>>

\* n lies between zero and m.
Within(n, m) == (0 <= n /\ n <= m) \/ (m <= n /\ n <= 0)

AccountBalance == credit + SumOver(owed)

Bounded == \A d \in Doc : Within(owed[d], IF d \in posted THEN Total[d] ELSE 0)

Paying == \A d \in Doc : Within(owed'[d], owed[d])
Releasing == \A d \in Doc : Within(owed[d], owed'[d])

\* A document is posted.
Post(d) ==
    /\ d \notin posted
    /\ posted' = posted \cup {d}
    /\ owed' = [owed EXCEPT ![d] = Total[d]]
    /\ UNCHANGED credit

\* A document is taken back; what was paid on it becomes credit.
Unpost(d) ==
    /\ d \in posted
    /\ posted' = posted \ {d}
    /\ owed' = [owed EXCEPT ![d] = 0]
    /\ AccountBalance' = AccountBalance - Total[d]

\* A payment is entered.
Pay(a) ==
    /\ credit' = credit - a
    /\ UNCHANGED <<posted, owed>>

\* A payment is deleted, and what it paid is owed again.
Withdraw(a) ==
    /\ Bounded' /\ Releasing
    /\ AccountBalance' = AccountBalance + a
    /\ UNCHANGED posted

\* Documents and credit are applied to each other.
Settle ==
    /\ Paying
    /\ AccountBalance' = AccountBalance
    /\ UNCHANGED posted

\* What offset a document that is taken back is owed again.
Release ==
    /\ Bounded' /\ Releasing
    /\ AccountBalance' = AccountBalance
    /\ UNCHANGED posted

Init ==
    /\ posted = {}
    /\ owed = [d \in Doc |-> 0]
    /\ credit = 0

Next ==
    \/ \E d \in Doc : Post(d) \/ Unpost(d)
    \/ \E a \in Payments : Pay(a) \/ Withdraw(a)
    \/ Settle
    \/ Release

Spec == Init /\ [][Next]_receivableVars

===============================================================================
