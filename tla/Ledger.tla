------------------------------- MODULE Ledger -------------------------------
(***************************************************************************)
(* What the edit cycle promises to the rest of the program, which "should  *)
(* ignore the data until it's committed": every transaction has a content, *)
(* the splits posted under it with their account, amount and reconcile     *)
(* flag, and that content changes only as a whole, one transaction at a    *)
(* time, from one that sums to zero to another.  An edit in progress and   *)
(* an edit rolled back are not to be seen at all.                          *)
(***************************************************************************)
EXTENDS Integers, Sums

CONSTANTS
    Trans, Split, Account, Amount,
    Posted          \* the contents of the book that was loaded

VARIABLE book

Posting == Account \X Amount \X BOOLEAN

\* A content maps the splits of a transaction to what is posted for them.
Total(content) == SumOver([s \in DOMAIN content |-> content[s][2]])

InitLedger == book = Posted

\* The splits of t become those of content; no other transaction has them.
Post(t, content) ==
    /\ content # book[t]
    /\ DOMAIN content \subseteq Split
    /\ \A s \in DOMAIN content : content[s] \in Posting
    /\ Total(content) = 0
    /\ \A u \in Trans \ {t} : DOMAIN book[u] \cap DOMAIN content = {}
    /\ book' = [book EXCEPT ![t] = content]

NextLedger == \E t \in Trans : Post(t, book'[t])

LedgerSpec == InitLedger /\ [][NextLedger]_book

=============================================================================
