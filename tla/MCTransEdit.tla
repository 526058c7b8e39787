----------------------------- MODULE MCTransEdit -----------------------------
(***************************************************************************)
(* Small instances of TransEdit for TLC.                                   *)
(***************************************************************************)
EXTENDS TransEdit, TLC

CONSTANTS t1, t2, s1, s2, s3, s4, s5, s6, cash, imb

Booked(t, a, v) == [parent |-> t, acc |-> a, amount |-> v, reconciled |-> FALSE]

\* A loaded book of one transaction, booked by two splits.
OneTransaction ==
    [s \in Split |-> CASE s = s1 -> Booked(t1, cash, 1)
                       [] s = s2 -> Booked(t1, imb, -1)
                       [] OTHER -> None]

\* A loaded book of two such transactions.
TwoTransactions ==
    [s \in Split |-> CASE s = s3 -> Booked(t2, cash, 1)
                       [] s = s4 -> Booked(t2, imb, -1)
                       [] OTHER -> OneTransaction[s]]

\* Two transactions of two splits each that stay balanced when one is moved.
TwoZeroTransactions ==
    [s \in Split |-> IF TwoTransactions[s] = None THEN None
                     ELSE [TwoTransactions[s] EXCEPT !.amount = 0]]

Amounts == -6 .. 6

EnteredAmounts == {2}

\* The splits no constant mentions are interchangeable.
FreshSplits == Permutations(Split \ {s1, s2})
SpareSplits == Permutations(Split \ {s1, s2, s3, s4})

=============================================================================
