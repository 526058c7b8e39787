----------------------------- MODULE MCTaxTables -----------------------------
(* Documents and symmetry for TLC: d1 has two lines, d2 has one. *)
EXTENDS TaxTables, TLC

CONSTANTS l1, l2, l3, d1, d2

Docs == l1 :> d1 @@ l2 :> d1 @@ l3 :> d2

\* Tables are alike, and so are the lines of d1.
Symmetry == Permutations(Table) \cup Permutations({l1, l2})

=============================================================================
