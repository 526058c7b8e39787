-------------------------------- MODULE Sums --------------------------------
(***************************************************************************)
(* Adding up gnc_numeric values.                                           *)
(***************************************************************************)
EXTENDS Integers, Functions

\* The sum of the values of a function with a finite domain.
SumOver(f) == FoldFunction(+, 0, f)
=============================================================================
