------------------------------ MODULE MCDbiStore ------------------------------
(* Model values and bounds for the checking of DbiStore.                   *)
EXTENDS DbiStore, TLC

Symmetry == Permutations(Process) \cup Permutations(Table)

\* Sessions are not followed any further once two have overlapped: nothing is
\* then said of the data.
BeforeOverlap == "overlap" \notin harm

===============================================================================
