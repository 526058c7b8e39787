---------------------------- MODULE MCXmlFileStore ----------------------------
(* Two processes and one data file; the processes are interchangeable. *)
EXTENDS XmlFileStore, TLC

Symmetry == Permutations(Process)

=============================================================================
