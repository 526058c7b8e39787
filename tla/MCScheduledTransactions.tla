---- MODULE MCScheduledTransactions ----
EXTENDS ScheduledTransactions
Symmetry == Permutations(Dialogs)
MCLeads == {<<0, 1>>, <<1, 0>>}
====
