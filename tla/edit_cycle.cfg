SPECIFICATION Spec
CONSTANTS
    t1 = t1  t2 = t2
    s1 = s1  s2 = s2  s3 = s3  s4 = s4  s5 = s5  s6 = s6
    cash = cash  imb = imb
    None = None
    Trans = {t1, t2}
    Split = {s1, s2, s3, s4, s5}
    Account = {cash, imb}
    Imbalance = imb
    Amount <- Amounts
    Entered <- EnteredAmounts
    Description = {"d"}
    Loaded <- OneTransaction
    Calls = {"malloc_trans", "malloc_split", "amount", "reconcile", "account", "destroy_split", "destroy_trans"}
    CanFail = FALSE
    MaxLevel = 2
    MaxCalls = 3
INVARIANTS AccountLists SplitListExact CleanIsStored
PROPERTIES Ledger
SYMMETRY FreshSplits
