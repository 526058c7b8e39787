SPECIFICATION Spec
CONSTANTS
    t1 = t1  t2 = t2
    s1 = s1  s2 = s2  s3 = s3  s4 = s4  s5 = s5  s6 = s6
    cash = cash  imb = imb
    None = None
    Trans = {t1, t2}
    Split = {s1, s2, s3, s4, s5, s6}
    Account = {cash, imb}
    Imbalance = imb
    Amount <- Amounts
    Entered <- EnteredAmounts
    Description = {"d"}
    Loaded <- TwoTransactions
    Calls = {"amount", "destroy_split", "destroy_trans", "describe", "move"}
    CanFail = FALSE
    MaxLevel = 2
    MaxCalls = 2
INVARIANTS TypeOK ParentListsSplit
SYMMETRY SpareSplits
CHECK_DEADLOCK FALSE
