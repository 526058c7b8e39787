SPECIFICATION TaxSpec
CONSTANTS
    l1 = l1 l2 = l2 l3 = l3 d1 = d1 d2 = d2
    None = None
    Table = {t1, t2, t3, t4}
    Doc = {d1, d2}
    Line = {l1, l2, l3}
    Customer = {}
    DocOf <- Docs
    Backends = {"xml", "sql"}
    MaxEdits = 3
    MaxCount = 2
SYMMETRY Symmetry
INVARIANTS TaxTypeOK NoDangling RefcountExact ChildIsCopy
PROPERTIES PostedFixed
CHECK_DEADLOCK FALSE
