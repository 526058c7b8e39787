SPECIFICATION Spec
CONSTANTS
    i1 = i1  i2 = i2  c1 = c1
    None = None
    Doc = {i1, i2, c1}
    Total <- Totals
    Payment = {p1}
    Amounts = {1, 3}
    Link = {k1, k2}
    MaxLots = 4
INVARIANTS LotTypeOK PaymentWhole LinkSound Settled
PROPERTIES Owes
