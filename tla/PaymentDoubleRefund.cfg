CONSTANTS
    Requests = {r1, r2, r3}
    Customers = {c1}
    Merchant = m
    Keys = {k, l}
    Amounts = {5}
    Currencies = {usd}
    DefaultCurrency = usd
    None = None
SYMMETRY RequestSymmetry
SPECIFICATION Spec
INVARIANTS
    AtMostOneRefund
