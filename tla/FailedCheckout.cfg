\* A checkout one of whose statements fails.
SPECIFICATION HSpec
CONSTANTS
    tea = tea
    pot = pot
    ghost = ghost
    c1 = c1
    c2 = c2
    c3 = c3
    s1 = s1
    s2 = s2
    NoProduct = NoProduct
    Products <- MCProducts
    ProductIds <- MCProducts
    Price <- MCPrice
    Requests = {c1, c2}
    Sessions = {s1}
    SessionOf <- SharedSession
    Ops = {"addItem", "createOrder"}
    AddQtys = {1}
    PutQtys = {0, 2}
    Faults = {"query"}
    MaxQty = 1
    MaxOrders = 2
SYMMETRY RequestSymmetry
PROPERTIES
    FailedCheckoutCreatesNothing
CHECK_DEADLOCK FALSE
