\* Three requests of the session that all shipped browsers share change the
\* row of one product.  POST checks no quantity, so that a row may hold 0.
SPECIFICATION HSpec
CONSTANTS
    tea = tea
    pot = pot
    ghost = ghost
    c1 = c1
    c2 = c2
    c3 = c3
    s1 = s1
    s2 = s2
    NoProduct = NoProduct
    Products = {tea}
    ProductIds = {tea, ghost}
    Price <- TeaPrice
    Requests = {c1, c2, c3}
    Sessions = {s1}
    SessionOf <- SharedSession
    Ops = {"addItem", "putItem", "removeItem", "clearCart"}
    AddQtys = {0, 1}
    PutQtys = {0, 1}
    Faults = {}
    MaxQty = 1
    MaxOrders = 0
SYMMETRY RequestSymmetry
INVARIANTS
    TypeOK
PROPERTIES
    AddsAreRelative
    AddLandsUnlessRemoved
    AddRefusedForAnother
CHECK_DEADLOCK FALSE
