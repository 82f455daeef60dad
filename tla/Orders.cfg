\* Checkouts of a shared session race with each other and with changes of its
\* cart, processes die, and others read the orders meanwhile.
SPECIFICATION HSpec
CONSTANTS
    tea = tea
    pot = pot
    ghost = ghost
    c1 = c1
    c2 = c2
    c3 = c3
    s1 = s1
    s2 = s2
    NoProduct = NoProduct
    Products <- MCProducts
    ProductIds <- MCProducts
    Price <- MCPrice
    Requests = {c1, c2}
    Sessions = {s1}
    SessionOf <- SharedSession
    Ops = {"addItem", "createOrder", "getOrder", "listOrders"}
    AddQtys = {1}
    PutQtys = {0, 2}
    Faults = {"crash"}
    MaxQty = 1
    MaxOrders = 2
SYMMETRY RequestSymmetry
INVARIANTS
    ShopInv
    CreatedReplyTrue
    ViewsSound
PROPERTIES
    LedgerSpec
    CheckoutTakesItsCart
    AtomicUnlessMet
CHECK_DEADLOCK FALSE
