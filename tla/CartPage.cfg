\* One browser with two calls in flight changes its cart; statements fail and
\* answers get lost.
SPECIFICATION FairClientSpec
CONSTANTS
    tea = tea
    b1 = b1
    c1 = c1
    c2 = c2
    s1 = s1
    NoProduct = NoProduct
    Products <- MCProducts
    ProductIds <- MCProducts
    Price <- MCPrice
    Requests = {c1, c2}
    Sessions = {s1}
    SessionOf <- SharedSession
    Browsers = {b1}
    BrowserOf <- OneBrowser
    Ops = {"listProducts", "getCart", "addItem", "putItem", "removeItem",
           "clearCart"}
    AddQtys = {1}
    PutQtys = {1, 2}
    Faults = {"query"}
    Network = {"lost"}
    MaxQty = 1
    MaxShown = 2
    MaxOrders = 0
INVARIANTS
    ClientTypeOK
PROPERTIES
    ReadsGoOn
    CartPageConverges
