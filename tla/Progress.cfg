\* One browser with two calls in flight in front of the server; nothing fails.
SPECIFICATION FairClientSpec
CONSTANTS
    tea = tea
    b1 = b1
    c1 = c1
    c2 = c2
    s1 = s1
    NoProduct = NoProduct
    Products <- MCProducts
    ProductIds <- MCProducts
    Price <- MCPrice
    Requests = {c1, c2}
    Sessions = {s1}
    SessionOf <- SharedSession
    Browsers = {b1}
    BrowserOf <- OneBrowser
    Ops = {"listProducts", "addItem", "createOrder"}
    AddQtys = {1}
    PutQtys = {1}
    Faults = {}
    Network = {}
    MaxQty = 1
    MaxShown = 1
    MaxOrders = 2
INVARIANTS
    IncompleteIsBeingWritten
    ReceiptNamesOrder
    ConfirmedOnce
PROPERTIES
    OrdersAdvance
    CallsSettle
