\* A session a client, one request at a time, a process may die before it
\* has answered a request that the load balancer sends again.
SPECIFICATION HSpec
CONSTANTS
    tea = tea
    pot = pot
    ghost = ghost
    c1 = c1
    c2 = c2
    c3 = c3
    s1 = s1
    s2 = s2
    NoProduct = NoProduct
    Products <- MCProducts
    ProductIds <- MCProducts
    Price <- MCPrice
    Requests = {c1, c2}
    Sessions = {s1, s2}
    SessionOf <- OwnSession
    Ops = {"addItem", "putItem", "removeItem", "clearCart", "createOrder",
           "getProduct"}
    AddQtys = {1}
    PutQtys = {2}
    Faults = {"retry"}
    MaxQty = 2
    MaxOrders = 2
PROPERTIES
    ServiceSpec
CHECK_DEADLOCK FALSE
