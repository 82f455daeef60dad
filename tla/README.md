# A verification development for client-server-with-lb-demo

TLA+ modules for the parts of this repository that can go wrong between two
steps of different actors, TLC configurations that check them on small
instances, and TLAPS proofs for instances of any size. Paths below are relative
to the root of the repository; `server.js` is `server/src/server.js`.

## 1. The system

Browsers run a React client. It calls an HTTP/JSON API through an nginx load
balancer, behind which three identical Node processes serve the requests. The
Node processes share one PostgreSQL database and nothing else. Next to them
runs a TCP authentication server in Go, with sessions in Redis and a copy of
them, and the users, in the same PostgreSQL. No code of the client or of the
shop server calls the authentication server yet (its README only says how they
could), so the two halves meet in no state, and the project has no module that
composes them.

### Inventory

| Component | State it keeps | Operations | What is hard | What makes it correct |
| --- | --- | --- | --- | --- |
| Cart endpoints (`server.js:128-303`) | rows of `cart_items`, per session | GET/POST `/api/cart`, PUT/DELETE `/api/cart/:id`, DELETE `/api/cart` | one SQL statement at a time, no transaction; POST reads a row and decides UPDATE or INSERT by it, and takes any quantity | concurrent adds both count; an add is lost or refused only because of what another request of the session asked for; behind the shipped client quantities stay positive |
| Order endpoints (`server.js:305-478`) | `orders`, `order_items` | POST `/api/orders`, GET `/api/orders`, GET `/api/orders/:id` | a checkout is 7 or more statements; the number is `COUNT(*) + 1`; a failure or the end of the process leaves a part | numbers unique and without gaps, no order mixes lines of two carts, total fits the cart, a 201 tells the truth, readers see no nonsense |
| Catalogue, health (`server.js:71-126`) | none (constant table) | GET | nothing changes; a statement may fail | an answer comes |
| Schema (`server/db/schema.sql`) | keys and constraints | - | the unique keys decide races | used by the two above |
| Pool (`server/db/index.js`) | connections | query | no `error` listener: a broken idle connection ends the process | covered as the end of a process |
| Auth sessions (`tcp-auth-server/internal/service/session_service.go`, `handler/auth_handler.go`) | Redis `session:<token>`, rows of `user_sessions` | login, validate, refresh, logout | several commands per request; failures are warned about and ignored; GetSession and DeleteSession call each other; TTL and `ExpiresAt` run out on their own | a token names a session once; dead tokens are refused, live ones accepted; a logout revokes; the backup follows |
| Auth connections (`tcp-auth-server/main.go`) | the map `connections`, its lock, a goroutine per connection | accept, serve, clean up, close | cleanup, shutdown and the goroutine's own exit all close sockets and edit the map | no served socket is forgotten, gone clients are released, the shutdown ends the process in order |
| Auth users (`auth_service.go:49-87`, `user_repo.go`) | `users` | register | check, then insert | names are unique (unique keys) |
| Redis and PostgreSQL clients, protocol (`tcp-auth-server/pkg`) | connections | one call each | may fail | - |
| Client state (`client/src/context`) | products, cart, orders shown | reducer, `loadCart`, `addToCart`, ... | answers out of order; deltas applied to an older or newer read; an effect that reruns at every render | what is shown converges to the server's cart |
| Client API, pages (`client/src/services`, `pages`, `components`) | route and history, form fields, receipt | fetch, render, navigate, reload | double submit; answers after the page was left; fetch without a timeout; a read that fails stops the reading | a call ends; a success page names an order that is there, whole, and nobody else's |
| Reverse proxy (`reverse-proxy/default.conf.template`) | failure counts | choose a server, retry | a request whose server dies may run twice | any server may run any request; one that runs twice has the effect of one |
| Orchestration, chaos, infra, scripts | configuration | start, restart, kill | - | provides the failures the models have |

### Interactions

A browser's call becomes one request of one Node process, chosen by nginx. The
processes interact through the database only, statement by statement. The
goroutines of the authentication server interact through Redis and PostgreSQL,
and through the map of connections under a mutex. Time matters in the
authentication server (TTL, `ExpiresAt`, `LastSeen`).

The shipped client never sends `x-session-id` (and CORS does not allow the
header), so all browsers use the session `default-session`. Several requests of
one session at the same time are therefore the normal case, and the runs below
have them, unless they say otherwise.

What the client does with the server is less than its pages suggest, and the
model follows the code:

- "Proceed to Checkout" (`ShoppingCart.tsx:98`) has no handler and no link leads
  to `/checkout`: a browser gets there by the address or the history.
- The server ignores the items, the total and the nested `customerInfo` that
  `CheckoutPage.tsx:19-27` sends: it orders what its own cart holds.
- The effect of the cart page depends on a function that every render makes
  anew, so each dispatch reads the cart again, for as long as the page is open.
  This polling is also the only thing that repairs what answers out of order
  have left on the page.
- `searchProducts` (`api.ts:63`) asks for a path that the server takes for a
  product called `search`; nothing in the client calls it.

## 2. Modules

| Module | Contents |
| --- | --- |
| `ShopData` | rows and what the SQL statements do to them |
| `ShopServer` | the handlers of the shop server, a statement per action |
| `OrderLedger` | abstract: an append-only ledger of orders |
| `CartService` | abstract: the shop with atomic operations |
| `ShopProperties` | properties of `ShopServer`, with both refinements |
| `SharedCarts` | properties of requests that share a session, with the history variable they need |
| `MCShop` | instances for TLC |
| `ShopProofs` | proofs about `ShopServer`: orders |
| `AnswerProofs` | proofs about `ShopServer`: what is answered, and adds |
| `ServiceProofs` | proofs about `SharedCarts`, among them that a request which meets no other is atomic |
| `ShopClient` | browsers in front of `ShopServer`: state, pages, calls, answers |
| `ClientProperties` | what a browser shows, against what the server holds |
| `MCClient` | instances for TLC |
| `ClientProofs` | proofs about `ShopClient`, among them that it implements `ShopServer` |
| `AuthSessions` | login, validate, refresh, logout; a Redis command or SQL statement per action |
| `SessionLife` | abstract: what becomes of a token |
| `AuthProperties` | properties of `AuthSessions`, with the refinement |
| `RefreshRaces` | what refreshes leave of a login, with the history variable this needs |
| `MCAuth`, `MCRefresh` | instances for TLC of `AuthProperties` and of `RefreshRaces` |
| `AuthProofs` | proofs about `AuthSessions` |
| `StoreProofs` | proofs about its two stores, each without the failures that break it |
| `RefreshProofs` | proofs about `RefreshRaces` |
| `AuthConnections` | goroutines, the map, cleanup, shutdown; properties |
| `MCConnections` | instances for TLC |
| `ConnectionProofs` | proofs about `AuthConnections` |

Operators whose comment begins with "A fault" are wrong variants of the
definition that follows them: the kind of mistake its property is there to
find. No specification uses them; putting one in the place of its original
makes TLC refute the property.

### ShopServer and the code

A handler holds no state between requests and every `await pool.query(...)`
takes a connection of its own and commits at once. So a statement is atomic and
anything may happen between two statements. `pc[r]` names the statement that the
handler of request slot `r` runs next; an action is that statement and the
JavaScript up to the next one, with the answer when there is no next one. The
locals that outlive a statement are `rows` (cart rows read), `todo` (rows the
loop has still to insert), `oid` (the number generated), `view` and `unread`
(orders read for the answer and those whose items are still to be read).

A slot is a handler at work, not a client. That makes three things come for
free: a statement that the database still executes after its process has died,
a request that nginx sends to a second server, and a client that does not wait
for its answer are all requests of other slots. A process that dies with many
requests is a sequence of `ProcessDies` steps. A statement that commits and then
reports an error is that statement followed by `QueryFails` at the next one;
`ClearCart`, which is a last statement, has the case as a disjunct. `basis` in
an order is a history field: the rows the order was created from.

Abstracted: names, addresses and payment fields of an order (copied, never
read), product data except the price, JSON and CORS headers, the order in which
`SELECT` returns rows (any). `POST /api/cart` may ask for any integer: neither the
handler nor the schema checks the quantity, so `AddQtys` is any set of integers
and a row may hold 0 or less. That the rows hold positive quantities is proved
where it is true, of the carts that only the shipped client uses
(`StoredPositive`). The catalogue is a constant: its two endpoints are one statement
each, which may fail, and the search, which only chooses rows of it, is left out.

`ProxyRetries` is nginx when a server breaks the connection: a GET, PUT or DELETE
is sent to the next server and its handler begins anew at `FirstStatement`, the
dead one's locals forgotten. POST is not sent again, which is nginx's default.

`SharedCarts` adds a history variable, `met`: for each handler that goes by rows of
its cart it has read, what the requests have asked for that changed this cart since.
The comments of the code and of the client promise more than the handlers keep when a
session is shared, and all browsers share one; `met` lets the properties say exactly
what they keep, for shared sessions: what goes wrong with an add or a checkout
has been asked for by a request that came in between.

### ShopClient and the code

A call in flight is a slot of `ShopServer` with a `call`: what the answer will be
used for. A click takes a free slot, and its action is the click together with
the arrival of the request; the server's own actions then run in it; `Answers`
is the continuation of the call in `AppContext.tsx` or `CheckoutPage.tsx`, with
its dispatches. Slots of one browser are independent, so answers come in any
order. `body` is what a `getCart` has read; no other answer's cart is used.

`shown`, `listed` and `catalogue` are the state of the reducer (`Reduced` is
`appReducer`), `page` the route, `due` that the effect of `CartPage` is to run,
which `Rendered` sets at each dispatch. `Navigate` is a link or the history in
one document, `Open` a new document: an address, a reload, one of the plain
`<a href>`. `Open` forgets the state and the calls (their requests go on), and
keeps `location.state` of the success page, the `receipt`, if that page is the one
reloaded; of several receipts in the history the latest is kept. The home page
shows nothing of the state and has no page of its own. `form` says whether the
fields validate, not what they hold. `Loses` is a fetch that rejects, whatever
the server did or will do.

### AuthSessions and the code

A goroutine serves one request of its connection at a time; `pc[c]` is its next
Redis command or SQL statement, `job[c]` its request and where in the call
stack it is: `stage` says whose `GetSession` or `DeleteSession` is running,
`frames` counts the calls of `DeleteSession` on the stack, which an expired
session makes grow (`GetSession` calls `DeleteSession`, which calls
`GetSession`, until Redis has dropped the key). `keys` are the tokens in Redis,
`rows` those in `user_sessions`, `overdue` those whose `ExpiresAt` has passed.
History variables, which the code does not have: `told` (tokens a client was
sent), `revoked` (tokens whose logout or refresh was answered success), `root`
(the login a token descends from; it also says which tokens exist) and the field
`dead` (the token was no session when the request arrived); in `RefreshRaces` also
`crossed` (the logins two of whose refreshes were under way at one time).

There is no clock. `Lapse(t)` lets `ExpiresAt` of a token pass at any moment;
`RedisExpires(t)` then drops the key: `ExpiresAt` is computed before the SET
that starts the TTL, so it passes first. Clients present tokens some client was
sent, or `NoToken`, a string that was never one. One user is enough, as nothing
compares sessions of users. `user_sessions:<id>` and `connection:<id>` are
written and never read by a handler, so they are not kept; the SADD, which can
fail a login, is a step. A failing command or statement has had its effect or
not (each of the `...Fails` actions). `hangup` in `Faults` makes an answer get
lost; cancelling the context at shutdown shows as failing statements.

`auth_handler.go:130` declares `user` and does not use it, which the Go compiler
refuses; the model takes the line as if it said `_`.

### AuthConnections and the code

`pc[c]` is where the goroutine of `c` is in `handleConnection`. What is done with
`Server.mu` held is one step: registering, `delete` in the deferred function, a
round of the cleanup, the loop and the assignment of nil in `Close`. A line that
has been read (`Scan`) and the update of `LastSeen` (`Touch`) are two steps,
because `LastSeen` is written without the lock that the cleanup reads it under:
the cleanup may go by the old value. Lines in the buffer of the scanner are
returned even when the socket has been closed. A write to a nil map ends the
process (`panicked`).

## 3. Runs

Each run is `tlc -config <cfg> <module>` with the pair `PROJECT.json` lists, and
each proof module is checked with `tlapm <module>.tla`.

All passing runs are exhaustive.

| Run | Instance | Shows |
| --- | --- | --- |
| `carts` | 3 requests of one session, a product and an unknown one; quantities 0 and 1 | `TypeOK`; `AddsAreRelative`: concurrent adds both count; `AddLandsUnlessRemoved`, `AddRefusedForAnother`: an add has no effect only if its row was removed meanwhile, and is refused only for another first add |
| `orders` | 2 requests of one session, 2 products, 2 orders; processes die | `ShopInv`, `CreatedReplyTrue`, `ViewsSound`, that the tables implement `OrderLedger`; `CheckoutTakesItsCart`: a checkout takes out what it ordered, but for rows another request changed meanwhile; `AtomicUnlessMet`: a request that meets no other is atomic |
| `isolated` | 2 requests, each of its own session; servers die and nginx sends the request to another | the server implements `CartService` |
| `progress` | a browser with 2 calls, 1 product, 2 orders, no failure, fair | `CallsSettle`; `OrdersAdvance`: of the checkouts that race for a number one places its order; `IncompleteIsBeingWritten`, `ReceiptNamesOrder`, `ConfirmedOnce` |
| `cart_page` | a browser with 2 calls on its cart; statements fail, answers get lost, fair | `ClientTypeOK`, `ReadsGoOn`, `CartPageConverges`: the cart page comes to show the server's cart as long as it reads |
| `failed_checkout` | a statement fails | counterexample to `FailedCheckoutCreatesNothing` |
| `tokens` | 2 connections, 2 tokens, every failure | `TypeOK`, `DeadNeverValid`, and that sessions implement `SessionLife` |
| `revoked` | 2 connections, 3 tokens, PostgreSQL fails | `RevokedInv`, `NoOrphan`; `OneSessionUnlessCrossed`: a login has two sessions only if two refreshes of it overlapped |
| `sessions` | 2 connections, 2 tokens, lost answers, fair | `StoresAgree`, `LiveNeverRefused`, `SessionAnswered` |
| `logout_fails` | Redis fails | counterexample to `RevokedIsGone` |
| `connections` | 2 connections, 2 unread lines each, fair | `TypeOK`, `Tracked`, `NoneClosed`, `Released` |
| `shutdown_panics` | 2 connections | counterexample to `NoPanic` |

In `orders` only the process dies: a failing statement stops a checkout at the
same places and differs in the answer's code only (`cart_page`, `failed_checkout`
and the proofs have it). There a cart that is emptied under a checkout is emptied by
another checkout, with the statement that DELETE `/api/cart` runs; the theorem has
both. In `carts` nothing fails, which leaves room for three requests; a handler
that fails or dies between two statements of an add only stops there.

`isolated` is the only run in which sessions are not shared, and `ServiceSpec` the
only property that asks for it: with a shared session the server does not implement
`CartService`, and how far it does is `AtomicUnlessMet` of `orders`. Retries of a
dying server's requests are what `isolated` has besides.

Bounds, each in a guard of an arriving request and nowhere else: `MaxQty` (an
add arrives while the row holds less, and more than the negative of it), `MaxOrders` (placed and being placed),
`MaxShown` (a click that raises a quantity starts below it),
`TokenLeft` (no login or refresh arrives when no token would be left for it),
`MaxLines` (unread lines). `MaxFrames` is the exception: at that depth the
recursion waits for Redis to drop the key, which is where it ends in reality as
well. Two products are enough for a checkout that is half done and for rows it
did not read; two orders for a race for a number, won by either; three requests
of one session for a removal between the two statements of one add that races with
another. The races of adds and removals are about one row, so `carts` has one
product. Two calls of a browser are enough for two answers in
the wrong order and for a double submit; the second browser that the shared
session has would be a client whose requests change the cart as those of the
first's other slot do. Three tokens
allow a login, a refresh of it, and a second refresh that races; `revoked` leaves
validates out, as all they do to a store is to delete a session that has expired,
which refreshes do there too (the theorems have them). Two connections
are enough for every pair of requests; with two tokens a refresh can still race
with a logout or validate of the old token. Two connections also let one
register, be served or be closed while the cleanup or the shutdown deals with the
other. Symmetry is declared over request slots, connections and tokens, in runs
without liveness only. Deadlock is not checked for the shop alone, whose bounds
let every request end and no other arrive, nor for `AuthConnections`, whose
server stops; it is checked for `AuthSessions` and with browsers, which can always
load a document.

Fairness. `ClientFairness`: weak fairness of each handler's next statement, as
the event loop resumes it and PostgreSQL answers; of the effects of a browser, as
React runs those of what it has rendered; and of an answer that has come being
taken, call by call, as each is a promise of its own. Of the sessions: the same
for each goroutine, and weak fairness of Redis dropping a key that is due. Of the
connections: each goroutine (the Go scheduler and the network poller wake it),
and the cleanup (its ticker ticks). Nothing is assumed of requests arriving,
clicks, clients hanging up, failures or signals. `CartPageConverges` has a
premise instead: the page is left alone and goes on reading. That a page does go
on reading until a read fails is `ReadsGoOn`.

### Findings

Each is a run that refutes a promise made by a text of the repository:

- `failed_checkout` (`server.js:433`): the client is told that the order failed,
  and the order stays, with some or none of its lines.
- `logout_fails` (`session_service.go:125`): "logged out successfully", and the
  token is still valid.
- `shutdown_panics` (`main.go:281`): a connection accepted just before the
  shutdown registers in a map that is nil by then.

More that the code does not keep has no run of its own here. The first three are
what `AddLandsUnlessRemoved`, `AddRefusedForAnother` and `CheckoutTakesItsCart`
have as their exceptions, and `OneSessionPerLogin` is `OneSessionUnlessCrossed`
without its own:

- `CheckoutTakesOnlyOrdered` (`server.js:408`): a checkout deletes the rows added
  since it read the cart; the items are neither in the cart nor in the order,
  although `client/README.md:59` promises a "persistent cart state". TLC finds it
  as a property of `Orders.cfg`.
- `AckedAddLands` (`server.js:178`): POST `/api/cart` updates no row when a
  removal came between its SELECT and its UPDATE, and answers 200. TLC finds it as a
  property of `Carts.cfg`.
- `ValidAddAccepted` (`server.js:184`): of two first adds of one product one is
  answered 400. Found as a property of `Carts.cfg`.
- `ReceiptShowsTotal` (`CheckoutPage.tsx:14`): the success page shows the total of
  the cart the browser had, not that of the order. TLC finds it as an invariant of
  `Progress.cfg`.
- `OneSessionPerLogin` (`session_service.go:162`): two refreshes of a token at
  the same time leave two sessions. TLC finds it as an invariant of
  `Revoked.cfg` (module `MCRefresh`).
- `FailedRefreshKeepsSession` (`session_service.go:157`): a refresh that fails
  when it creates the new session has already deleted the old one. TLC finds it
  as a property of `Tokens.cfg`.
- An order of discarded rows, or two orders of one cart (`server.js:359-408`): a
  DELETE `/api/cart`, a second submit, or a process that dies before it has emptied
  the cart. The ledger admits both, and no property here forbids them.
- A connection closed although its line has just been read (`main.go:262`):
  `Cleanup` does it in the model as in the code; no property here forbids it.

## 4. Proofs

TLAPS proves, for any constants that satisfy the named assumptions:

**ShopProofs.** `ShopInvariant`: `Spec => [](TypeOK /\ ShopInv)`. `TypeOK` alone is
not inductive: that a line added to a cart or an order names a catalogue product
needs `StageOK` and `WriterOK`. No theorem assumes anything of the quantities. `ShopInv`
adds what makes orders sound: numbers are `1..n` (`OrderIdsDense`), a number once
generated is at most the next (`CounterOK`), so that one which is free is the
next (lemma `FreeNumberIsNext`); only one handler writes an order (`SoleWriter`);
and while its loop runs the order holds exactly the rows it has passed
(`WriterOK`), so the next line is not in it yet (lemma `NextLine`). From it follow
`TypeCorrect`, `NumbersDense` and `OrdersAreALedger`: the initial state maps to
the empty ledger, `InsertOrder` to `Place`, `InsertItem` to `WriteLine`, every
other step to a stutter, with failures and deaths included. `LinesTotal` stays
opaque; no proof looks at how a total is computed.

**AnswerProofs.** `AnswersAreTrue`: `Spec => []AnswerInv`, on top of `ShopInv`. What
a reader has in hand stays true because orders only grow (an order keeps its
number and total, and its lines are only added to), and `HandOK` says what is in
hand at which statement. That a 201 describes one whole order needs `OwnOrders`:
no two handlers have a `Claims` on one order, which follows from a number being
free when it is taken. `CreatedRepliesTrue` and `ReadersSeeOrders` are its parts.
`AddsBothCount`: the UPDATE adds to what the row holds then, and the INSERT only
happens where there is no row, whatever the SELECT before them saw.

**ServiceProofs.** What can come of a request when others share its session, with
any number of them. `ReadsStayTrueUnlessMet` proves `MetInv` on top of `ShopInv`: at
the statement by which a handler writes, each row of its cart is as it has read it,
or `met` has a request that concerns this row (`ReadOK`). A step of another slot
either leaves the cart alone or is one of the few statements that write a row, whose
effect is within what its input asks for; a step of its own leaves `met` and the cart
alone until it writes. From `MetInv` follow `AddsLand` (the row an UPDATE is aimed at
is there, or its removal has been asked for), `AddsRefusedForAdds` (the INSERT finds
no row, or one that an add has inserted since; if statements do not fail, as a
failing one is answered 400 too) and `CheckoutsTakeTheirCart` (`WriterOK` says that the
order holds the rows read, `MetInv` which of them are still those of the cart).
`UnmetRequestsAtomic` is the simulation of `CartService`, statement by statement, for
handlers with an empty `met`, whatever fails and whoever shares sessions: adds,
changes and removals take effect at the statement that writes, a checkout when it
empties the cart; `placed` maps only the `Settled` orders, so `InsertOrder` and
`InsertItem` are stutters and `ClearOrdered` is the whole `Checkout`.
Without failing statements and dying servers, but with any number of checkouts of
any sessions, `OrdersGetWritten` holds: an order that lacks lines has a handler in
`insertItems`, which `WriterOK` says will write them.

**ClientProofs.** `BrowsersUseTheShop`: a step of a browser with the server is a
step of `Spec` or a stutter, so all of the above holds behind browsers. With it
`ClientInv` is inductive: a call in flight is the request of its slot (`CallOK`),
the orders a browser lists are there and none is still claimed by a call
(`ListOK`), and the carts of the server hold positive quantities (`CartsPositive`):
the server takes any, but an add of the client asks for 1 or more, and so does a PUT
that sets a row. From it follow `BrowsersTyped`, `StoredPositive`, `ReceiptsTrue` and
`EachConfirmedOnce`. `ReadingGoesOn` is an action property proved step by step.

**AuthProofs.** `SessionInvariant` proves `IInv`, which is `TypeOK` and
`JobsSound`: what a goroutine knows between two commands. Types alone do not do:
that `SetKey` generates for a session that exists, or that `DelRow` returns to
somebody, follows from `JobOK`. `TokensLiveOnce`: every step is a step of
`SessionLife` or a stutter, since keys only come from `SetKey` with a fresh
token. `DeadTokensRefused`: a `valid` answer comes from `LoadUser`, which `JobOK`
says is reached with a token that was live on arrival. `LogoutRevokes`, under the
hypothesis that Redis does not fail: `RevokedIsGone` is not inductive, as a
success is answered one or more steps after the DEL; `RevokedInv` adds that the
token of a goroutine past its DEL is not in Redis, and `TokensLiveOnce`'s
argument keeps it out. `StoresTyped` is the type invariant.

**StoreProofs.** Each theorem names the failures it allows, and each step is
first shown to do one of six things to the stores (`StoreStep`). `SessionsKnown`
(only PostgreSQL fails): a stored token is told or in the hand of the goroutine
that made it. `BackupFollows` (only answers get lost): `AgreeInv` adds to
`StoresAgree` that a token in the making has one maker, has its key, and is told
to nobody, so that no logout can come between its key and its row; and that a
goroutine past its DEL finds the key gone. `LiveSessionsAccepted` follows, as a
key leaves Redis by the DEL of its own token or by expiry.

**RefreshProofs.** `RefreshesReplace`, under the hypothesis that Redis does not fail,
with any number of connections: only refreshes that overlap leave a login two
sessions. `OneSessionUnlessCrossed` is strengthened to `HeirInv`: a refresh that has
found its session has found the only one of its login (`SoleHeir`), and finds it
deleted when it creates the next, which is `RevokedInv`; all of this but for logins
that are in `crossed`, where the second of two refreshes enters when it arrives.
One DEL that fails refutes it.

**ConnectionProofs.** `SocketsTracked`: `TypeOK`, `Tracked` and `NoneClosed`, with
`Opened` added (a goroutine that has not registered has its socket open), without
which registering could enter a closed socket. `ConnectionsTyped` and
`NoClosedEntries` are its other parts.

Only model-checked: all liveness (`CallsSettle`, `OrdersAdvance`, `CartPageConverges`,
`SessionAnswered`, `Released`; temporal steps under fairness are out of this
prover's reach). Totals are computed by a fold over the lines; what it computes
for every input is induction over data and is not proved either. `ServiceSpec` is
not proved: its hypothesis, that no session is shared, is not one the shipped
client meets, and what remains without it is `UnmetRequestsAtomic`. Every other
property of a passing run is a theorem, under the hypotheses on failures that the
instance of its run has as well.

## 5. Not modelled

- Registration: a lookup that decides nothing and an INSERT that the unique keys
  of `users` decide. No third statement can come between, and a user, once there,
  stays.
- `/api/health`: a constant. The search of `/api/products`: a choice of rows.
- The choice of a server by nginx (weights, `max_fails`): the servers share one
  database and keep nothing, so which of them runs a request shows nowhere.
- `DeleteUserSessions`, `CleanExpiredSessions` and `loadOrders`: nothing calls them.
- Layout, sorting and filtering of the catalogue, the menu, error texts: they
  show or change nothing the rest depends on.
- The second run of each mount effect that `StrictMode` (`client/src/main.tsx:7`)
  makes under `pnpm dev`: the model is of the production build, where the products are
  loaded once.
- The encoding of messages, opening and closing of the stores, configuration, and
  everything under `infra`, `k8s`, `chaos` and `scripts`. What these do to the
  programs (dying, restarting, losing connections) are the failures of the models.

## 6. What is left

1. Registration with the login that follows, if a third statement is ever added
   between its check and its INSERT.
2. Two browsers with two calls each: the state space is beyond an exhaustive run
   of a few minutes; the safety properties are proved for any number.
