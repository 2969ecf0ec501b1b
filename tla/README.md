# Sock shop: a TLA+ development

The repository is a web shop made of seven services (a Node front end, three Java and three Go
services, a Java consumer) with three databases, a session store and a message broker between them.
No service uses a lock or a transaction across two steps, so what makes the shop correct is the order
of the steps. This directory models those steps, checks them with TLC and proves part of what TLC finds.

    tlc -workers 2 -config orders_safety.cfg MCOrders     # any run: the table below
    tlapm FulfilmentProofs.tla                            # the proofs: any module named ...Proofs

## 1. Inventory

### Components, their state and their operations

| component | state | operations | where |
|---|---|---|---|
| carts | documents `cart` (customer, references) and `item` in DocumentDB | get, delete, merge of a cart; get, add, remove, update of an item | `src/carts` |
| orders | documents `customerOrder` | `POST /orders` (newOrder); reads through Spring Data REST | `src/orders` |
| payment | none | authorise an amount against a limit | `src/payment` |
| shipping | none; publishes to the queue `shipping-task` | `POST /shipping` | `src/shipping` |
| queue-master | none; consumes the queue | handleMessage | `src/queue-master` |
| user | collections customers, addresses, cards | register, login, create and delete customers, addresses and cards | `src/user` |
| catalogue | none; reads a MySQL database | list, count, get, tags | `src/catalogue` |
| front end, API | sessions (Redis), the cookie `logged_in`, counters of its metrics | cart, order, login and registration handlers; pass-through of the other calls | `src/front-end/api` |
| front end, pages | the address of the page, cookies, timers, menus, boxes | paging, filtering, order, delete of the cart, logout; gallery, menus, alignment | `src/front-end/public` |
| manifests, Terraform, tests, health, metrics, logging, tracing | none of the program's | | `src/menifest`, `src/jw_trf`, ... |

### How they interact

    browser -> front end -> catalogue            an item is looked up before it is put into a cart
                         -> carts                cart of the session, or of the customer
                         -> user                 login, registration, the links of an order
                         -> orders -> carts, user (four reads, in parallel)
                                   -> payment
                                   -> shipping -> broker -> queue-master

A login merges the cart of the session into the cart of the customer. An order that was answered with
201 makes the page delete the cart. All other calls are HTTP requests; the queue is the only
asynchronous message.

### What is hard, and what makes each component correct

* **carts.** `CartResource.value()` is a look-up followed by an insert, called up to five times in a
  handler, some of them only for a debug message; reads may go to a replica that lags. Correct: a
  customer has one cart, an item has one line in it, no line points to nothing, merged items belong to
  one cart, whatever is interleaved and wherever a handler is killed. When requests of one customer
  overlap, less holds: the number of carts is bounded, and handlers end.
* **orders.** The handler waits a limited time for calls that go on after it stopped waiting. Correct:
  a stored order is paid and shipped, and the answer says what happened; what remains possible is an
  order that was charged, perhaps shipped, and answered with an error.
* **shipping and queue-master.** A shipment is accepted whether it can be queued or not, the queue is
  not durable and nothing confirms that a message has arrived in it, deliveries are repeated. Correct: each accepted
  shipment is handled, unless it was lost, on its way to the broker or with it; what was lost never comes back.
* **user.** Creating a card is two writes, deleting a customer is four steps that use what the first one
  read. Correct: an answered creation stays, links dangle only for a known reason, nothing comes back.
* **front end, API.** A handler reads the cookie and the session before its calls to other services and
  uses them afterwards; exceptions in callbacks end the process with the requests of everybody. The pages are served without
  a session (`server.js:21-29`), so the requests a page begins with start one each, side by side, and the answer that comes last says which
  one the browser keeps. Correct: items reach a cart of the one who asked; `logged_in` stands for a session with
  a customer of that browser, and the session cookie, which is what the server goes by, names the same session unless
  the browser was closed or given another session by an answer that came late; items are left behind in the session's cart only if an
  anonymous add overlapped the login, the login went on without its merge, or the carts service was in disorder about that session, by
  requests that overlapped there, arrived late or read from a replica that lagged. Every request is
  answered or lost with the process, and the page says what has happened. What ends the process is an answer of a service
  other than carts that is not what it was asked for, or a session store that cannot be read. The user service need not be broken
  for that: if it works and does not know the customer of the session, its error ends the process (`orders/index.js:61`).
* **front end, pages.** The choice of the customer is kept in the address, which is parsed and written
  anew at each click; timers are kept in variables that are overwritten. Correct: the page asks for what
  was chosen, no timer is lost, no menu stays open, the boxes fit after the last resize.
* **catalogue.** Page arithmetic spread over the service and the page. Correct: the pages offered are
  the matching socks, each once.

`PROJECT.json` lists each hazard at its line with the properties that cover it, or the reason none does.

## 2. Modules

| module | models | composed with |
|---|---|---|
| `ShoppingCart` | the promise of the carts service: a cart is a sequence of lines, an operation is one step, only a merge may stop halfway | refined by `Carts` |
| `Carts` | the carts service, one action per database call | |
| `CartsAsked` | `Carts` with a record of what it was asked for | what it shows of carts in disorder is what `FrontEnd` relies on |
| `Payment` | `service.Authorise` as an operator | extended by `Orders` |
| `OrderOutcome` | the promise of the orders service: an order is charged, shipped, placed, refused or fails | refined by `Orders` |
| `Orders` | `newOrder`, its six calls and the network | |
| `Shipping` | postShipping, the broker, the consumers | |
| `Fulfilment` | `Orders` and `Shipping` joined: the shipment an order posts is the message that is queued | |
| `Users` | the writes of the user service, one action per database call | |
| `Query` | the query part of an address: parse, read, set, remove, write (`jquery.query-object.js`) | extended by `Catalogue` |
| `Listing` | what the catalogue service lists and counts, `cut`, and the number of pages `category.html` makes of the count | extended by `Catalogue` |
| `Catalogue` | `category.html`: its address, its filter and its pages | joined in `Tab` |
| `Gallery` | the pictures of `detail.html` and their interval | joined in `Tab` |
| `Window` | the width of the window | extended by `Rows` and `Menu` |
| `Rows` | the row of boxes of one height | joined in `Tab` |
| `Menu` | the drop-down menus that open under the mouse | joined in `Tab` |
| `Tab` | a browser tab that goes from page to page: `Catalogue`, `Gallery`, `Rows` and `Menu` | |
| `CookieJar` | the cookies of a page (`jquery.cookie.js`) | extended by `FrontEnd` |
| `FrontEnd` | browsers, cookies, sessions and the API handlers, with the set of items in the carts of each customer and each session | |
| `Api` | every route of the front end with every answer of the services behind it, and what the page makes of it | |
| `...Proofs` | the theorems about the modules they are named after; `FulfilmentProofs` has those of `Orders` and `Shipping` and cites them in those of the composition, `CartsSerialProofs` continues `CartsProofs` and `CartsPromiseProofs` continues that, `PageProofs` is about `Gallery`, `Rows`, `Menu` and `Listing` | |
| `MC...` | constants and symmetry for TLC | |

Operators whose comment begins with "Mutant of" are faulty variants of the definition they name, kept
to show that each property notices a fault; no specification uses them.

### Carts

`carts` and `items` are the two collections; `lagging` holds the states of the primary that the replica
has not shown yet, so that a read (`View`) sees the oldest of them. `worker[w]` is a request thread: `todo`
is the list of the steps its handler still takes, `cart` and `hand` are its local objects. The scripts
(`AddScript`, ...) follow the order of the calls in the source, and include the `value()` calls whose only
use is the text of a debug message, since these create missing carts as well. Each step name has one
action: `Find` (the look-up of `value()`), `Create`, `HasItem`, `FindItem`, `Increment`, `SaveItem`, `SaveQuantity`, `AddItem`,
`RemoveItem`, `DestroyItem`, `DeleteCart`, `MergeItems`, `MergeItem`. `Abort` kills a handler between two
steps; `torn` remembers the two carts of a merge that was killed between two items, for which nothing more is
promised: not even one line for an item, since the update of one cart brings back an item document that two torn carts
share and a third request had destroyed, after an add to the other has looked for a line and found none. That takes three
threads; the runs have fewer, and the proof of `OneLinePerItem` asked for the exception. `Serial` restricts the clients: requests that name one customer do not overlap.
Left out: unit prices (a stored item keeps the price of its first save), and the order of a customer's
several carts (`Find` may return any of them, as the database may). The driver reads the cart first and then the items it
refers to; `Find` is one read of both, and what another handler changes in between is left out.

### Orders, Payment, Shipping, Fulfilment

`pc[o]` is the call the handler of order o waits for, `call[o][c]` the progress of each call: sent, served
(acted on, the response under way), returned or failed. Calls progress whether or not the handler still
waits (`Timeout`, `CallThrows`, `Crash` change only `pc`). `ServePayment` applies `PaymentAuth`;
`ServeShipment` takes the shipment. `PaymentDeclined` is the branch for a verdict that is not "authorised"; the one before it, for a payment
response that is null, is left out, as the payment service of the repository writes a JSON body in each of its answers.
Amounts are whole cents: the rounding of `float` sums is left out.
In `Shipping` the broker holds `queue` and one unacknowledged `delivery` for each consumer. `CrashBroker`
forgets both, `KillConsumer` puts a delivery back. `PostShipping` may lose the shipment though the broker is `up`: the catch
around `convertAndSend` takes the exception of a broken connection or of a timeout like that of a broker that is gone. In `Fulfilment` the step `Post` is both the orders'
`ServeShipment` and the shipping service's `PostShipping`.

### Users

Three collections become two sets: `customers` with their links, and `attributes` (addresses and cards
with their kind). The collections start with what the seed scripts insert: `Seeded` customers with an address and
a card each, and an address and a card of nobody. Every action is one call to the database; a call may fail applied
or not applied. The two `create` helpers of `CreateUser` do not stop at an error; the field `failed` remembers the
kinds that were not stored, and the cleaning steps follow. `own` is what a handler works on: ids it has created and
not yet linked, or is about to remove. A card or an address may be posted for an id that is well formed and nobody's, `Unknown`: it is
inserted, and its link finds no customer. Reads, logins and password hashes change nothing and are left out. `answered`,
`named` and `early` are history: what clients were told, what deletes have named, what was deleted before it was linked.

### FrontEnd

`sid[b]` is the session a browser names in its requests, `started[s]` the browser whose request started s, `session[s]` the customer
it has. A request of a browser without a session starts one, whichever request it is (`LoadPage` stands for those a page begins with), and its
answer names it: `SetSession`, in `Answer` or in `Reply`, puts it in the place of whatever the browser had by then, and `lost` remembers the
browser if that was something. A handler keeps the owner of the cart from when the request came in (`CustomerId`). A login passes `auth`,
`merge`, `save` and `reply`: the session is written when the response ends, and only then may the browser
get the cookie. `MergeFails` treats login and registration as the code does: a login goes on after any
failure, a registration goes on only if the carts service answered at all. `Crash` ends the process where
a callback throws; calls under way may still reach the other services (`alive` is FALSE). Sessions are in
Redis, as the manifests deploy the front end, and survive. The cookie of the session ends with the browser and
`logged_in` after an hour (`CloseBrowser`, `Expire`), so a browser closed within the hour comes back with the one
and without the other; so does one whose session was replaced after a login. Their cart is that of the id `Undefined`, shared by all of them.

Of the carts of an owner `contents` has the items. A call to the carts service (`CallCarts`, `Merge`) is one step with the effect that `ShoppingCart` says,
which `Carts` implements if the requests of an owner follow one another and reads do not lag. Neither is sure here: handlers
overlap, calls of a process that is gone arrive late, and the replica lags. So after any step the carts service may be in `Disorder` about
an owner: what its carts show is then any set of items that were asked for, for that owner or in a session that was to be merged into its cart
(`asked`, `merged`, `MayHold`). That they show no others is `OnlyAsked` of `CartsAsked`, proved of `Carts` with any overlap, lag and kills; it
has no run of its own.
`strayed` remembers the sessions whose items may have been left behind. An error of the catalogue becomes a line without an id, `NoItem`. Left out: session
expiry (a day, longer than the hour of the cookie), a Redis that cannot be reached, and the development-only parameter `custId`.

### Api

`Arrive` is what a request meets before its handler (the slash, files, parsing, the session), `Callback` what each
callback does with each kind of answer: an answer with a status, further calls, or an exception. `Return` runs one
callback; a second answer is ignored, an exception sets `up` to FALSE and loses every open request. `did` remembers
whether the change the route is for was made, `trouble` what went wrong with a call, `blame` the service after whose
answer the process ended. `PageSays` is `client.js`. The counters of the metrics are in `Observe`. `Api` knows no carts and no
items, `FrontEnd` no statuses: the first asks whether and how requests are answered, the second what they do. Answers of a kind are one: "missing" is the 404 that
`GET /orders` tells from other errors, "refused" any other 4xx, since no other route tells them apart, "page" a text with status 200 where the code
parses it after looking at the status only (login and registration).

### Listing, Catalogue and Query

`Atoi` also stands for the arithmetic of JavaScript on a size that was typed into the address by hand; negative sizes are left out.
`List` and `Count` are the SQL queries as set and sequence operators, `Cut` is `cut`, the other definitions are
the arithmetic of `category.html`. The page keeps its choice in the address alone, and every click writes the address from
what was parsed (`QueryString`) and loads the page, which parses it (`Parse`). `Query` models the library that does so: numbers
are recognised by their look, "0" is not one, nothing after the key is true, keys may have paths of tokens. A text is the
set of names it lists. Actions are the links of the page, and a client that asks for an order.

### Tab: Gallery, Rows, Menu

`Tab` shows one page at a time; leaving it ends its timers. In `Gallery` the variable of the script, `timer`, names one interval;
`strays` counts those that run unnamed. In `Menu` each menu has one `timeout` and `stale` timers; events bubble as in
the document, the toggle before the menu on the way out and on the way in. In `Rows` boxes come with the answer of
the catalogue and grow with their pictures; the row is aligned on load and after each resize. Natural heights are a
constant operator of box, picture and width.

## 3. Runs

| run | states | what it asks | bounds |
|---|---|---|---|
| `carts_concurrent` | overlapping requests, stale reads | `CartBound`: at most one cart per thread and per write of lag; `Answered` | two threads, three requests, lag of one: two threads are what the race needs, the third request sees its result |
| `carts_serial` | no overlap for a customer, kills | one cart, no dangling reference, no shared item, one line for an item, refinement of `ShoppingCart`, with merges and what a merge killed halfway tears | one thread, a customer and a session, two items: four requests fill two carts, merge them (or half of them) and look again; one kill anywhere |
| `carts_delete_race` | fails | `DeleteLeavesNoCart`, the assertion of a unit test | finding 1 |
| `carts_lag_add` | fails | `OneLinePerItem` with a lag of one write and one thread | finding 2 |
| `orders_safety` | two orders | the inductive invariant, `SavedWasPaid`, `AnswerTruthful`, `NothingStartsLate`, refinement of `OrderOutcome` | totals that give the amounts 0, 105.00 and 105.01, so refused, just authorised, just declined; orders share no state but the stored set, so two suffice |
| `shipping` | broker and consumers | the inductive invariant, which accounts for every shipment and says that what was lost stays so, redelivery, `Delivered` | three shipments, two consumers, one broker crash, two kills |
| `fulfilment` | orders and shipping | `HandledWasPaid`, `SavedIsOnItsWay`, `PlacedIsHandled`, `Ended` | two orders of an authorised amount, one consumer |
| `users` | two handlers | `AnsweredKept`, `DanglingExplained`, `NoOrphan`, `NeverRevived` | one customer there from the start, three requests with one fault: create, add, delete is the longest chain a property mentions |
| `front_end` | two browsers, two customers, one of them registered | `CookieMeansCustomer`, `OwnCart`, `StrandedExplained` | three sessions, so that a browser may start two beside another; four requests, two at a time, and one fault (a failed call, a lost answer, a disorder of the carts, a browser that is closed): a load whose answer comes after that of a login takes two, an item left behind by a failed merge and found at the next login four; browsers, sessions and handlers are symmetric |
| `api` | two requests under way | `HealthyStaysUp`, `PageTruthful`, `Answered` | eighteen routes, one or two of those that share a handler; one browser, with and without its cookie, its customer and its session |
| `tab` | pages with a state | `PagesCover`, `AskedIsChosen`, `EmptyPageExplained`; `OneTimer`, `EveryPictureShown`; `RowFits`; `AbandonedCloses` | eight socks (a short last page for the sizes 3 and 6), one without a tag, two databases, three addresses to begin with, one of which has keys with paths; three pictures; three menus with three timers each; widths on both sides of 760 and 768 |
| `catalogue_sort` | fails | `SortHonoured`, a case of the service's unit test | finding 3 |

A module has at most one type invariant, checked in one of its runs; in the pages of `Tab` it would say little, and `Menu` keeps
one for its proof. Deadlock is checked everywhere: `Quiesce` (and its like) is the state in which
all requests of the bound are answered and nothing is under way. The bounds `MaxRequests`, `MaxAborts`, `MaxLag`,
`MaxFaults`, `MaxBrokerCrashes`, `MaxKills`, `MaxTimers` and `MaxAlign` are guards of the actions they limit, `Served` is the set of
routes asked for, and as many sessions are started as `FrontEnd` has `Sessions`; none of them has a counterpart in the code.

### Fairness

* `Carts!FairSpec`: weak fairness of each thread's `Handle`. A servlet thread runs on, and a database call
  returns. Nothing is assumed of the replica's `CatchUp`: it is never more than `MaxLag` writes behind, so the carts that
  `value()` inserts while it sees none come into its sight one after the other. A replica that lags without limit
  is outside of the model; there `value()` would go on until its stack is full.
* `Orders!FairSpec` and `Fulfilment`: weak fairness of `Handler(o)` only. A handler waiting on a Java Future may always
  time out. Nothing is assumed of the services it calls.
* `Shipping!ShippingFairness`: weak fairness of each consumer (the listener container polls) and of the restart of the
  broker (Kubernetes restarts the pod). Kills and crashes are bounded: a consumer that always dies before its
  acknowledgement never delivers.
* `Api!Fairness`: weak fairness of each request's `Return`. A call of Node comes back, if only as an error of the network;
  which call, and with which answer, is open.
* `Tab`: weak fairness of `Timers`, the interval of the gallery: `setInterval` fires. Nothing is assumed of the mouse and of the
  catalogue; `EveryPictureShown` speaks of a page whose product has come and whose picture the mouse leaves alone.

The other specifications state no fairness and only safety.

### Findings

1. `carts_delete_race`: a unit test says that a customer has no cart after a delete. Two overlapping first
   requests leave two carts, and the delete removes one (`CartResource.java:19`).
2. `carts_lag_add`: a comment and a unit test say that adding an item twice makes one line. With reads from a
   secondary (`application.properties:2`) it makes two, with one client and no overlap.
3. `catalogue_sort`: a unit test of the catalogue expects an ordered list; `ORDER BY ?` with a bound
   parameter (`service.go:90`) orders by a constant.

## 4. Proofs

The theorems hold for every set of orders, shipments and consumers, browsers, customers, items, threads and handlers, pictures,
boxes, menus and widths, all totals, every fee and limit, and any number of requests, faults, crashes and kills. They assume what
the modules' ASSUMEs say: `Totals \subseteq Int`, `Fee \in Nat`, quantities and the limit natural numbers, `None` not a verdict, a
customer, a request or an id, no session a customer, `Undefined` and `None` neither a session nor a customer, `None` no browser and no item,
`NoDelivery` not a shipment, the names of seeded customers distinct, finitely many threads of the carts service, finitely many
boxes of natural heights, finitely many socks with one row each, no contents of a cart that are `None` (which stands for those of a torn
cart), the routes asked for among those there are, and, in the composition, that the shipments are the orders.
The four theorems whose names end in `Serial` and `CartsPromised` assume in their statements what makes them true, and what the run `carts_serial`
assumes: the requests that name a customer are served one after another (`Serial`), and reads see every write (`MaxLag = 0`). Without
the first the run `carts_delete_race`, without the second the run `carts_lag_add` shows a counterexample.

| module | theorem | says |
|---|---|---|
| `FulfilmentProofs` | `Invariance` | `OrdersInv` is an invariant of `Orders` |
| | `TypeCorrect` | so is the type invariant |
| | `StoredOrdersArePaid` | `SavedWasPaid` |
| | `AnswersAreTruthful` | `AnswerTruthful` |
| | `NothingAskedLate` | `NothingStartsLate`, an action property |
| | `OutcomePromised` | `Orders` implements `OrderOutcome` |
| | `ShippingInvariance` | `ShippingInv` is an invariant of `Shipping` |
| | `ShipmentsAccountedFor` | `AccountedFor`, a part of it |
| | `RedeliveryBounded` | `HandledAgainOnlyAfterKill` |
| | `LossIsFinal` | `LostForGood`, a part of it |
| | `FulfilmentInvariance` | `FulfilmentInv` is an invariant |
| | `HandledIsPaid` | `HandledWasPaid` |
| | `SavedOnItsWay` | `SavedIsOnItsWay` |
| `UsersProofs` | `UsersInvariance` | `UsersInv` is an invariant |
| | `UsersTyped` | so is the type invariant, with ids and names unique |
| | `AnsweredStays` | `AnsweredKept` |
| | `DanglingLinks` | `DanglingExplained` |
| | `NoOrphans` | `NoOrphan` |
| | `NobodyRevived` | `NeverRevived`, an action property |
| `CartsProofs` | `TypeCorrect` | `TypeOK`, with or without overlap, lag and kills |
| | `CartsBounded` | `CartBound`, likewise |
| | `OneCartKeptSerial` | `OneCart` |
| | `OnlyAskedFor` | `OnlyAsked` of `CartsAsked`, with or without overlap, lag and kills |
| `CartsSerialProofs` | `ItemsNotSharedSerial` | `ItemsNotShared` |
| | `NoDanglingRefSerial` | `NoDanglingRef` |
| | `OneLinePerItemSerial` | `OneLinePerItem` |
| `CartsPromiseProofs` | `CartsPromised` | `PromiseKept`: `Carts` implements `ShoppingCart` |
| `FrontEndProofs` | `CookieAlways` | `CookieMeansCustomer` |
| | `TypeCorrect` | `TypeOK` |
| | `CartsAreOwn` | `OwnCart` |
| | `StrandedOnlyThen` | `StrandedExplained` |
| `ApiProofs` | `TypeCorrect` | `TypeOK`, with the counting of the metrics |
| | `HealthyAlwaysUp` | `HealthyStaysUp` |
| | `PagesTellTheTruth` | `PageTruthful` |
| `PageProofs` | `OneTimerAlways` | `OneTimer` |
| | `RowAlwaysFits` | `RowFits` |
| | `AbandonedClosesAlways` | `AbandonedCloses` |
| | `ListedAreCounted` | the rows `List` cuts are the socks that match, each once, as many as `Count` says |
| | `PagesCoverRows` | `Covered` for any filter and size: the core of `PagesCover` |
| | `PagesShowSocks` | a page that is offered shows a sock |

**Orders.** `SavedWasPaid` is not inductive: that the stored amount is the authorised one depends on the items not being
read again after the payment was asked for, and that the shipment was taken depends on what a returned call
means. `OrdersInv` says this for each order. `PaymentInv` ties the verdict to the progress of the two calls,
`ShipmentInv` ties the shipment to an authorised verdict and to `taken`, `HandlerInv` says that what the handler has not
reached it has not asked for, `StoredInv` that a stored order has ended. There is one lemma for each action, `...Keeps`;
`NextInv` puts them together. For the refinement, `Unseen` and `Seen` say which changes of `pc` the client can see, and
`RefinesStep` maps each action to `Charge`, `Ship`, an answer or a stutter.

**Shipping.** That a shipment is handled at most once more than consumers have died is not inductive: it needs that the
shipment is never at two places. `OnePlace` says so, and `HandledInv` counts differently for what is still queued and
what is not. `AppendRange`, `PushRange` and `PopRange` say what the three operations on the queue do to its set of
messages and keep it free of repetitions; `Released` says the same of a consumer's delivery. A shipment can be lost at two places, before it
is queued and with the broker; that neither comes back (`LostForGood`) needs that a shipment is posted once, and that what is queued was not handled by
a consumer that lived.

**Fulfilment.** The two invariants are joined by one equation: `accepted = taken`, a shipment is accepted by the one
service exactly when it is taken from the other. `BrokerAndConsumersKeep` and `PostKeeps` are stated about any poster of
shipments, so that the composition can cite them; an order posts one not accepted before, by `ShipmentInv`.

**Users.** Nothing in the service locks an id; what keeps the answered documents in place is who holds which id. `IdsInv` says that
every id in use has been given out. `CreatingInv` and `MakingInv` say that what a creating handler holds is held by no other,
is linked by nobody but the customer it is creating, and has not been answered, so that its cleaning steps hit nobody else's
documents; `LeavingInv`, that what the delete of a customer removes was that customer's, who has been named;
`LinksInv`, that no two customers share a link; `KnownInv`, that a customer somebody was told of is stored or has been named. The
four properties are conjuncts of `UsersInv`. The lemmas come by kinds of step: `Receive`, `Create`, `Delete`, `Kill`.

**Carts.** `CartBound` counts documents, but documents come from copies that threads hold and from states the replica is
still behind. `BoundInv` therefore counts tokens: the carts of a customer in any state a read may still see, and for each thread that
holds a cart of the customer (`Holders`) that cart, or the new one it may insert. A thread that makes a document gives
its token to it; a read of a replica that lags gives a token for a state that will be forgotten (`HistoryInv`). In the serial setting the invariants
build on one another. `OneCartInv`: a thread about to insert has seen no cart and is alone with its customer. `ItemIdsInv`: an id is
one item's for ever, wherever there is a copy of the document. `DrawnInv`: what a thread holds comes from the carts it may change, and what it
saved and has not yet added is in no cart. `SharingInv`: two carts share an item only in a merge, and both are torn or neither is.
`WholeInv`: references resolve, and what a merge still has to move is in the other cart, once. `LineInv`: a thread on its way to add an item found
no line of it, and nobody adds one meanwhile. Each `...Step` lemma goes through the actions with one lemma for each; the last part of `CartsProofs`
says once what every step does to the collections and to its thread, and the three proofs of `CartsSerialProofs` cite that.

**CartsAsked.** Without the serial setting nothing is left of these invariants: documents are overwritten with what was read long before, and two carts
of a customer may share an item. What stays is where items come from. `AskedInv` speaks of ids and of owners, wherever a copy is: an item document
that is stored, shown by a read or held by a handler (`Seen`), and an id that a cart of an owner refers to, likewise stored, shown or held (`Refers`). If both have
the same id, the item is one the owner may hold. A step keeps that since it moves what was there (`KnownItem`, `MayRefer`), gives out a new id for an item
just asked for (`NewFor`), or copies a reference from a session's cart into that of a customer it was to be merged into (`MayHoldFacts`); `AskedKept` is that argument, and the
lemmas for the actions only say which of the three they do.

**ShoppingCart.** A client sees the lines of a cart, so a step of `Carts` is seen when the save is made that changes them: `SaveQuantity` of an
update or of an add that has found a line, `AddItem` and `RemoveItem`, the deletes, the last step of a merge, the kill that tears two carts. All
others are stutters (`LookSeen`, `ItemSeen`, `MergeSeen`, `QuietSeen`). That the save makes the change that was asked for is known from earlier reads, which `PromiseInv` adds to
`LineInv`: the items in a handler's copy of a cart are as stored (`Current`), the item in its hand is one sock and stored (`OneSock`), or the first
line of its kind in the customer's cart and in no other (`Found`), the quantity it writes is one more than that line has (`OneMore`) or the one asked
for (`AsAsked`). Of a merge it says that what is still in the hand is the end of the session's cart and what is not is the end of the customer's
(`HalfMerged`), and that the hand is empty when the session's cart goes (`Emptied`). Until then a client sees the customer's cart without the lines
merged so far: `Pending` counts them, `LinesOf` are the lines of the references before. `OwnMerge` and `OthersMerge`, like each pair of lemmas
about a part, go through the handler's own steps and then those of all others; the lemmas `...Seen` map each action to the step it is seen as.

**FrontEnd.** One invariant, `Inv`, carries the four theorems. `SessionInv`: a session has a customer whom the browser that started it has logged in as,
and the cookie `logged_in` names such a session. That needs the order of a login, save before reply, which is in `HandlerInv`: `Sound` says of each step of a handler what it may still rely on
though sessions, cookies and carts go on. Its browser has started its session; it names that session or will (`sets`), or the browser has lost one;
its owner was the browser's when it was read, and that never ends to be so, as `was` and `lost` only grow (`Grown`). `CartInv` says
that carts hold no more than `MayHold`, even in disorder, and that what was asked for an owner was asked for by a browser that might. For
`StrandedExplained`, `StrandInv` says that as long as a session has not strayed, an anonymous add to its cart (`AddsTo`) excludes a login in it (`LogsInto`) and a
browser logged in with it (`Claimed`), and that its cart is empty once a login has merged it (`Emptied`) and from then on.

**Api.** An answer says whether the change was made only because of where the request is on its way. `ApiInv` says so: a request without
an answer waits for one call of its route, or for the two lists of an order (`Waits`); its change is made just when it waits for the merge
of a login, but for a registration that took a page of a proxy for its customer (`Paged`); it had no trouble but a failed lookup when it changes a cart (`Pending`); one that was answered may wait for a list
of an order, whose callback cannot answer again (`Over`). `CallbackIs` says what callbacks do to any answer and which of them throw,
`TruthfulAnswer` goes through the routes whose page says something.

**Gallery, Rows, Menu.** A second interval runs only where the mouse was before the handlers (`GalleryInv`). `RowFits` is inductive with
the types, as boxes that come or grow are `late`; what it needs is that a maximum exists (`MaxIs`, by a smallest counterexample). A menu
closes because each open one is under the mouse, has a timer, named or stale, or was left at a width that sets none; `Accounted` says so of
any state in the middle of a mouse move, so that each handler has a lemma of its own. `GallerySpec`, `RowsSpec` and `MenuSpec` are these parts
by themselves: every step of `Tab` is a step of each of them or changes nothing of it. That is not itself proved, as `Tab` extends `Query`; the run
`tab` checks the same properties in the composition.

**Listing.** The page divides by the smaller of size and count, the service cuts with the size; `NumPagesIs` says that both agree on where the last
page lies. `CutIs` gives the two ends of a page, so pages are adjacent pieces of the rows; after `i` pages the flattened sequence is the first
`i * size` rows (`PagesJoined`). That there are as many rows as `Count` says needs one row for each sock (`ListedAreCounted`). The hypothesis of
`PagesCoverRows`, a size that is not 0 unless nothing matches, is `~Endless` of `PagesCover`.

Induction over data has no rule here, but the natural numbers are well-founded: `LeastNat` gives the least element of a set of
naturals, and a lemma about a recursive function or about the length of a sequence follows from its smallest counterexample. So `LiveRefs` says
what `Live` returns for any sequence of references.

Only model-checked: all liveness (`Answered` of both modules, `Delivered`, `PlacedIsHandled`, `Ended`, `EveryPictureShown`), which is outside
of what the prover handles; and what `Catalogue` and `Tab` say of addresses (`AskedIsChosen`, `EmptyPageExplained`, and that it is the size
in the address for which `PagesCover` asks), since `Query` parses and writes nested values with RECURSIVE operators.

## 5. Not modelled

* Circuit breakers: the libraries are not in the repository. What they do to a caller, a call that is refused
  before it is acted on, is among the failures of `Orders`, `FrontEnd` and `Api`.
* Health checks, logging, tracing, and the metrics of the Java and Go services: they change nothing that a client sees. (The
  counters of the front end are in `Api`.)
* Of the pages: markup and forms; the animations, carousels, tooltips and scrolling of `front.js`; submenus, which no page has;
  `jquery.flexslider.js`, which no page loads; `js.cookie.js`, whose place `jquery.cookie.js` takes; `modernizr.js` and the other
  libraries of third parties.
* Of the reads: the pages of lists that Spring Data REST makes of orders, and `Get`, `Tags` and the logins of the Go
  services. They change nothing.
* Kubernetes and Terraform files: declarations. The models take the number of replicas, the session store and
  the killing of pods from them.
* Build and test scripts, images, and the hooks that test the interface descriptions (`api-spec`).
* `DockerSpawner` of queue-master: nothing calls it.

## 6. Plan

In this order:

1. `Checkout`: `FrontEnd` and `Orders` with the items of the orders, for the order that is sent twice and the delete of the
   cart that overlaps an add.
2. `Carts`: a history of answered requests, for the updates lost when requests of a customer overlap.
3. Circuit breaker of the payment service as the code configures it, if its library becomes part of the repository.
