-------------------------------- MODULE Api --------------------------------
(***************************************************************************)
(* The API of the front end, route by route: what a request meets on its   *)
(* way (middleware, handler, callbacks) and what becomes of it when the    *)
(* services behind give any of the answers they can give.  A callback that *)
(* throws ends the Node process, and with it every request under way; an   *)
(* exception before the first call is caught by Express.                   *)
(*                                                                         *)
(* FrontEnd models what the requests do to carts and sessions; this module *)
(* models whether they are answered, and how, and what the page then says. *)
(***************************************************************************)
EXTENDS Naturals, FiniteSets

CONSTANTS
    Requests,     \* requests under way at one time
    Browsers,
    Served,       \* bound: the routes asked for
    MaxRequests   \* bound: requests received

ASSUME ApiAssumption == MaxRequests \in Nat

VARIABLES
    up,        \* does the process run?
    request,   \* [Requests -> request under way, or the last one]
    cookie,    \* does the browser send "logged_in"?
    session,   \* what the session's customerId names: "none", "customer", "gone"
    received,
    blame      \* who made the process end: the service that did not give what it was
               \* asked for, a missing "session", or "nobody"; "none" before

vars == <<up, request, cookie, session, received, blame>>

-----------------------------------------------------------------------------
(* What the services behind answer.  "ok": what was asked for; "empty": a   *)
(* list without elements; "error": JSON with status_code 500; "refused":    *)
(* JSON with another error, a 4xx; "missing": 404, where the code tells it  *)
(* from other 4xx; "text": a page of a proxy instead of JSON, with status   *)
(* 503; "page": one with status 200, where that matters; "nobody": no body; *)
(* "unreachable": no answer at all.                                         *)

Answers ==
    {"ok", "empty", "missing", "error", "refused", "text", "page", "nobody", "unreachable"}
Lists == {"first", "orders", "addresses", "cards"}

\* endpoints.js: the service behind a call.
ServiceOf(call) ==
    CASE call \in {"list", "drop", "change", "merge"} -> "carts"
      [] call \in {"lookup", "image"} -> "catalogue"
      [] call \in {"orders", "pipe", "place"} -> "orders"
      [] call \in {"customer", "addresses", "cards", "auth", "create", "delete", "first"} -> "user"
      [] call = "simple" -> "user or catalogue"

\* A customer that is not there has no record; the lists of its cards and
\* addresses are empty.
AnswersTo(call, who) ==
    {a \in Answers :
        /\ a = "empty" => call \in Lists
        /\ a = "missing" => call = "orders"
        /\ a = "page" => call = "auth"
        /\ a = "ok" /\ call \in {"customer", "first"} => who = "customer"}

HttpStatus(call, answer) ==
    CASE answer \in {"ok", "empty"} ->
             (IF call \in {"create", "place"} THEN 201 ELSE IF call = "drop" THEN 202 ELSE 200)
      [] answer = "error" -> 500
      [] answer \in {"refused", "missing"} -> (IF call = "place" THEN 406 ELSE 404)
      [] answer = "page" -> 200
      [] OTHER -> 503

-----------------------------------------------------------------------------
(* What a handler or a callback does next. *)

Answer(status) == [does |-> "answer", status |-> status, calls |-> {}]
Call(calls) == [does |-> "call", status |-> 0, calls |-> calls]
Wait == Call({})
Throw == [does |-> "throw", status |-> 0, calls |-> {}]

\* errorHandler answers err.status; the errors of these handlers have none.
NextError == Answer(500)

\* simpleHttpRequest: whatever the service answers becomes 200.
SimpleHttpRequest(a) == IF a = "unreachable" THEN NextError ELSE Answer(200)

\* POST /customers, /addresses, /cards: no body is no JSON to write.
PostJson(a) ==
    IF a = "unreachable" THEN NextError ELSE IF a = "nobody" THEN Throw ELSE Answer(200)

\* DELETE /customers/:id, /addresses/:id, /cards/:id
DeleteJson(a) == IF a = "unreachable" THEN NextError ELSE Answer(200)

\* Mutant of FirstOf: an empty list has a first element.
FirstOfAny(a) ==
    CASE a = "unreachable" -> NextError
      [] a \in {"text", "nobody", "refused", "empty"} -> Throw
      [] OTHER -> Answer(200)

\* GET /card, GET /address: an error other than 500 has no _embedded.
FirstOf(a) ==
    CASE a = "unreachable" -> NextError
      [] a \in {"text", "nobody", "refused"} -> Throw
      [] OTHER -> Answer(200)

\* GET /cart, DELETE /cart, DELETE /cart/:id
CartStatus(call, a) ==
    IF a = "unreachable" THEN NextError ELSE Answer(HttpStatus(call, a))

\* The first step of POST /cart and /cart/update parses before it looks at the
\* error.
LookUpItem(a) == IF a \in {"unreachable", "text", "nobody"} THEN Throw ELSE Call({"change"})

\* Mutant of ChangeCart: the status of the answer is not looked at.
ChangeCartAny(route, a) ==
    IF a # "unreachable" THEN Answer(IF route = "POST /cart" THEN 201 ELSE 202) ELSE NextError

\* The second step takes nothing but 201, or 202, for success.
ChangeCart(route, a) ==
    IF a = "ok" THEN Answer(IF route = "POST /cart" THEN 201 ELSE 202) ELSE NextError

\* GET /orders: 404 is no orders; other errors have no _embedded.
SearchOrders(a) ==
    CASE a = "unreachable" -> NextError
      [] a \in {"ok", "empty", "missing"} -> Answer(201)
      [] OTHER -> Throw

\* GET /orders/*: the pipe has no listener for errors.
PipeOrder(a) == IF a = "unreachable" THEN Throw ELSE Answer(HttpStatus("pipe", a))

\* GET /catalogue/images*: the pipe has one.
PipeImage(a) == IF a = "unreachable" THEN NextError ELSE Answer(HttpStatus("image", a))

\* POST /orders, first step: status_code is looked for in the text of the body,
\* where it never is, and an error has no _links.
FindCustomer(a) ==
    CASE a = "unreachable" -> NextError
      [] a = "ok" -> Call({"addresses", "cards"})
      [] OTHER -> Throw

\* Second step, the two lists in parallel: the last to return goes on, the first
\* to fail answers.
FindOne(a, others) ==
    CASE a = "unreachable" -> NextError
      [] a \in {"text", "nobody", "refused"} -> Throw
      [] OTHER -> IF others = {} THEN Call({"place"}) ELSE Wait

PlaceOrder(a) ==
    CASE a = "unreachable" -> NextError
      [] a = "nobody" -> Throw
      [] OTHER -> Answer(HttpStatus("place", a))

\* GET /login, POST /register: req.session is set when the user service agrees.  With
\* status 200 a login parses whatever has come; a registration takes it as it is, and
\* goes on with a customer id that is undefined.
Authenticate(route, a, hasSession) ==
    IF a \notin {"ok", "page"} THEN Answer(IF route = "GET /login" THEN 401 ELSE 500)
    ELSE IF a = "page" /\ route = "GET /login" THEN Throw
    ELSE IF hasSession THEN Call({"merge"}) ELSE Throw

\* Mutant of MergeCarts: a login whose merge fails returns.
MergeOrReturn(route, a) ==
    CASE a # "unreachable" -> Answer(200)
      [] route = "GET /login" -> Wait
      [] OTHER -> Answer(500)

\* A login goes on without its merge, a registration does not.
MergeCarts(route, a) ==
    IF a = "unreachable" /\ route = "POST /register" THEN Answer(500) ELSE Answer(200)

Callback(route, call, a, others, hasSession) ==
    CASE call = "simple" -> SimpleHttpRequest(a)
      [] call = "create" -> PostJson(a)
      [] call = "delete" -> DeleteJson(a)
      [] call = "first" -> FirstOf(a)
      [] call \in {"list", "drop"} -> CartStatus(call, a)
      [] call = "lookup" -> LookUpItem(a)
      [] call = "change" -> ChangeCart(route, a)
      [] call = "orders" -> SearchOrders(a)
      [] call = "pipe" -> PipeOrder(a)
      [] call = "image" -> PipeImage(a)
      [] call = "customer" -> FindCustomer(a)
      [] call \in {"addresses", "cards"} -> FindOne(a, others)
      [] call = "place" -> PlaceOrder(a)
      [] call = "auth" -> Authenticate(route, a, hasSession)
      [] call = "merge" -> MergeCarts(route, a)

-----------------------------------------------------------------------------
(* The routes, by the handler that serves them *)

CustomerRoutes == {"GET /customers", "GET /customers/:id", "GET /addresses", "GET /cards"}
CatalogueRoutes == {"GET /catalogue", "GET /tags"}
PostRoutes == {"POST /customers", "POST /addresses", "POST /cards"}
DeleteRoutes == {"DELETE /customers/:id", "DELETE /addresses/:id", "DELETE /cards/:id"}
FirstRoutes == {"GET /card", "GET /address"}
DropRoutes == {"DELETE /cart", "DELETE /cart/:id"}
ChangeRoutes == {"POST /cart", "POST /cart/update"}
LoginRoutes == {"GET /login", "POST /register"}

FirstCall(route) ==
    CASE route \in CustomerRoutes \cup CatalogueRoutes -> "simple"
      [] route \in PostRoutes -> "create"
      [] route \in DeleteRoutes -> "delete"
      [] route \in FirstRoutes -> "first"
      [] route \in DropRoutes -> "drop"
      [] route \in ChangeRoutes -> "lookup"
      [] route \in LoginRoutes -> "auth"
      [] route = "GET /cart" -> "list"
      [] route = "GET /orders" -> "orders"
      [] route = "GET /orders/*" -> "pipe"
      [] route = "POST /orders" -> "customer"
      [] route = "GET /catalogue/images" -> "image"

OrderRoutes == {"GET /orders", "POST /orders"}
CartRoutes == {"GET /cart"} \cup DropRoutes \cup ChangeRoutes

ApiRoutes ==
    CustomerRoutes \cup CatalogueRoutes \cup PostRoutes \cup DeleteRoutes \cup FirstRoutes
        \cup CartRoutes \cup LoginRoutes \cup OrderRoutes
        \cup {"GET /orders/*", "GET /catalogue/images"}

\* Requests that end before the handlers of the API: an address that ends with a
\* slash, a file, the metrics; and one that no handler knows.
OtherRoutes == {"slash", "file", "GET /metrics", "unknown"}

Bodies(route) ==
    IF route \in ChangeRoutes THEN {"full", "partial", "malformed"}
    ELSE IF route \in PostRoutes \cup {"POST /register", "POST /orders"} THEN {"full", "malformed"}
    ELSE {"full"}

-----------------------------------------------------------------------------
(* The way of a request to its handler.  An exception on it, and before the  *)
(* handler waits, is answered by errorHandler.                               *)

\* getCustomerId reads the session in either case; so do the routes of orders
\* and GET /customers/:id.
ReadsSession ==
    CartRoutes \cup FirstRoutes \cup OrderRoutes
        \cup {"POST /addresses", "POST /cards", "GET /customers/:id"}

\* The handlers up to their first call: "User not logged in.", "Must pass id of
\* item to add", and what a missing session throws.  The 400 given to next() is
\* ignored.
Handle(route, body, hasCookie, hasSession) ==
    IF \/ route \in OrderRoutes /\ ~hasCookie
       \/ route \in ReadsSession /\ ~hasSession
       \/ body = "partial"
    THEN NextError
    ELSE Call({FirstCall(route)})

\* sessionMiddleware has four parameters, so Express calls it for errors only:
\* there it reads cookies that have not been parsed, and throws.  The status 400
\* of the error is lost.
SessionMiddleware == NextError

RewriteSlash == Answer(301)

Arrive(route, body, hasCookie, hasSession) ==
    CASE route = "slash" -> RewriteSlash
      [] route \in {"file", "GET /metrics"} -> Answer(200)
      [] body = "malformed" -> SessionMiddleware
      [] route = "unknown" -> Answer(404)
      [] OTHER -> Handle(route, body, hasCookie, hasSession)

-----------------------------------------------------------------------------
(* Metrics *)

Models == {"cart", "catalogue", "orders", "user"}

\* The first part of the path; no route begins with /user.
ModelOf(route) ==
    CASE route \in CartRoutes -> {"cart"}
      [] route \in {"GET /catalogue", "GET /catalogue/images"} -> {"catalogue"}
      [] route \in OrderRoutes \cup {"GET /orders/*"} -> {"orders"}
      [] OTHER -> {}

\* Mutant of Observe: requests are counted as they come.
ObserveArrival(route, o) == Cardinality(ModelOf(route) \cap Models)

\* When a response is finished its model is observed, if it has one.
Observe(route, o) == IF o.does = "answer" THEN Cardinality(ModelOf(route) \cap Models) ELSE 0

-----------------------------------------------------------------------------
(* Requests *)

Blank == [state |-> "none", route |-> "none", browser |-> "none", who |-> "none",
          sessions |-> FALSE, calls |-> {}, status |-> 0, did |-> FALSE, trouble |-> {},
          counted |-> 0]

Init ==
    /\ up = TRUE
    /\ request = [q \in Requests |-> Blank]
    /\ session \in [Browsers -> {"none", "customer"}]
    /\ cookie \in [Browsers -> BOOLEAN]
    /\ received = 0
    /\ blame = "none"

\* The customer a request is for: nobody without the cookie, nor when the session
\* has been lost.
Who(b) == IF cookie[b] THEN {session[b], "none"} ELSE {"none"}

\* A request that has its answer is counted when the response is finished.
Settle(o, state) == IF o.does = "answer" THEN "answered" ELSE state

Receive(q, b) ==
    /\ up /\ request[q].state # "open" /\ request[q].calls = {}
    /\ received < MaxRequests /\ received' = received + 1
    /\ \E route \in Served, who \in Who(b), sessions \in BOOLEAN : \E body \in Bodies(route) :
           LET o == Arrive(route, body, cookie[b], sessions)
           IN  request' = [request EXCEPT ![q] =
                   [Blank EXCEPT !.state = Settle(o, "open"), !.route = route, !.browser = b,
                       !.who = who, !.sessions = sessions, !.calls = o.calls,
                       !.status = o.status, !.counted = Observe(route, o)]]
    /\ UNCHANGED <<up, cookie, session, blame>>

\* What went wrong with a call: the product was not found, the answer of the service
\* was lost, or a page came in its place, it failed, or it refused.
Trouble(call, a) ==
    IF a \in {"ok", "empty", "missing"} THEN {} ELSE IF call = "lookup" THEN {"lookup"}
    ELSE IF a \in {"text", "nobody", "unreachable"} THEN {"lost"} ELSE {a}

\* The call that does what the route is for.
Deciding == {"create", "delete", "drop", "change", "place", "auth"}

\* A change is made when the service says so, and may be made when its answer
\* gets lost; of an item without an id, it is not the change asked for.
Effects(r, call, a) ==
    IF call \notin Deciding THEN {r.did}
    ELSE IF a = "ok" THEN {call = "change" => r.trouble = {}}
    ELSE IF a \in {"text", "page", "nobody", "unreachable"} THEN {TRUE, FALSE}
    ELSE {FALSE}

\* Who logs in has a customer in the session when the response ends, if it can be
\* saved; who deletes a customer leaves its sessions alone.
Sessions(r, o, call, a, effect) ==
    CASE r.route \in LoginRoutes /\ call = "merge" /\ o.does = "answer" ->
             {session, [session EXCEPT ![r.browser] =
                            IF "page" \in r.trouble THEN "none" ELSE "customer"]}
      [] r.route = "DELETE /customers/:id" /\ effect ->
             {session} \cup {[session EXCEPT ![b] = "gone"] :
                                 b \in {c \in Browsers : session[c] = "customer"}}
      [] OTHER -> {session}

\* A callback runs.  One that throws ends the process.
Return(q, call, a) ==
    LET r == request[q]
        c == Callback(r.route, call, a, r.calls \ {call}, r.sessions)
        o == IF r.state = "open" \/ c = Throw THEN c ELSE Wait
    IN  /\ call \in r.calls /\ a \in AnswersTo(call, r.who)
        /\ UNCHANGED received
        /\ \E effect \in Effects(r, call, a) :
            IF o = Throw
            THEN /\ up' = FALSE
                 /\ request' = [p \in Requests |->
                        IF request[p].state = "open" THEN [Blank EXCEPT !.state = "lost"]
                        ELSE [request[p] EXCEPT !.calls = {}]]
                 /\ blame' = IF a \notin {"ok", "empty"} THEN ServiceOf(call)
                             ELSE IF ~r.sessions THEN "session" ELSE "nobody"
                 /\ UNCHANGED <<cookie, session>>
            ELSE /\ request' = [request EXCEPT ![q] =
                        [r EXCEPT !.state = Settle(o, @), !.calls = (@ \ {call}) \cup o.calls,
                            !.status = IF o.does = "answer" THEN o.status ELSE @,
                            !.did = effect, !.counted = @ + Observe(r.route, o),
                            !.trouble = @ \cup Trouble(call, a)]]
                 /\ cookie' = IF r.route \in LoginRoutes /\ o = Answer(200)
                              THEN [cookie EXCEPT ![r.browser] = TRUE] ELSE cookie
                 /\ session' \in Sessions(r, o, call, a, effect)
                 /\ UNCHANGED <<up, blame>>

\* Kubernetes starts the process anew.
Restart ==
    /\ ~up /\ up' = TRUE
    /\ UNCHANGED <<request, cookie, session, received, blame>>

\* Every request allowed by the bound has come to its end.
Quiesce ==
    /\ received = MaxRequests /\ \A q \in Requests : request[q].calls = {}
    /\ UNCHANGED vars

Next ==
    \/ \E q \in Requests, b \in Browsers : Receive(q, b)
    \/ \E q \in Requests : \E call \in request[q].calls, a \in Answers : Return(q, call, a)
    \/ Restart \/ Quiesce

\* Every call comes back at last, if only as an error of the network.
Fairness ==
    \A q \in Requests :
        WF_vars(\E call \in request[q].calls, a \in Answers : Return(q, call, a))

Spec == Init /\ [][Next]_vars /\ Fairness

-----------------------------------------------------------------------------
(* What the page makes of an answer (client.js) *)

LoginPage(status) == IF status = 200 THEN "success" ELSE "failure"
OrderPage(status) ==
    IF status = 201 THEN "success" ELSE IF status = 406 THEN "failure" ELSE "nothing"
AddToCartPage(status) == IF status < 300 THEN "success" ELSE "nothing"
\* next() either way
UpdateToCartPage(status) == "nothing"
UsernamePage(status, trouble) ==
    IF status < 300 /\ trouble \cap {"error", "lost"} = {} THEN "success" ELSE "nothing"
AddressPage(status) == IF status < 300 THEN "success" ELSE "failure"
CardPage(status) == IF status < 300 THEN "success" ELSE "failure"

PageSays(r) ==
    IF r.state # "answered" THEN "nothing"
    ELSE CASE r.route \in LoginRoutes -> LoginPage(r.status)
           [] r.route = "POST /orders" -> OrderPage(r.status)
           [] r.route = "POST /cart" -> AddToCartPage(r.status)
           [] r.route = "POST /cart/update" -> UpdateToCartPage(r.status)
           [] r.route = "GET /customers/:id" -> UsernamePage(r.status, r.trouble)
           [] r.route = "POST /addresses" -> AddressPage(r.status)
           [] r.route = "POST /cards" -> CardPage(r.status)
           [] OTHER -> "nothing"

-----------------------------------------------------------------------------
(* Properties *)

Routes == ApiRoutes \cup OtherRoutes

ASSUME ServedAssumption == Served \subseteq Routes

CallNames ==
    {"simple", "create", "delete", "first", "list", "drop", "lookup", "change", "orders", "pipe",
     "image", "customer", "addresses", "cards", "place", "auth", "merge"}

Troubles == {"lookup", "lost", "page", "error", "refused"}

Outcome == [state : {"none", "open", "answered", "lost"}, route : Routes \cup {"none"},
            browser : Browsers \cup {"none"}, who : {"none", "customer", "gone"},
            sessions : BOOLEAN, calls : SUBSET CallNames,
            status : {0, 200, 201, 202, 301, 401, 404, 406, 500, 503}, did : BOOLEAN,
            trouble : SUBSET Troubles, counted : Nat]

\* Every variable keeps its type; a request has a status when it is answered, and
\* has then been counted once if its path is that of a model, never otherwise.
TypeOK ==
    /\ up \in BOOLEAN
    /\ \A q \in Requests : request[q] \in Outcome
    /\ \A q \in Requests : (request[q].status # 0) = (request[q].state = "answered")
    /\ \A q \in Requests :
           request[q].counted = IF request[q].state = "answered"
                                THEN Cardinality(ModelOf(request[q].route)) ELSE 0
    /\ cookie \in [Browsers -> BOOLEAN]
    /\ session \in [Browsers -> {"none", "customer", "gone"}]
    /\ blame \in {"none", "session", "nobody"} \cup {ServiceOf(call) : call \in CallNames}
    /\ received \in 0..MaxRequests

\* As long as every service gives what it is asked for and the sessions can be
\* read, no request ends the process, whatever the customer has or lacks; and
\* nothing the carts service may answer does, in any of the routes that call it.
\* An order for a customer that is not there does, though the user service that
\* answers so works as it should: it was asked for a record and gave none.
HealthyStaysUp == blame \notin {"nobody", "carts"}

\* A page that reports success reports a change that was made, unless the refusal
\* came as 200 (an address or a card), the product could not be looked up, or a
\* registration took a page of a proxy for its customer; one that reports failure
\* reports a change that was not made, unless a call of the request was without an
\* answer of its service.
PageTruthful ==
    \A q \in Requests :
        LET r == request[q]
        IN  /\ PageSays(r) = "success" /\ r.route # "GET /customers/:id" /\ ~r.did =>
                   \/ r.route \in {"POST /addresses", "POST /cards"} /\ r.trouble # {}
                   \/ "lookup" \in r.trouble
                   \/ r.route = "POST /register" /\ "page" \in r.trouble
            /\ PageSays(r) = "failure" /\ r.did => "lost" \in r.trouble

\* Every request is answered, or ends with the process.
Answered == \A q \in Requests : request[q].state = "open" ~> request[q].state # "open"
=============================================================================
