------------------------------ MODULE FrontEnd ------------------------------
(***************************************************************************)
(* The front end: browsers with their cookies, the sessions the server     *)
(* keeps for them, and the handlers of the API, each of which calls other  *)
(* services and is interleaved with the others at every call.              *)
(*                                                                         *)
(* One browser may have several tabs and so several requests under way.    *)
(* The pages are served without a session; each request of the API that    *)
(* carries none starts one of its own, and names it in its answer.  The    *)
(* first requests of a page run side by side, so they start several, and   *)
(* the answer that comes last wins.  Sessions are kept in Redis, as the    *)
(* manifests deploy it: they outlive the process, which an exception in a  *)
(* callback ends.  The cookie that names the session lasts until the       *)
(* browser is closed, "logged_in" for an hour.                             *)
(*                                                                         *)
(* Of the carts only the items count.  The carts service does what it is   *)
(* asked for in one step if the requests of an owner follow one another    *)
(* and reads do not lag (ShoppingCart, which Carts implements then).  If   *)
(* they overlap, or lag, an owner's carts hold anything that was ever      *)
(* asked for (Disorder; CartsAsked shows that Carts goes no further).      *)
(***************************************************************************)
EXTENDS CookieJar, Naturals

CONSTANTS
    Browsers,
    Sessions,     \* the ids of the sessions; bound: sessions started
    Customers,
    Registered,   \* the customers there are from the start
    Wants,        \* the items each browser may put into a cart
    NoItem,       \* the item without an id that an error of the catalogue becomes
    Undefined,    \* the customer id of a session without one
    Handlers,     \* requests under way at one time
    MaxRequests,  \* bound: requests received
    MaxFaults,    \* bound: calls and answers that fail, disorders of the carts, and
                  \* browsers that are closed
    None

ASSUME FrontEndAssumption ==
    /\ Sessions \cap Customers = {} /\ Registered \subseteq Customers
    /\ MaxRequests \in Nat /\ MaxFaults \in Nat
    /\ {None, Undefined} \cap (Sessions \cup Customers) = {} /\ None # Undefined
    /\ None \notin Browsers /\ {Missing, Empty} \cap Sessions = {}
    /\ None # NoItem /\ \A b \in Browsers : None \notin Wants[b]

VARIABLES
    cookie,    \* the jar of each browser, without the cookie of the session,
    sid,       \* which is here: the session each browser names in its requests
    started,   \* the browser whose request started each session
    session,   \* the customerId of each session
    customers, \* the customers registered so far
    contents,  \* the items in the carts of each owner
    handler,
    ordered,   \* browsers that were told 201 and are about to delete the cart
    requests, faults,
    asked,     \* the items the carts service was ever asked to add for each owner
    merged,    \* the carts it was ever asked to merge: <<customer, session>>
    was,       \* the customers each browser has logged in as
    lost,      \* browsers that have lost a session: closed, or given another one
    strayed    \* sessions with an anonymous add that overlapped a login, with a
               \* login that went on without its merge, or with carts in disorder

browserVars == <<cookie, sid, lost>>
cartVars == <<contents, asked, merged>>
counters == <<requests, faults>>
vars == <<browserVars, started, session, customers, cartVars, handler, ordered, counters, was,
          strayed>>

Owners == Customers \cup Sessions \cup {Undefined}
Items == (UNION {Wants[b] : b \in Browsers}) \cup {NoItem}

Idle == [op |-> "none", step |-> "idle", browser |-> None, sid |-> None, sets |-> FALSE,
         owner |-> None, item |-> None, customer |-> None, alive |-> TRUE]

Init ==
    /\ cookie = [b \in Browsers |-> NoCookies] /\ sid = [b \in Browsers |-> None]
    /\ started = [s \in Sessions |-> None] /\ session = [s \in Sessions |-> None]
    /\ customers = Registered
    /\ contents = [o \in Owners |-> {}]
    /\ handler = [h \in Handlers |-> Idle]
    /\ ordered = {}
    /\ requests = 0 /\ faults = 0
    /\ asked = [o \in Owners |-> {}] /\ merged = {}
    /\ was = [b \in Browsers |-> {}] /\ lost = {} /\ strayed = {}

-----------------------------------------------------------------------------
(* Requests *)

Works == UNCHANGED faults
Fails == faults < MaxFaults /\ faults' = faults + 1

LoggedIn(b) == Holds(cookie[b], "logged_in")

\* getCustomerId
CustomerId(b, s) ==
    IF ~LoggedIn(b) THEN s
    ELSE IF session[s] = None THEN Undefined ELSE session[s]

Logins == {"login", "register"}

\* Does a request overlap a login of its session, or an anonymous add to its cart?
Overlaps(s, op, owner) ==
    \E g \in Handlers :
        /\ handler[g].sid = s
        /\ \/ op \in Logins /\ handler[g].op = "add" /\ handler[g].owner = s
           \/ op = "add" /\ owner = s /\ handler[g].op \in Logins

\* express-session: a request without a session starts one, which its answer names.
Receive(h, b, op, step, item, customer) ==
    \E s \in Sessions :
        /\ handler[h].step = "idle" /\ requests < MaxRequests
        /\ \/ sid[b] = s /\ UNCHANGED started
           \/ sid[b] = None /\ started[s] = None /\ started' = [started EXCEPT ![s] = b]
        /\ requests' = requests + 1
        /\ handler' = [handler EXCEPT ![h] =
               [op |-> op, step |-> step, browser |-> b, sid |-> s, sets |-> sid[b] = None,
                owner |-> CustomerId(b, s), item |-> item, customer |-> customer,
                alive |-> TRUE]]
        /\ strayed' = strayed \cup {r \in {s} : Overlaps(s, op, CustomerId(b, s))}
        /\ UNCHANGED <<browserVars, session, customers, cartVars, faults, was>>

\* GET /cart and GET /catalogue, as the pages ask for when they are loaded, change
\* nothing; what matters is the session that the first of them start.
LoadPage(h, b) ==
    /\ sid[b] = None
    /\ Receive(h, b, "load", "answer", None, None)
    /\ UNCHANGED ordered

AddToCart(h, b) ==
    \E i \in Wants[b] :
        /\ Receive(h, b, "add", "lookup", i, None)
        /\ UNCHANGED ordered

UpdateCart(h, b) ==
    \E i \in Wants[b] :
        /\ Receive(h, b, "update", "lookup", i, None)
        /\ UNCHANGED ordered

DeleteItem(h, b) ==
    \E i \in Wants[b] :
        /\ Receive(h, b, "remove", "cart", i, None)
        /\ UNCHANGED ordered

\* deleteCart() of the page, sent when its order has been answered with 201.
DeleteCart(h, b) ==
    /\ b \in ordered /\ ordered' = ordered \ {b}
    /\ Receive(h, b, "delete", "cart", None, None)

Login(h, b) ==
    \E c \in Customers :
        /\ Receive(h, b, "login", "auth", None, c)
        /\ UNCHANGED ordered

Register(h, b) ==
    \E c \in Customers :
        /\ Receive(h, b, "register", "auth", None, c)
        /\ UNCHANGED ordered

PostOrder(h, b) ==
    /\ LoggedIn(b)
    /\ Receive(h, b, "order", "order", None, None)
    /\ UNCHANGED ordered

\* The server is not told.
Logout(b) ==
    /\ LoggedIn(b) /\ cookie' = [cookie EXCEPT ![b] = RemoveCookie(@, "logged_in")]
    /\ UNCHANGED <<sid, lost, started, session, customers, cartVars, handler, ordered, counters,
                   was, strayed>>

\* maxAge is over.
Expire(b) ==
    /\ LoggedIn(b) /\ cookie' = [cookie EXCEPT ![b] = Write(@, "logged_in", Empty, TRUE)]
    /\ UNCHANGED <<sid, lost, started, session, customers, cartVars, handler, ordered, counters,
                   was, strayed>>

\* The browser is closed when it has nothing under way, and opened again.
CloseBrowser(b) ==
    /\ sid[b] # None /\ sid' = [sid EXCEPT ![b] = None]
    /\ lost' = lost \cup {b}
    /\ \A h \in Handlers : handler[h].browser # b
    /\ ordered' = ordered \ {b} /\ Fails
    /\ UNCHANGED <<cookie, started, session, customers, cartVars, handler, requests, was,
                   strayed>>

-----------------------------------------------------------------------------
(* Calls *)

At(h, step) == handler[h].step = step /\ handler[h].alive
Turn(h, state) == handler' = [handler EXCEPT ![h] = state]
Advanced(h, step) == [handler[h] EXCEPT !.step = step]
GoOn(h, step) == Turn(h, Advanced(h, step))
Done(h) == Turn(h, Idle)

\* The request is answered; only an answer that names a session matters to the browser.
Answering(h) ==
    [Idle EXCEPT !.step = "answer", !.browser = handler[h].browser, !.sid = handler[h].sid,
                 !.sets = TRUE]
Finish(h) == IF handler[h].sets /\ handler[h].alive THEN Turn(h, Answering(h)) ELSE Done(h)

\* GET /catalogue/:id; an error of the catalogue is JSON like a sock, without id.
LookUp(h) ==
    /\ At(h, "lookup")
    /\ \/ GoOn(h, "cart") /\ Works
       \/ Turn(h, [Advanced(h, "cart") EXCEPT !.item = NoItem]) /\ Fails
    /\ UNCHANGED <<browserVars, started, session, customers, cartVars, ordered, requests, was,
                   strayed>>

\* The change of the carts a handler asks for; a second line of an item, as a merge
\* makes it, stays when the first is taken out.
CartChange(h) ==
    LET o == handler[h].owner  i == handler[h].item
    IN  \/ handler[h].op = "add" /\ contents' = [contents EXCEPT ![o] = @ \cup {i}]
        \/ handler[h].op = "remove" /\ contents' = [contents EXCEPT ![o] = @ \ {i}]
        \/ handler[h].op = "delete" /\ contents' = [contents EXCEPT ![o] = {}]
        \/ handler[h].op \in {"update", "remove"} /\ UNCHANGED contents

\* The carts service is called, for a handler that waits for it or is gone.
CallCarts(h) ==
    /\ handler[h].step = "cart"
    /\ asked' = IF handler[h].op # "add" THEN asked
                ELSE [asked EXCEPT ![handler[h].owner] = @ \cup {handler[h].item}]
    /\ \/ CartChange(h) /\ Works
       \/ UNCHANGED contents /\ Fails
    /\ Finish(h)
    /\ UNCHANGED <<browserVars, started, session, customers, merged, ordered, requests, was,
                   strayed>>

\* What the carts of o may hold: what was asked for, for o or for what was merged.
MayHold(o) == asked[o] \cup UNION {asked[s] : s \in {s \in Sessions : <<o, s>> \in merged}}

\* Requests of one owner overlap in the carts service, or end there after their callers
\* have given up, or read from a replica that lags: afterwards any of it may be there.
Disorder(o) ==
    /\ Fails
    /\ \E left \in SUBSET MayHold(o) :
           left # contents[o] /\ contents' = [contents EXCEPT ![o] = left]
    /\ strayed' = strayed \cup ({o} \cap Sessions)
    /\ UNCHANGED <<browserVars, started, session, customers, asked, merged, handler, ordered,
                   requests, was>>

\* The user service knows the customer, or registers it; or refuses.  Its answer
\* may be lost, and finds nobody if the process is gone.
Authenticate(h) ==
    /\ handler[h].step = "auth"
    /\ LET b == handler[h].browser  c == handler[h].customer
           known == IF handler[h].op = "login" THEN c \in customers ELSE c \notin customers
       IN  /\ customers' = IF known THEN customers \cup {c} ELSE customers
           /\ \/ /\ known /\ handler[h].alive /\ GoOn(h, "merge") /\ Works
                 /\ was' = [was EXCEPT ![b] = @ \cup {c}]
              \/ ~(known /\ handler[h].alive) /\ Finish(h) /\ Works /\ UNCHANGED was
              \/ Finish(h) /\ Fails /\ UNCHANGED was
    /\ UNCHANGED <<browserVars, started, session, cartVars, ordered, requests, strayed>>

\* The call to the user service is refused before it has an effect.
AuthenticateFails(h) ==
    /\ At(h, "auth") /\ Fails /\ Finish(h)
    /\ UNCHANGED <<browserVars, started, session, customers, cartVars, ordered, requests, was,
                   strayed>>

AfterMerge(h) == IF handler[h].alive THEN GoOn(h, "save") ELSE Done(h)

\* The items in what moves from the cart of s to that of c; the cart of s goes last.
Moves(c, s, moving, left) ==
    contents' = [contents EXCEPT ![c] = @ \cup moving, ![s] = left]

\* Mutant of Merge: the session in the options is that of the last request.
MergeAny(h) ==
    /\ handler[h].step = "merge"
    /\ \E s \in Sessions : Moves(handler[h].customer, s, contents[s], {})
    /\ merged' = merged \cup {<<handler[h].customer, handler[h].sid>>}
    /\ AfterMerge(h)
    /\ UNCHANGED <<browserVars, started, session, customers, asked, ordered, counters, was,
                   strayed>>

\* Mutant of Merge: the carts of customers without one are not merged.
MergeIntoCart(h) ==
    /\ handler[h].step = "merge"
    /\ LET c == handler[h].customer  s == handler[h].sid
       IN  IF contents[c] = {} THEN UNCHANGED contents ELSE Moves(c, s, contents[s], {})
    /\ merged' = merged \cup {<<handler[h].customer, handler[h].sid>>}
    /\ AfterMerge(h)
    /\ UNCHANGED <<browserVars, started, session, customers, asked, ordered, counters, was,
                   strayed>>

Merge(h) ==
    /\ handler[h].step = "merge"
    /\ LET c == handler[h].customer  s == handler[h].sid
       IN  Moves(c, s, contents[s], {}) /\ merged' = merged \cup {<<c, s>>}
    /\ AfterMerge(h)
    /\ UNCHANGED <<browserVars, started, session, customers, asked, ordered, counters, was,
                   strayed>>

\* The merge is refused, or stops halfway, or gets no answer: a login goes on all the
\* same, a registration only if the carts service has answered.
MergeFails(h) ==
    /\ handler[h].step = "merge" /\ Fails
    /\ LET c == handler[h].customer  s == handler[h].sid
       IN  /\ \/ Moves(c, s, contents[s], {})
              \/ \E moving \in SUBSET contents[s] : Moves(c, s, moving, contents[s])
           /\ merged' = merged \cup {<<c, s>>}
           /\ strayed' = strayed \cup {s}
    /\ \/ AfterMerge(h)
       \/ handler[h].op = "register" /\ handler[h].alive /\ GoOn(h, "saveOnly")
    /\ UNCHANGED <<browserVars, started, session, customers, asked, ordered, requests, was>>

\* Mutant of SaveSession: the customer of a session that has one already stays.
SaveFirst(h) ==
    /\ At(h, "save") \/ At(h, "saveOnly")
    /\ session' = IF handler[h].op = "login" THEN session
                  ELSE [session EXCEPT ![handler[h].sid] = handler[h].customer]
    /\ IF handler[h].step = "save" THEN GoOn(h, "reply") ELSE Finish(h)
    /\ UNCHANGED <<browserVars, started, customers, cartVars, ordered, counters, was, strayed>>

\* The session middleware saves the session before the response ends; after a
\* registration without a merge the response is an error, without "logged_in".
SaveSession(h) ==
    /\ At(h, "save") \/ At(h, "saveOnly")
    /\ session' = [session EXCEPT ![handler[h].sid] = handler[h].customer]
    /\ IF handler[h].step = "save" THEN GoOn(h, "reply") ELSE Finish(h)
    /\ UNCHANGED <<browserVars, started, customers, cartVars, ordered, counters, was, strayed>>

\* Set-Cookie of the session middleware, in the answer to a request without a session:
\* it takes the place of whatever session the browser has been given meanwhile.
SetSession(h) ==
    LET b == handler[h].browser
    IN  IF handler[h].sets
        THEN /\ sid' = [sid EXCEPT ![b] = handler[h].sid]
             /\ lost' = IF sid[b] = None THEN lost ELSE lost \cup {b}
        ELSE UNCHANGED <<sid, lost>>

\* The response to a login reaches the browser, or is lost.
Reply(h) ==
    /\ At(h, "reply")
    /\ \/ /\ cookie' = [cookie EXCEPT ![handler[h].browser] =
                            Write(@, "logged_in", handler[h].sid, FALSE)]
          /\ SetSession(h)
          /\ Works
       \/ UNCHANGED browserVars /\ Fails
    /\ Done(h)
    /\ UNCHANGED <<started, session, customers, cartVars, ordered, requests, was, strayed>>

\* So does any other response, in its own time.
Answer(h) ==
    /\ At(h, "answer")
    /\ \/ SetSession(h) /\ UNCHANGED cookie /\ Works
       \/ UNCHANGED browserVars /\ Fails
    /\ Done(h)
    /\ UNCHANGED <<started, session, customers, cartVars, ordered, requests, was, strayed>>

\* Mutant of Ordered: the cart to delete is noted by its owner.
OrderedByOwner(h) ==
    /\ At(h, "order")
    /\ handler[h].owner # Undefined
    /\ \/ ordered' = ordered \cup {handler[h].owner}
       \/ UNCHANGED ordered
    /\ Finish(h)
    /\ UNCHANGED <<browserVars, started, session, customers, cartVars, counters, was, strayed>>

\* The order is answered with 201, or with an error: for "undefined" only if the user
\* service does not answer.
Ordered(h) ==
    /\ At(h, "order")
    /\ \/ /\ handler[h].owner # Undefined /\ Works
          /\ ordered' = ordered \cup {handler[h].browser}
       \/ UNCHANGED ordered /\ IF handler[h].owner = Undefined THEN Fails ELSE Works
    /\ Finish(h)
    /\ UNCHANGED <<browserVars, started, session, customers, cartVars, requests, was, strayed>>

\* An exception in a callback ends the process: the catalogue cannot be reached
\* (JSON.parse of nothing), or the user service answers an order with an error
\* (no _links), as it does if the session has no customer.  Calls that change
\* another service are under way and may still arrive.
Crash(h) ==
    /\ \/ At(h, "lookup") /\ Fails
       \/ At(h, "order") /\ IF handler[h].owner = Undefined THEN Works ELSE Fails
    /\ handler' = [g \in Handlers |->
           IF handler[g].step \in {"auth", "cart", "merge"} THEN [handler[g] EXCEPT !.alive = FALSE]
           ELSE Idle]
    /\ UNCHANGED <<browserVars, started, session, customers, cartVars, ordered, requests, was,
                   strayed>>

\* A call of a process that is gone never arrives.
CallLost(h) ==
    /\ ~handler[h].alive /\ Done(h)
    /\ UNCHANGED <<browserVars, started, session, customers, cartVars, ordered, counters, was,
                   strayed>>

-----------------------------------------------------------------------------

Request(h, b) ==
    \/ LoadPage(h, b) \/ AddToCart(h, b) \/ UpdateCart(h, b) \/ DeleteItem(h, b)
    \/ DeleteCart(h, b) \/ Login(h, b) \/ Register(h, b) \/ PostOrder(h, b)

Handle(h) ==
    \/ LookUp(h) \/ CallCarts(h) \/ Authenticate(h) \/ AuthenticateFails(h)
    \/ Merge(h) \/ MergeFails(h) \/ SaveSession(h) \/ Reply(h) \/ Answer(h) \/ Ordered(h)
    \/ Crash(h) \/ CallLost(h)

\* Every request allowed by the bounds has been answered.
Quiesce ==
    /\ \/ requests = MaxRequests
       \/ \A s \in Sessions : started[s] # None
    /\ \A h \in Handlers : handler[h].step = "idle"
    /\ UNCHANGED vars

Next ==
    \/ \E h \in Handlers : Handle(h) \/ \E b \in Browsers : Request(h, b)
    \/ \E b \in Browsers : Logout(b) \/ Expire(b) \/ CloseBrowser(b)
    \/ \E o \in Owners : Disorder(o)
    \/ Quiesce

Spec == Init /\ [][Next]_vars

-----------------------------------------------------------------------------
(* Properties *)

Ops == Logins \cup {"load", "add", "update", "remove", "delete", "order", "none"}
Steps == {"idle", "lookup", "cart", "auth", "merge", "save", "saveOnly", "reply", "order",
          "answer"}

HandlerState ==
    [op : Ops, step : Steps, browser : Browsers \cup {None}, sid : Sessions \cup {None},
     sets : BOOLEAN, owner : Owners \cup {None}, item : Items \cup {None},
     customer : Customers \cup {None}, alive : BOOLEAN]

Jars == {NoCookies} \cup {Write(NoCookies, "logged_in", s, FALSE) : s \in Sessions}

\* Every variable keeps its type; the two carts a login works on are known.
TypeOK ==
    /\ cookie \in [Browsers -> Jars] /\ sid \in [Browsers -> Sessions \cup {None}]
    /\ started \in [Sessions -> Browsers \cup {None}]
    /\ session \in [Sessions -> Customers \cup {None}]
    /\ customers \subseteq Customers
    /\ contents \in [Owners -> SUBSET Items] /\ asked \in [Owners -> SUBSET Items]
    /\ merged \subseteq Customers \X Sessions
    /\ handler \in [Handlers -> HandlerState]
    /\ ordered \subseteq Browsers /\ lost \subseteq Browsers /\ strayed \subseteq Sessions
    /\ requests \in 0..MaxRequests /\ faults \in 0..MaxFaults
    /\ was \in [Browsers -> SUBSET Customers]

\* The session in which the browser has logged in: the cookie says so, to nobody.
LoginSession(b) == Read(cookie[b], "logged_in")

\* "logged_in" is sent after the session is saved, so the session it stands for has a
\* registered customer, one this browser has logged in as, whatever failed in between.
\* The server goes by the other cookie, though.  The two name the same session unless
\* the browser was closed within the hour, or an answer to one of its first requests
\* came late and replaced the session: such a browser is logged in as nobody.
CookieMeansCustomer ==
    \A b \in Browsers : LoggedIn(b) =>
        LET s == LoginSession(b)
        IN  /\ session[s] \in customers \cap was[b] /\ started[s] = b
            /\ sid[b] = s \/ b \in lost

\* May b put an item into a cart of o?
MayPut(b, o) ==
    \/ o \in Sessions /\ started[o] = b
    \/ o \in was[b]
    \/ o = Undefined /\ b \in lost

\* Who asks may touch a cart: what is in it was put there by the browser of the
\* session, or by one that has logged in as the customer, whichever requests of
\* other browsers were under way, and whatever the carts service made of it.  The one
\* cart that all may share is that of "undefined", for browsers that have lost the
\* session they had logged in with, and kept the cookie.
OwnCart ==
    \A o \in Owners : \A i \in contents[o] :
        \E b \in Browsers : i \in Wants[b] \cup {NoItem} /\ MayPut(b, o)

\* Nothing is left in the cart of a session in which a browser is logged in, unless
\* an anonymous add overlapped the login, the login went on without its merge, or the
\* carts service did not take the session's requests one after another, with fresh reads.
StrandedExplained ==
    \A b \in Browsers :
        LoggedIn(b) /\ contents[LoginSession(b)] # {} => LoginSession(b) \in strayed
=============================================================================
