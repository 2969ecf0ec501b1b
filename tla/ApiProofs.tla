------------------------------ MODULE ApiProofs ------------------------------
(***************************************************************************)
(* Proofs about Api, for any number of requests, browsers and routes asked *)
(* for, whatever the services answer: the types, that no answer of a       *)
(* healthy service and none of the carts service ends the process, and     *)
(* that the pages tell what happened.                                      *)
(*                                                                         *)
(* The inductive invariant ApiInv says of each request where it is on its  *)
(* way: a request without an answer waits for the calls of its route, in   *)
(* their order (Waits), has made its change only if it waits for the carts *)
(* of a login (Pending), and had no trouble but a failed lookup when it    *)
(* changes a cart.  Without that, an answer says nothing about the change. *)
(***************************************************************************)
EXTENDS Api, FiniteSetTheorems, TLAPS

-----------------------------------------------------------------------------
(* Where a request is *)

\* The calls a request waits for, one after another; an order's lists in parallel.
Waits(r) ==
    \/ r.calls = {FirstCall(r.route)}
    \/ r.route \in ChangeRoutes /\ r.calls = {"change"}
    \/ r.route \in LoginRoutes /\ r.calls = {"merge"}
    \/ r.route = "POST /orders" /\ r.calls \in (SUBSET {"addresses", "cards"}) \ {{}}
    \/ r.route = "POST /orders" /\ r.calls = {"place"}

\* A registration that took a page of a proxy for its customer.
Paged(r) == r.route = "POST /register" /\ "page" \in r.trouble

\* What is known of a request that has no answer yet.
Pending(r) ==
    /\ r.route \in ApiRoutes /\ Waits(r)
    /\ r.calls # {"merge"} => r.did = FALSE
    /\ r.calls = {"merge"} => r.did = TRUE \/ Paged(r)
    /\ r.calls \in {{"lookup"}, {"change"}} => r.trouble \subseteq {"lookup"}

\* One that was answered may wait for the other list of an order still.
Over(r) == r.calls # {} => r.route = "POST /orders" /\ r.calls \subseteq {"addresses", "cards"}

\* PageTruthful, of one request.
Truthful(r) ==
    /\ PageSays(r) = "success" /\ r.route # "GET /customers/:id" /\ ~r.did =>
           \/ r.route \in {"POST /addresses", "POST /cards"} /\ r.trouble # {}
           \/ "lookup" \in r.trouble
           \/ Paged(r)
    /\ PageSays(r) = "failure" /\ r.did => "lost" \in r.trouble

\* An answered request has a status, and was counted.
Counted(r) ==
    /\ (r.status # 0) = (r.state = "answered")
    /\ r.counted = IF r.state = "answered" THEN Cardinality(ModelOf(r.route)) ELSE 0

\* A request in order.
RequestOK(r) ==
    /\ r \in Outcome /\ Counted(r) /\ Truthful(r)
    /\ r.state = "open" => Pending(r)
    /\ r.state = "answered" => Over(r)
    /\ r.state \in {"none", "lost"} => r.calls = {}

\* The inductive invariant.
ApiInv ==
    /\ up \in BOOLEAN
    /\ DOMAIN request = Requests
    /\ \A q \in Requests : RequestOK(request[q])
    /\ cookie \in [Browsers -> BOOLEAN]
    /\ session \in [Browsers -> {"none", "customer", "gone"}]
    /\ blame \in {"none", "session"} \cup ({ServiceOf(call) : call \in CallNames} \ {"carts"})
    /\ received \in 0..MaxRequests
-----------------------------------------------------------------------------
(* What handlers and callbacks do *)

\* The statuses of answers.
Statuses == {200, 201, 202, 301, 401, 404, 406, 500, 503}

\* An outcome is an answer, calls to make, or an exception, never two of them.
LEMMA OutcomeIs ==
    /\ \A s : Answer(s).does = "answer" /\ Answer(s).status = s /\ Answer(s).calls = {}
    /\ \A C : Call(C).does = "call" /\ Call(C).status = 0 /\ Call(C).calls = C
    /\ Throw.does = "throw"
    /\ Wait = Call({})
    /\ \A s, t : Answer(s) = Answer(t) => s = t
  BY DEF Answer, Call, Throw, Wait

\* A request is answered on its way, or makes the first call of its route.
LEMMA ArriveIs ==
    ASSUME NEW route \in Routes, NEW body \in Bodies(route), NEW hasCookie, NEW hasSession
    PROVE  LET o == Arrive(route, body, hasCookie, hasSession)
           IN  \/ route \in ApiRoutes /\ o \in {Answer(500), Call({FirstCall(route)})}
               \/ route \in OtherRoutes /\ \E s \in Statuses : o = Answer(s)
<1>1. CASE route \in OtherRoutes
  <2>1. Arrive(route, body, hasCookie, hasSession)
            \in {Answer(301), Answer(200), Answer(404), Answer(500)}
    <3>1. body = "full"
      BY <1>1 DEF OtherRoutes, Bodies, ChangeRoutes, PostRoutes
    <3>2. CASE route = "slash"
      BY <3>1, <3>2 DEF Arrive, RewriteSlash
    <3>3. CASE route = "file"
      BY <3>1, <3>3 DEF Arrive
    <3>5. CASE route = "GET /metrics"
      <4>1. Arrive(route, body, hasCookie, hasSession) = Answer(200)
        BY <3>1, <3>5 DEF Arrive
      <4> QED BY <4>1
    <3>4. CASE route = "unknown"
      BY <3>1, <3>4 DEF Arrive
    <3> QED BY <1>1, <3>2, <3>3, <3>4, <3>5 DEF OtherRoutes
  <2>2. {301, 200, 404, 500} \subseteq Statuses
    BY DEF Statuses
  <2> QED BY <1>1, <2>1, <2>2
<1>2. CASE route \in ApiRoutes
  <2>1. route \notin {"slash", "file", "GET /metrics", "unknown"}
    BY <1>2 DEF ApiRoutes, CustomerRoutes, CatalogueRoutes, PostRoutes, DeleteRoutes, FirstRoutes,
                CartRoutes, DropRoutes, ChangeRoutes, LoginRoutes, OrderRoutes
  <2>2. Arrive(route, body, hasCookie, hasSession)
            \in {Answer(500), Handle(route, body, hasCookie, hasSession)}
    BY <2>1 DEF Arrive, SessionMiddleware, NextError
  <2>3. Handle(route, body, hasCookie, hasSession) \in {Answer(500), Call({FirstCall(route)})}
    BY DEF Handle, NextError
  <2> QED BY <1>2, <2>2, <2>3
<1> QED BY <1>1, <1>2 DEF Routes

\* The first call of a route, and the routes by their first call.
LEMMA FirstCallIs ==
    ASSUME NEW route \in ApiRoutes
    PROVE  /\ FirstCall(route) \in CallNames \ {"change", "merge", "addresses", "cards", "place"}
           /\ FirstCall(route) = "lookup" <=> route \in ChangeRoutes
           /\ FirstCall(route) = "auth" <=> route \in LoginRoutes
           /\ FirstCall(route) = "customer" <=> route = "POST /orders"
           /\ FirstCall(route) = "create" <=> route \in PostRoutes
  BY ZenonT(60)
     DEF ApiRoutes, CustomerRoutes, CatalogueRoutes, PostRoutes, DeleteRoutes, FirstRoutes,
         CartRoutes, DropRoutes, ChangeRoutes, LoginRoutes, OrderRoutes, FirstCall, CallNames

\* The status an answer is passed on with; of an order, 201 and 406 say what the service said.
LEMMA StatusIs ==
    ASSUME NEW call, NEW a \in Answers
    PROVE  /\ HttpStatus(call, a) \in Statuses
           /\ HttpStatus("place", a) = 201 => a \in {"ok", "empty"}
           /\ HttpStatus("place", a) = 406 => a \in {"refused", "missing"}
<1>1. {200, 201, 202, 404, 406, 500, 503} \subseteq Statuses
  BY DEF Statuses
<1>2. HttpStatus(call, a) \in {200, 201, 202, 404, 406, 500, 503}
  <2>1. CASE a \in {"ok", "empty"}
    BY <2>1 DEF HttpStatus
  <2>2. CASE a \in {"refused", "missing"}
    BY <2>2 DEF HttpStatus
  <2>3. CASE a \notin {"ok", "empty", "refused", "missing"}
    BY <2>3 DEF HttpStatus
  <2> QED BY <2>1, <2>2, <2>3
<1>3. HttpStatus("place", a) = 201 => a \in {"ok", "empty"}
  BY DEF HttpStatus
<1>4. HttpStatus("place", a) = 406 => a \in {"refused", "missing"}
  BY DEF HttpStatus
<1> QED BY <1>1, <1>2, <1>3, <1>4

\* The answers after which a login or a registration goes on.
Agreed(route, a) == a = "ok" \/ (a = "page" /\ route # "GET /login")

\* What a callback may do, by the call it is for.
CallbackOK(route, call, a, others, sessions) ==
    LET c == Callback(route, call, a, others, sessions)
    IN  /\ \/ c = Throw
           \/ \E s \in Statuses : c = Answer(s) /\ call # "lookup"
           \/ call = "lookup" /\ c = Call({"change"})
           \/ call = "customer" /\ c = Call({"addresses", "cards"})
           \/ call \in {"addresses", "cards"} /\ c = IF others = {} THEN Call({"place"}) ELSE Wait
           \/ call = "auth" /\ Agreed(route, a) /\ c = Call({"merge"})
        /\ c = Throw => call \notin {"list", "drop", "change", "merge"}
        /\ c = Throw => a \notin {"ok", "empty"} \/ ~sessions

\* Every callback does one of these things, whatever its call is answered.
LEMMA CallbackIs ==
    ASSUME NEW route, NEW call \in CallNames, NEW who, NEW a \in AnswersTo(call, who),
           NEW others, NEW sessions \in BOOLEAN
    PROVE  CallbackOK(route, call, a, others, sessions)
<1> DEFINE c == Callback(route, call, a, others, sessions)
<1>0. /\ a \in Answers /\ (a = "empty" => call \in Lists)
      /\ {200, 401, 404, 500, 201, 202} \subseteq Statuses
      /\ \A s : Answer(s) # Throw
      /\ \A s : s \in Statuses => \E t \in Statuses : Answer(s) = Answer(t)
      /\ \A C : Call(C) # Throw
  BY OutcomeIs DEF AnswersTo, Statuses
<1>1. CASE call \in {"simple", "create", "delete"}
  BY <1>0, <1>1 DEF CallbackOK, Callback, SimpleHttpRequest, PostJson, DeleteJson, NextError
<1>2. CASE call \in {"first", "orders"}
  BY <1>0, <1>2 DEF CallbackOK, Callback, FirstOf, SearchOrders, NextError, Answers
<1>3. CASE call \in {"list", "drop"}
  <2>1. c = CartStatus(call, a)
    BY <1>3 DEF Callback
  <2>2. \E s \in Statuses : c = Answer(s)
    BY <1>0, <2>1, StatusIs DEF CartStatus, NextError
  <2> QED BY <1>0, <1>3, <2>2 DEF CallbackOK
<1>4. CASE call = "lookup"
  BY <1>0, <1>4 DEF CallbackOK, Callback, LookUpItem
<1>5. CASE call = "change"
  <2>1. c = ChangeCart(route, a)
    BY <1>5 DEF Callback
  <2>2. c \in {Answer(201), Answer(202), Answer(500)}
    BY <2>1 DEF ChangeCart, NextError
  <2> QED BY <1>0, <1>5, <2>2 DEF CallbackOK
<1>6. CASE call \in {"pipe", "image"}
  <2>1. c \in {PipeOrder(a), PipeImage(a)}
    BY <1>6 DEF Callback
  <2>2. (c = Throw /\ a = "unreachable") \/ \E s \in Statuses : c = Answer(s)
    BY <1>0, <2>1, StatusIs DEF PipeOrder, PipeImage, NextError
  <2> QED BY <1>0, <1>6, <2>2 DEF CallbackOK
<1>7. CASE call = "customer"
  BY <1>0, <1>7 DEF CallbackOK, Callback, FindCustomer, NextError, Lists
<1>8. CASE call \in {"addresses", "cards"}
  <2>1. c = FindOne(a, others)
    BY <1>8 DEF Callback
  <2>2. \/ c = Answer(500)
        \/ c = Throw /\ a \notin {"ok", "empty"}
        \/ c = IF others = {} THEN Call({"place"}) ELSE Wait
    BY <2>1 DEF FindOne, NextError
  <2> QED BY <1>0, <1>8, <2>2, OutcomeIs DEF CallbackOK
<1>9. CASE call = "place"
  <2>1. c = PlaceOrder(a)
    BY <1>9 DEF Callback
  <2>2. (c = Throw /\ a = "nobody") \/ \E s \in Statuses : c = Answer(s)
    BY <1>0, <2>1, StatusIs DEF PlaceOrder, NextError
  <2> QED BY <1>0, <1>9, <2>2 DEF CallbackOK
<1>10. CASE call = "auth"
  <2>1. c = Authenticate(route, a, sessions)
    BY <1>10 DEF Callback
  <2>2. \/ c \in {Answer(401), Answer(500)}
        \/ c = Throw /\ (a \notin {"ok", "empty"} \/ ~sessions)
        \/ c = Call({"merge"}) /\ Agreed(route, a)
    <3>1. CASE a \notin {"ok", "page"}
      <4>1. c = Answer(IF route = "GET /login" THEN 401 ELSE 500)
        BY <2>1, <3>1 DEF Authenticate
      <4> QED BY <4>1
    <3>2. CASE a = "page" /\ route = "GET /login"
      <4>1. c = Throw
        BY <2>1, <3>2 DEF Authenticate
      <4> QED BY <3>2, <4>1
    <3>3. CASE Agreed(route, a)
      <4>1. c = IF sessions THEN Call({"merge"}) ELSE Throw
        BY <2>1, <3>3 DEF Authenticate, Agreed
      <4> QED BY <3>3, <4>1
    <3> QED BY <3>1, <3>2, <3>3 DEF Agreed
  <2> QED BY <1>0, <1>10, <2>2 DEF CallbackOK
<1>11. CASE call = "merge"
  <2>1. c = MergeCarts(route, a)
    BY <1>11 DEF Callback
  <2>2. c \in {Answer(200), Answer(500)}
    BY <2>1 DEF MergeCarts
  <2> QED BY <1>0, <1>11, <2>2 DEF CallbackOK
<1> QED
  BY <1>1, <1>2, <1>3, <1>4, <1>5, <1>6, <1>7, <1>8, <1>9, <1>10, <1>11 DEF CallNames

\* An exception is blamed on a service that failed, or on a missing session, and never
\* on the carts service.
LEMMA BlameIs ==
    ASSUME NEW call \in CallNames, call \notin {"list", "drop", "change", "merge"}
    PROVE  ServiceOf(call) \in {ServiceOf(k) : k \in CallNames} \ {"carts"}
<1>1. ServiceOf(call) # "carts"
  BY DEF ServiceOf, CallNames
<1> QED BY <1>1

\* A route belongs to one model, or to none.
LEMMA ModelIs ==
    ASSUME NEW route
    PROVE  /\ ModelOf(route) \cap Models = ModelOf(route)
           /\ Cardinality(ModelOf(route)) \in Nat
<1>1. ModelOf(route) \in {{"cart"}, {"catalogue"}, {"orders"}, {}}
  BY DEF ModelOf
<1>2. \A m \in {{"cart"}, {"catalogue"}, {"orders"}, {}} : m \cap Models = m
  BY DEF Models
<1>3. Cardinality({}) = 0 /\ \A x : Cardinality({x}) = 1
  BY FS_EmptySet, FS_Singleton
<1>4. Cardinality(ModelOf(route)) \in {0, 1}
  BY <1>1, <1>3
<1> QED BY <1>1, <1>2, <1>4
-----------------------------------------------------------------------------
(* A request that comes in *)

\* A record with the fields of a request is one.
LEMMA OutcomeFields ==
    ASSUME NEW n,
           n.state \in {"none", "open", "answered", "lost"} /\ n.route \in Routes \cup {"none"},
           n.browser \in Browsers \cup {"none"} /\ n.who \in {"none", "customer", "gone"},
           n.sessions \in BOOLEAN /\ n.calls \in SUBSET CallNames,
           n.status \in {0, 200, 201, 202, 301, 401, 404, 406, 500, 503} /\ n.did \in BOOLEAN,
           n.trouble \in SUBSET Troubles /\ n.counted \in Nat,
           n = [state |-> n.state, route |-> n.route, browser |-> n.browser, who |-> n.who,
                sessions |-> n.sessions, calls |-> n.calls, status |-> n.status, did |-> n.did,
                trouble |-> n.trouble, counted |-> n.counted]
    PROVE  n \in Outcome
  BY DEF Outcome

\* A request that was not served yet, or not any more, is in order.
LEMMA BlankIs ==
    ASSUME NEW state \in {"none", "lost"}
    PROVE  RequestOK([Blank EXCEPT !.state = state])
<1>1. PICK n : n = [Blank EXCEPT !.state = state]
  OBVIOUS
<1>2. /\ n.state = state /\ n.route = "none" /\ n.browser = "none" /\ n.who = "none"
      /\ n.sessions = FALSE /\ n.calls = {} /\ n.status = 0 /\ n.did = FALSE
      /\ n.trouble = {} /\ n.counted = 0
  BY <1>1 DEF Blank
<1>6. n = [state |-> n.state, route |-> n.route, browser |-> n.browser, who |-> n.who,
           sessions |-> n.sessions, calls |-> n.calls, status |-> n.status, did |-> n.did,
           trouble |-> n.trouble, counted |-> n.counted]
  BY <1>1 DEF Blank
<1>3. n \in Outcome
  <2>f. /\ n.state \in {"none", "open", "answered", "lost"}
        /\ n.route \in Routes \cup {"none"} /\ n.browser \in Browsers \cup {"none"}
    BY <1>2
  <2>h. /\ n.who \in {"none", "customer", "gone"} /\ n.sessions \in BOOLEAN
        /\ n.calls \in SUBSET CallNames /\ n.did \in BOOLEAN
    BY <1>2
  <2>g. /\ n.status \in {0, 200, 201, 202, 301, 401, 404, 406, 500, 503}
        /\ n.trouble \in SUBSET Troubles /\ n.counted \in Nat
    BY <1>2
  <2> QED BY <1>6, <2>f, <2>g, <2>h, OutcomeFields, ZenonT(40)
<1>4. PageSays(n) = "nothing"
  BY <1>2 DEF PageSays
<1>5. Truthful(n) /\ Counted(n)
  BY <1>2, <1>4 DEF Truthful, Counted
<1> QED BY <1>1, <1>2, <1>3, <1>5 DEF RequestOK

\* An error the front end gives by itself is no success on any page.
LEMMA ErrorIsNoSuccess ==
    ASSUME NEW r, r.state = "answered", r.did = FALSE,
           r.status = 500 \/ r.route \notin ApiRoutes
    PROVE  Truthful(r)
<1>1. PageSays(r) # "success"
  <2>1. CASE r.route \notin ApiRoutes
    BY <2>1 DEF PageSays, ApiRoutes, LoginRoutes, ChangeRoutes, CartRoutes, CustomerRoutes,
                PostRoutes, OrderRoutes
  <2>2. CASE r.status = 500
    BY <2>2 DEF PageSays, LoginPage, OrderPage, AddToCartPage, UpdateToCartPage, UsernamePage,
                AddressPage, CardPage
  <2> QED BY <2>1, <2>2
<1> QED BY <1>1 DEF Truthful

\* What is made of a request that arrives is in order.
LEMMA Arrived ==
    ASSUME NEW route \in Routes, NEW b \in Browsers, NEW who \in {"none", "customer", "gone"},
           NEW sessions \in BOOLEAN, NEW body \in Bodies(route), NEW hasCookie,
           NEW o, o = Arrive(route, body, hasCookie, sessions)
    PROVE  RequestOK([Blank EXCEPT !.state = Settle(o, "open"), !.route = route, !.browser = b,
                          !.who = who, !.sessions = sessions, !.calls = o.calls,
                          !.status = o.status, !.counted = Observe(route, o)])
<1>1. PICK n : n = [Blank EXCEPT !.state = Settle(o, "open"), !.route = route, !.browser = b,
                        !.who = who, !.sessions = sessions, !.calls = o.calls,
                        !.status = o.status, !.counted = Observe(route, o)]
  OBVIOUS
<1>2. /\ n.state = Settle(o, "open") /\ n.route = route /\ n.browser = b /\ n.who = who
      /\ n.sessions = sessions /\ n.calls = o.calls /\ n.status = o.status /\ n.did = FALSE
      /\ n.trouble = {} /\ n.counted = Observe(route, o)
  BY <1>1 DEF Blank
<1>3. n = [state |-> n.state, route |-> n.route, browser |-> n.browser, who |-> n.who,
           sessions |-> n.sessions, calls |-> n.calls, status |-> n.status, did |-> n.did,
           trouble |-> n.trouble, counted |-> n.counted]
  BY <1>1 DEF Blank
<1>9. /\ n.route \in Routes \cup {"none"} /\ n.browser \in Browsers \cup {"none"}
      /\ n.who \in {"none", "customer", "gone"} /\ n.sessions \in BOOLEAN /\ n.did \in BOOLEAN
      /\ n.trouble \in SUBSET Troubles
  BY <1>2
<1>4. \/ route \in ApiRoutes /\ o \in {Answer(500), Call({FirstCall(route)})}
      \/ route \in OtherRoutes /\ \E s \in Statuses : o = Answer(s)
  BY ArriveIs
<1>5. CASE \E s \in Statuses : o = Answer(s) /\ (s = 500 \/ route \notin ApiRoutes)
  <2>1. PICK s \in Statuses : o = Answer(s) /\ (s = 500 \/ route \notin ApiRoutes)
    BY <1>5
  <2>2. /\ n.state = "answered" /\ n.calls = {} /\ n.status = s
        /\ n.counted = Cardinality(ModelOf(route))
    BY <1>2, <2>1, OutcomeIs, ModelIs DEF Settle, Observe
  <2>3. n \in Outcome
    <3>1. n.counted \in Nat /\ n.calls \in SUBSET CallNames
      BY <2>2, ModelIs
    <3>2. n.status \in {0, 200, 201, 202, 301, 401, 404, 406, 500, 503}
      BY <2>2 DEF Statuses
    <3>3. n.state \in {"none", "open", "answered", "lost"}
      BY <2>2
    <3> QED BY <1>3, <1>9, <3>1, <3>2, <3>3, OutcomeFields, ZenonT(40)
  <2>4. Truthful(n)
    BY <1>2, <2>1, <2>2, ErrorIsNoSuccess
  <2>5. Counted(n)
    BY <1>2, <2>2 DEF Counted, Statuses
  <2> QED BY <1>1, <2>2, <2>3, <2>4, <2>5 DEF RequestOK, Over
<1>6. CASE route \in ApiRoutes /\ o = Call({FirstCall(route)})
  <2>1. /\ n.state = "open" /\ n.calls = {FirstCall(route)} /\ n.status = 0 /\ n.counted = 0
    BY <1>2, <1>6, OutcomeIs DEF Settle, Observe
  <2>2. FirstCall(route) \in CallNames \ {"change", "merge", "addresses", "cards", "place"}
    BY <1>6, FirstCallIs
  <2>7. n.calls \in SUBSET CallNames
    BY <2>1, <2>2
  <2>3. n \in Outcome
    <3>1. n.state \in {"none", "open", "answered", "lost"}
      BY <2>1
    <3>2. n.status \in {0, 200, 201, 202, 301, 401, 404, 406, 500, 503} /\ n.counted \in Nat
      BY <2>1
    <3> QED BY <1>3, <1>9, <2>7, <3>1, <3>2, OutcomeFields, ZenonT(40)
  <2>4. PageSays(n) = "nothing"
    BY <2>1 DEF PageSays
  <2>5. Truthful(n) /\ Counted(n)
    BY <2>1, <2>4 DEF Truthful, Counted
  <2>6. Pending(n)
    BY <1>2, <1>6, <2>1, <2>2 DEF Pending, Waits
  <2> QED BY <1>1, <2>1, <2>3, <2>5, <2>6 DEF RequestOK
<1>7. route \in OtherRoutes => route \notin ApiRoutes
  BY DEF OtherRoutes, ApiRoutes, CustomerRoutes, CatalogueRoutes, PostRoutes, DeleteRoutes,
         FirstRoutes, CartRoutes, DropRoutes, ChangeRoutes, LoginRoutes, OrderRoutes
<1>8. 500 \in Statuses
  BY DEF Statuses
<1> QED BY <1>4, <1>5, <1>6, <1>7, <1>8
-----------------------------------------------------------------------------
(* A callback that runs *)

\* What a call leaves behind of trouble, and of the change it was to make.
LEMMA TroubleIs ==
    ASSUME NEW call, NEW a \in Answers
    PROVE  /\ Trouble(call, a) \in SUBSET Troubles
           /\ call = "lookup" => Trouble(call, a) \subseteq {"lookup"}
           /\ call # "lookup" /\ a \in {"text", "nobody", "unreachable"} =>
                  "lost" \in Trouble(call, a)
           /\ call # "lookup" /\ a = "page" => "page" \in Trouble(call, a)
           /\ a \notin {"ok", "empty", "missing"} => Trouble(call, a) # {}
  BY DEF Trouble, Answers, Troubles

\* The calls a request that waits has made, by its route.
LEMMA CallsOf ==
    ASSUME NEW r, Pending(r)
    PROVE  /\ r.route \in LoginRoutes => r.calls \in {{"auth"}, {"merge"}}
           /\ r.route \in ChangeRoutes => r.calls \in {{"lookup"}, {"change"}}
           /\ r.route \in PostRoutes => r.calls = {"create"}
           /\ r.route = "POST /orders" =>
                  \/ r.calls \in {{"customer"}, {"place"}}
                  \/ r.calls \subseteq {"addresses", "cards"} /\ r.calls # {}
           /\ r.route \notin LoginRoutes \cup ChangeRoutes \cup PostRoutes \cup {"POST /orders"} =>
                  r.calls = {FirstCall(r.route)}
<1>1. r.route \in ApiRoutes /\ Waits(r)
  BY DEF Pending
<1>2. CASE r.route \in LoginRoutes
  <2>1. FirstCall(r.route) = "auth"
    BY <1>1, <1>2, FirstCallIs
  <2>2. r.route \notin ChangeRoutes \cup PostRoutes \cup {"POST /orders"}
    BY <1>2 DEF LoginRoutes, ChangeRoutes, PostRoutes
  <2> QED BY <1>1, <1>2, <2>1, <2>2 DEF Waits
<1>3. CASE r.route \in ChangeRoutes
  <2>1. FirstCall(r.route) = "lookup"
    BY <1>1, <1>3, FirstCallIs
  <2>2. r.route \notin LoginRoutes \cup PostRoutes \cup {"POST /orders"}
    BY <1>3 DEF LoginRoutes, ChangeRoutes, PostRoutes
  <2> QED BY <1>1, <1>3, <2>1, <2>2 DEF Waits
<1>4. CASE r.route \in PostRoutes
  <2>1. FirstCall(r.route) = "create"
    BY <1>1, <1>4, FirstCallIs
  <2>2. r.route \notin LoginRoutes \cup ChangeRoutes \cup {"POST /orders"}
    BY <1>4 DEF LoginRoutes, ChangeRoutes, PostRoutes
  <2> QED BY <1>1, <1>4, <2>1, <2>2 DEF Waits
<1>5. CASE r.route = "POST /orders"
  <2>1. FirstCall(r.route) = "customer"
    BY <1>1, <1>5, FirstCallIs
  <2>2. r.route \notin LoginRoutes \cup ChangeRoutes \cup PostRoutes
    BY <1>5 DEF LoginRoutes, ChangeRoutes, PostRoutes
  <2>3. r.calls # {"change"} \/ r.route \in ChangeRoutes
    BY <1>1, <1>5, <2>1 DEF Waits
  <2>4. \/ r.calls \in {{"customer"}, {"place"}}
        \/ r.calls \subseteq {"addresses", "cards"} /\ r.calls # {}
    BY <1>1, <2>1, <2>2 DEF Waits
  <2> QED BY <1>5, <2>2, <2>4
<1>6. CASE r.route \notin LoginRoutes \cup ChangeRoutes \cup PostRoutes \cup {"POST /orders"}
  BY <1>1, <1>6 DEF Waits
<1> QED BY <1>2, <1>3, <1>4, <1>5, <1>6

\* The answer a callback gives tells the page the truth: by the route it is for.
LEMMA TruthfulAnswer ==
    ASSUME NEW r, r.did \in BOOLEAN, Pending(r), NEW call \in r.calls, NEW who,
           NEW a \in AnswersTo(call, who), NEW effect \in Effects(r, call, a), NEW others,
           NEW s, Callback(r.route, call, a, others, r.sessions) = Answer(s),
           r.sessions \in BOOLEAN, s \in Statuses,
           NEW n, n.state = "answered", n.route = r.route, n.status = s, n.did = effect,
           n.trouble = r.trouble \cup Trouble(call, a)
    PROVE  Truthful(n)
<1>0. /\ a \in Answers /\ (a = "empty" => call \in Lists) /\ (a = "missing" => call = "orders")
      /\ \A i, j : Answer(i) = Answer(j) => i = j
      /\ \A i : Answer(i) # Throw /\ \A C : Answer(i) # Call(C)
  BY OutcomeIs DEF AnswersTo
<1>e. /\ call \notin Deciding => effect = r.did
      /\ call \in Deciding /\ a = "ok" => effect = (call = "change" => r.trouble = {})
      /\ call \in Deciding /\ a \in {"error", "refused", "empty", "missing"} => effect = FALSE
  BY DEF Effects
<1>d. {"create", "drop", "change", "place", "auth"} \subseteq Deciding /\ "merge" \notin Deciding
  BY DEF Deciding
<1>c. /\ Callback(r.route, call, a, others, r.sessions).does = "answer"
      /\ Callback(r.route, call, a, others, r.sessions).status = s
  BY OutcomeIs
<1>1. CASE r.route \in LoginRoutes
  <2>0. n.route \notin {"POST /addresses", "POST /cards", "GET /customers/:id"}
    BY <1>1 DEF LoginRoutes
  <2>1. PageSays(n) = LoginPage(s)
    BY <1>1 DEF PageSays, LoginRoutes
  <2>2. call \in {"auth", "merge"}
    BY <1>1, CallsOf
  <2>3. CASE call = "auth"
    <3>0. Callback(r.route, call, a, others, r.sessions) = Authenticate(r.route, a, r.sessions)
      BY <2>3 DEF Callback
    <3>4. \/ /\ a \notin {"ok", "page"}
             /\ Authenticate(r.route, a, r.sessions) \in {Answer(401), Answer(500)}
          \/ Authenticate(r.route, a, r.sessions) \in {Call({"merge"}), Throw}
      <4>1. CASE a \notin {"ok", "page"} /\ r.route = "GET /login"
        BY <4>1 DEF Authenticate
      <4>2. CASE a \notin {"ok", "page"} /\ r.route # "GET /login"
        <5>1. Authenticate(r.route, a, r.sessions) = Answer(500)
          BY <4>2 DEF Authenticate
        <5> QED BY <4>2, <5>1
      <4>3. CASE a \in {"ok", "page"}
        BY <4>3 DEF Authenticate
      <4> QED BY <4>1, <4>2, <4>3
    <3>1. a \notin {"ok", "page"} /\ s \in {401, 500}
      BY <1>c, <3>0, <3>4 DEF Answer, Call, Throw
    <3>2. effect => a \in {"text", "nobody", "unreachable"}
      BY <1>0, <1>e, <1>d, <2>3, <3>1 DEF Answers
    <3>3. PageSays(n) = "failure"
      BY <2>1, <3>1 DEF LoginPage
    <3> QED BY <1>0, <2>3, <3>2, <3>3, TroubleIs DEF Truthful
  <2>4. CASE call = "merge"
    <3>1. r.calls = {"merge"}
      BY <1>1, <2>4, CallsOf
    <3>5. r.did = TRUE \/ Paged(r)
      BY <3>1 DEF Pending
    <3>2. effect = TRUE \/ Paged(n)
      BY <2>4, <1>e, <1>d, <3>5 DEF Paged
    <3>0. Callback(r.route, call, a, others, r.sessions) = MergeCarts(r.route, a)
      BY <2>4 DEF Callback
    <3>3. s = 200 \/ a = "unreachable"
      <4>1. CASE a = "unreachable"
        BY <4>1
      <4>2. CASE a # "unreachable"
        <5>1. MergeCarts(r.route, a) = Answer(200)
          BY <4>2 DEF MergeCarts
        <5> QED BY <1>0, <1>c, <3>0, <5>1 DEF Answer
      <4> QED BY <4>1, <4>2
    <3>4. PageSays(n) = "failure" => "lost" \in Trouble(call, a)
      BY <1>0, <2>1, <2>4, <3>3, TroubleIs DEF LoginPage
    <3> QED BY <3>2, <3>4 DEF Truthful
  <2> QED BY <2>2, <2>3, <2>4
<1>2. CASE r.route = "POST /orders"
  <2>1. PageSays(n) = OrderPage(s)
    BY <1>2 DEF PageSays, LoginRoutes
  <2>2. call \in {"customer", "addresses", "cards", "place"}
    BY <1>2, CallsOf, ZenonT(60)
  <2>3. CASE call = "place"
    <3>0. Callback(r.route, call, a, others, r.sessions) = PlaceOrder(a)
      BY <2>3 DEF Callback
    <3>1. s = 500 \/ s = HttpStatus("place", a)
      BY <1>0, <1>c, <3>0 DEF PlaceOrder, NextError, Answer, Call, Throw
    <3>2. s = 201 => a = "ok"
      BY <1>0, <2>3, <3>1, StatusIs DEF Lists
    <3>3. s = 406 => a \in {"refused", "missing"}
      BY <1>0, <3>1, StatusIs
    <3>4. /\ PageSays(n) = "success" => a = "ok"
          /\ PageSays(n) = "failure" => a \in {"refused", "missing"}
      BY <2>1, <3>2, <3>3 DEF OrderPage
    <3>5. (a = "ok" => effect) /\ (a \in {"refused", "missing"} => ~effect)
      BY <2>3, <1>e, <1>d
    <3> QED BY <3>4, <3>5 DEF Truthful
  <2>4. CASE call = "customer"
    <3>0. Callback(r.route, call, a, others, r.sessions) = FindCustomer(a)
      BY <2>4 DEF Callback
    <3>1. s = 500
      BY <1>0, <1>c, <3>0 DEF FindCustomer, NextError, Answer, Call, Throw
    <3> QED BY <2>1, <3>1 DEF OrderPage, Truthful
  <2>5. CASE call \in {"addresses", "cards"}
    <3>1. Callback(r.route, call, a, others, r.sessions) = FindOne(a, others)
      BY <2>5 DEF Callback
    <3>2. s = 500
      BY <1>0, <1>c, <3>1 DEF FindOne, NextError, Wait, Answer, Call, Throw
    <3> QED BY <2>1, <3>2 DEF OrderPage, Truthful
  <2> QED BY <2>2, <2>3, <2>4, <2>5
<1>3. CASE r.route = "POST /cart"
  <2>1. PageSays(n) = AddToCartPage(s)
    BY <1>3 DEF PageSays, LoginRoutes
  <2>2. call \in {"lookup", "change"} /\ r.calls \in {{"lookup"}, {"change"}}
    BY <1>3, CallsOf DEF ChangeRoutes
  <2>3. CASE call = "lookup"
    <3>1. Callback(r.route, call, a, others, r.sessions) = LookUpItem(a)
      BY <2>3 DEF Callback
    <3> QED BY <1>0, <1>c, <3>1 DEF LookUpItem, Answer, Call, Throw
  <2>4. CASE call = "change"
    <3>0. Callback(r.route, call, a, others, r.sessions) = ChangeCart(r.route, a)
      BY <2>4 DEF Callback
    <3>6. a = "ok" \/ ChangeCart(r.route, a) = Answer(500)
      BY DEF ChangeCart, NextError
    <3>1. s = 500 \/ a = "ok"
      BY <1>c, <3>0, <3>6 DEF Answer
    <3>2. PageSays(n) # "failure" /\ (PageSays(n) = "success" => s # 500)
      BY <2>1 DEF AddToCartPage
    <3>3. a = "ok" => effect = (r.trouble = {})
      BY <2>4, <1>e, <1>d
    <3>4. r.trouble \subseteq {"lookup"}
      BY <2>2 DEF Pending
    <3>5. a = "ok" /\ ~effect => "lookup" \in r.trouble
      BY <3>3, <3>4
    <3> QED BY <3>1, <3>2, <3>5 DEF Truthful
  <2> QED BY <2>2, <2>3, <2>4
<1>4. CASE r.route \in {"POST /addresses", "POST /cards"}
  <2>1. /\ PageSays(n) = "success" => s < 300
        /\ PageSays(n) = "failure" => ~(s < 300)
    BY <1>4 DEF PageSays, LoginRoutes, AddressPage, CardPage
  <2>2. call = "create"
    BY <1>4, CallsOf DEF PostRoutes
  <2>3. Callback(r.route, call, a, others, r.sessions) = PostJson(a)
    BY <2>2 DEF Callback
  <2>4. IF a = "unreachable" THEN s = 500 ELSE s = 200
    BY <1>0, <1>c, <2>3 DEF PostJson, NextError, Answer, Call, Throw
  <2>5. PageSays(n) = "failure" => "lost" \in Trouble(call, a)
    BY <1>0, <2>1, <2>2, <2>4, TroubleIs
  <2>6. ~effect => a # "ok"
    BY <2>2, <1>e, <1>d
  <2>7. ~effect => Trouble(call, a) # {}
    BY <1>0, <2>2, <2>6, TroubleIs DEF Lists
  <2> QED BY <1>4, <2>5, <2>7 DEF Truthful
<1>5. CASE r.route \notin LoginRoutes \cup {"POST /orders", "POST /cart", "POST /addresses",
                                          "POST /cards"}
  <2>1. PageSays(n) # "failure"
    BY <1>5 DEF PageSays, UpdateToCartPage, UsernamePage
  <2>2. PageSays(n) = "success" => n.route = "GET /customers/:id"
    BY <1>5 DEF PageSays, UpdateToCartPage
  <2> QED BY <2>1, <2>2 DEF Truthful
<1> QED BY <1>1, <1>2, <1>3, <1>4, <1>5
\* The route a call is made for, where it tells.
LEMMA RouteOf ==
    ASSUME NEW r, Pending(r), NEW call \in r.calls
    PROVE  /\ call = "lookup" => r.route \in ChangeRoutes /\ r.calls = {"lookup"}
           /\ call = "auth" => r.route \in LoginRoutes /\ r.calls = {"auth"}
           /\ call = "customer" => r.route = "POST /orders" /\ r.calls = {"customer"}
           /\ call \in {"addresses", "cards"} =>
                  r.route = "POST /orders" /\ r.calls \subseteq {"addresses", "cards"}
<1>1. r.route \in ApiRoutes
  BY DEF Pending
<1>2. CASE r.route \in LoginRoutes
  BY <1>2, CallsOf
<1>3. CASE r.route \in ChangeRoutes
  BY <1>3, CallsOf
<1>4. CASE r.route \in PostRoutes
  BY <1>4, CallsOf
<1>5. CASE r.route = "POST /orders"
  BY <1>5, CallsOf
<1>6. CASE r.route \notin LoginRoutes \cup ChangeRoutes \cup PostRoutes \cup {"POST /orders"}
  <2>1. call = FirstCall(r.route)
    BY <1>6, CallsOf
  <2>2. call \notin {"lookup", "auth", "customer", "addresses", "cards"}
    BY <1>1, <1>6, <2>1, FirstCallIs
  <2> QED BY <2>2
<1> QED BY <1>2, <1>3, <1>4, <1>5, <1>6

\* The call a request has made comes back, and the process goes on: what is made of the
\* request is in order.
LEMMA Returned ==
    ASSUME NEW r, RequestOK(r), NEW call \in r.calls, NEW a \in AnswersTo(call, r.who),
           NEW effect \in Effects(r, call, a), NEW c, NEW o,
           c = Callback(r.route, call, a, r.calls \ {call}, r.sessions),
           o = IF r.state = "open" \/ c = Throw THEN c ELSE Wait, o # Throw
    PROVE  RequestOK([r EXCEPT !.state = Settle(o, @), !.calls = (@ \ {call}) \cup o.calls,
                         !.status = IF o.does = "answer" THEN o.status ELSE @,
                         !.did = effect, !.counted = @ + Observe(r.route, o),
                         !.trouble = @ \cup Trouble(call, a)])
<1>1. PICK n : n = [r EXCEPT !.state = Settle(o, @), !.calls = (@ \ {call}) \cup o.calls,
                        !.status = IF o.does = "answer" THEN o.status ELSE @,
                        !.did = effect, !.counted = @ + Observe(r.route, o),
                        !.trouble = @ \cup Trouble(call, a)]
  OBVIOUS
<1>2. /\ r.state \in {"none", "open", "answered", "lost"}
      /\ r.route \in Routes \cup {"none"} /\ r.browser \in Browsers \cup {"none"}
      /\ r.who \in {"none", "customer", "gone"} /\ r.sessions \in BOOLEAN
      /\ r.calls \in SUBSET CallNames /\ r.did \in BOOLEAN
  BY DEF RequestOK, Outcome
<1>3. /\ r.status \in {0, 200, 201, 202, 301, 401, 404, 406, 500, 503}
      /\ r.trouble \in SUBSET Troubles /\ r.counted \in Nat
  BY DEF RequestOK, Outcome
<1>4. /\ n.state = Settle(o, r.state) /\ n.route = r.route /\ n.browser = r.browser
      /\ n.who = r.who /\ n.sessions = r.sessions /\ n.calls = (r.calls \ {call}) \cup o.calls
      /\ n.status = IF o.does = "answer" THEN o.status ELSE r.status
      /\ n.did = effect /\ n.counted = r.counted + Observe(r.route, o)
      /\ n.trouble = r.trouble \cup Trouble(call, a)
  BY <1>1 DEF RequestOK, Outcome
<1>5. n = [state |-> n.state, route |-> n.route, browser |-> n.browser, who |-> n.who,
           sessions |-> n.sessions, calls |-> n.calls, status |-> n.status, did |-> n.did,
           trouble |-> n.trouble, counted |-> n.counted]
  BY <1>1, ZenonT(60) DEF RequestOK, Outcome
<1>6. a \in Answers /\ call \in CallNames
  BY <1>2 DEF AnswersTo
<1>7. effect \in BOOLEAN
  BY <1>2 DEF Effects
<1>e. /\ call \notin Deciding => effect = r.did
      /\ call \in Deciding /\ a = "ok" => effect = (call = "change" => r.trouble = {})
  BY DEF Effects
<1>d. "auth" \in Deciding /\ Deciding \cap {"lookup", "customer", "addresses", "cards"} = {}
  BY DEF Deciding
<1>8. n.trouble \in SUBSET Troubles
  BY <1>3, <1>4, <1>6, TroubleIs
<1>9. r.state \in {"open", "answered"}
  BY <1>2 DEF RequestOK
<1>10. CallbackOK(r.route, call, a, r.calls \ {call}, r.sessions)
  BY <1>2, <1>6, CallbackIs
<1>11. CASE r.state = "answered"
  <2>1. o = Wait
    BY <1>11
  <2>2. /\ n.state = "answered" /\ n.calls = r.calls \ {call} /\ n.status = r.status
        /\ n.counted = r.counted
    BY <1>3, <1>4, <1>11, <2>1, OutcomeIs DEF Settle, Observe
  <2>3. r.route = "POST /orders" /\ r.calls \subseteq {"addresses", "cards"}
    BY <1>11 DEF RequestOK, Over
  <2>4. n.did = r.did
    <3>1. call \notin Deciding
      BY <2>3 DEF Deciding
    <3> QED BY <1>4, <1>e, <3>1
  <2>5. n \in Outcome
    BY <1>2, <1>3, <1>4, <1>5, <1>7, <1>8, <2>2, OutcomeFields
  <2>6. PageSays(n) = PageSays(r)
    BY <1>4, <1>11, <2>2, <2>3 DEF PageSays, LoginRoutes
  <2>7. Truthful(n)
    <3>1. Truthful(r) /\ r.trouble \subseteq n.trouble
      BY <1>4 DEF RequestOK
    <3> QED BY <1>4, <2>3, <2>4, <2>6, <3>1 DEF Truthful, Paged
  <2>8. Counted(n)
    <3>1. Counted(r)
      BY DEF RequestOK
    <3> QED BY <1>4, <1>11, <2>2, <3>1 DEF Counted
  <2>9. Over(n)
    BY <1>4, <2>2, <2>3 DEF Over
  <2> QED BY <1>1, <2>2, <2>5, <2>7, <2>8, <2>9 DEF RequestOK
<1>12. CASE r.state = "open"
  <2>0. /\ o = c /\ c # Throw /\ Pending(r) /\ r.status = 0 /\ r.counted = 0
    BY <1>12 DEF RequestOK, Counted
  <2>1. CASE \E s \in Statuses : c = Answer(s)
    <3>1. PICK s \in Statuses : c = Answer(s)
      BY <2>1
    <3>2. /\ n.state = "answered" /\ n.calls = r.calls \ {call} /\ n.status = s
          /\ n.counted = Cardinality(ModelOf(r.route))
      <4>1. o.does = "answer" /\ o.status = s /\ o.calls = {}
        BY <2>0, <3>1, OutcomeIs
      <4>2. Observe(r.route, o) = Cardinality(ModelOf(r.route))
        BY <4>1, ModelIs DEF Observe
      <4>3. r.counted + Observe(r.route, o) = Cardinality(ModelOf(r.route))
        BY <2>0, <4>2, ModelIs
      <4>4. (r.calls \ {call}) \cup o.calls = r.calls \ {call}
        BY <4>1
      <4> QED BY <1>4, <4>1, <4>3, <4>4 DEF Settle
    <3>3. n.status \in {0, 200, 201, 202, 301, 401, 404, 406, 500, 503} /\ n.status # 0
      BY <3>2 DEF Statuses
    <3>4. n \in Outcome
      <4>1. n.counted \in Nat /\ n.calls \in SUBSET CallNames
        BY <1>2, <3>2, ModelIs
      <4> QED BY <1>2, <1>3, <1>4, <1>5, <1>7, <1>8, <3>2, <3>3, <4>1, OutcomeFields
    <3>5. Truthful(n)
      <4>1. Callback(r.route, call, a, r.calls \ {call}, r.sessions) = Answer(s)
        BY <3>1
      <4>2. /\ n.state = "answered" /\ n.route = r.route /\ n.status = s /\ n.did = effect
            /\ n.trouble = r.trouble \cup Trouble(call, a)
        BY <1>4, <3>2
      <4>3. /\ r.did \in BOOLEAN /\ r.sessions \in BOOLEAN /\ s \in Statuses /\ Pending(r)
            /\ call \in r.calls /\ a \in AnswersTo(call, r.who) /\ effect \in Effects(r, call, a)
        BY <1>2, <2>0, <3>1
      <4> QED BY <4>1, <4>2, <4>3, TruthfulAnswer, SMTT(60)
    <3>6. Counted(n)
      BY <1>4, <3>2, <3>3 DEF Counted
    <3>7. Over(n)
      <4>1. \/ r.calls \in {{"auth"}, {"merge"}, {"lookup"}, {"change"}, {"create"}, {"customer"},
                            {"place"}, {FirstCall(r.route)}}
            \/ r.route = "POST /orders" /\ r.calls \subseteq {"addresses", "cards"}
        BY <2>0, CallsOf
      <4>2. \/ n.calls = {}
            \/ r.route = "POST /orders" /\ r.calls \subseteq {"addresses", "cards"}
        BY <3>2, <4>1
      <4> QED BY <1>4, <3>2, <4>2 DEF Over
    <3> QED BY <1>1, <3>2, <3>4, <3>5, <3>6, <3>7 DEF RequestOK
  <2>2. CASE ~\E s \in Statuses : c = Answer(s)
    <3>1. \/ call = "lookup" /\ c = Call({"change"})
          \/ call = "customer" /\ c = Call({"addresses", "cards"})
          \/ call \in {"addresses", "cards"} /\ r.calls \ {call} = {} /\ c = Call({"place"})
          \/ call \in {"addresses", "cards"} /\ r.calls \ {call} # {} /\ c = Call({})
          \/ call = "auth" /\ Agreed(r.route, a) /\ c = Call({"merge"})
      BY <1>10, <2>0, <2>2, OutcomeIs DEF CallbackOK
    <3>2. PICK C : c = Call(C)
      BY <3>1
    <3>3. /\ n.state = "open" /\ n.calls = (r.calls \ {call}) \cup C /\ n.status = 0
          /\ n.counted = 0
      <4>1. o.does = "call" /\ o.status = 0 /\ o.calls = C
        BY <2>0, <3>2, OutcomeIs
      <4> QED BY <1>4, <1>12, <2>0, <4>1 DEF Settle, Observe
    <3>4. \A D : c = Call(D) => C = D
      <4>1. c.calls = C /\ \A D : c = Call(D) => c.calls = D
        BY <3>2 DEF Call
      <4> QED BY <4>1
    <3>5. /\ r.calls = {"merge"} => call = "merge"
          /\ (r.calls # {"merge"} => r.did = FALSE) /\ r.route \in ApiRoutes
      BY <2>0 DEF Pending
    <3>6. r.did = FALSE
      BY <3>1, <3>5
    <3>7. Pending(n) /\ n.calls \in SUBSET CallNames
      <4>1. CASE call = "lookup" /\ C = {"change"}
        <5>1. r.route \in ChangeRoutes /\ r.calls = {"lookup"}
          BY <2>0, <4>1, RouteOf
        <5>2. n.did = FALSE
          BY <1>4, <3>6, <4>1, <1>e, <1>d
        <5>3. n.trouble \subseteq {"lookup"}
          BY <1>4, <1>6, <2>0, <4>1, <5>1, TroubleIs DEF Pending
        <5>4. n.calls = {"change"}
          BY <3>3, <4>1, <5>1
        <5> QED BY <1>4, <3>5, <5>1, <5>2, <5>3, <5>4 DEF Pending, Waits, CallNames
      <4>2. CASE call = "customer" /\ C = {"addresses", "cards"}
        <5>1. r.route = "POST /orders" /\ r.calls = {"customer"}
          BY <2>0, <4>2, RouteOf
        <5>2. n.did = FALSE
          BY <1>4, <3>6, <4>2, <1>e, <1>d
        <5>4. n.calls = {"addresses", "cards"}
          BY <3>3, <4>2, <5>1
        <5> QED BY <1>4, <3>5, <5>1, <5>2, <5>4 DEF Pending, Waits, CallNames
      <4>3. CASE call \in {"addresses", "cards"} /\ r.calls \ {call} = {} /\ C = {"place"}
        <5>1. r.route = "POST /orders"
          BY <2>0, <4>3, RouteOf
        <5>2. n.did = FALSE
          BY <1>4, <3>6, <4>3, <1>e, <1>d
        <5>4. n.calls = {"place"}
          BY <3>3, <4>3
        <5> QED BY <1>4, <3>5, <5>1, <5>2, <5>4 DEF Pending, Waits, CallNames
      <4>4. CASE call \in {"addresses", "cards"} /\ r.calls \ {call} # {} /\ C = {}
        <5>1. r.route = "POST /orders" /\ r.calls \subseteq {"addresses", "cards"}
          BY <2>0, <4>4, RouteOf
        <5>2. n.did = FALSE
          BY <1>4, <3>6, <4>4, <1>e, <1>d
        <5>4. n.calls = r.calls \ {call}
          BY <3>3, <4>4
        <5>5. n.calls \in (SUBSET {"addresses", "cards"}) \ {{}}
          BY <4>4, <5>1, <5>4
        <5>6. n.calls \notin {{"merge"}, {"lookup"}, {"change"}}
          BY <5>5
        <5> QED BY <1>4, <3>5, <5>1, <5>2, <5>5, <5>6 DEF Pending, Waits, CallNames
      <4>5. CASE call = "auth" /\ Agreed(r.route, a) /\ C = {"merge"}
        <5>1. r.route \in LoginRoutes /\ r.calls = {"auth"}
          BY <2>0, <4>5, RouteOf
        <5>2. n.did = TRUE \/ Paged(n)
          <6>1. CASE a = "ok"
            BY <1>4, <4>5, <6>1, <1>e, <1>d
          <6>2. CASE a = "page" /\ r.route # "GET /login"
            BY <1>4, <1>6, <4>5, <5>1, <6>2, TroubleIs DEF LoginRoutes, Paged
          <6> QED BY <4>5, <6>1, <6>2 DEF Agreed
        <5>4. n.calls = {"merge"}
          BY <3>3, <4>5, <5>1
        <5> QED BY <1>4, <3>5, <5>1, <5>2, <5>4 DEF Pending, Waits, CallNames
      <4> QED BY <3>1, <3>4, <4>1, <4>2, <4>3, <4>4, <4>5
    <3>8. n \in Outcome
      <4>1. n.state \in {"none", "open", "answered", "lost"} /\ n.counted \in Nat
        BY <3>3
      <4>2. n.status \in {0, 200, 201, 202, 301, 401, 404, 406, 500, 503}
        BY <3>3
      <4>3. /\ n.route \in Routes \cup {"none"} /\ n.browser \in Browsers \cup {"none"}
            /\ n.who \in {"none", "customer", "gone"} /\ n.sessions \in BOOLEAN
            /\ n.calls \in SUBSET CallNames /\ n.did \in BOOLEAN
        BY <1>2, <1>4, <1>7, <3>7
      <4> QED BY <1>5, <1>8, <4>1, <4>2, <4>3, OutcomeFields, ZenonT(40)
    <3>9. PageSays(n) = "nothing"
      BY <3>3 DEF PageSays
    <3>10. Truthful(n) /\ Counted(n)
      BY <3>3, <3>9 DEF Truthful, Counted
    <3> QED BY <1>1, <3>3, <3>7, <3>8, <3>10 DEF RequestOK
  <2> QED BY <2>1, <2>2
<1> QED BY <1>9, <1>11, <1>12

\* The process ends: an answered request keeps its answer, and waits for nothing more.
LEMMA Ended ==
    ASSUME NEW r, RequestOK(r), r.state # "open"
    PROVE  RequestOK([r EXCEPT !.calls = {}])
<1>1. PICK n : n = [r EXCEPT !.calls = {}]
  OBVIOUS
<1>2. /\ n.state = r.state /\ n.route = r.route /\ n.browser = r.browser /\ n.who = r.who
      /\ n.sessions = r.sessions /\ n.calls = {} /\ n.status = r.status /\ n.did = r.did
      /\ n.trouble = r.trouble /\ n.counted = r.counted
  BY <1>1 DEF RequestOK, Outcome
<1>3. n \in Outcome
  BY <1>1 DEF RequestOK, Outcome
<1>4. PageSays(n) = PageSays(r)
  BY <1>2 DEF PageSays
<1>5. Truthful(n) /\ Counted(n)
  BY <1>2, <1>4 DEF RequestOK, Truthful, Counted, Paged
<1> QED BY <1>1, <1>2, <1>3, <1>5 DEF RequestOK, Over
-----------------------------------------------------------------------------
(* The steps *)

\* No request was made yet.
LEMMA InitInv == Init => ApiInv
<1> SUFFICES ASSUME Init PROVE ApiInv
  OBVIOUS
<1>1. \A q \in Requests : RequestOK(request[q])
  <2>1. [Blank EXCEPT !.state = "none"] = Blank
    BY DEF Blank
  <2>2. RequestOK(Blank)
    BY <2>1, BlankIs
  <2> QED BY <2>2 DEF Init
<1>2. received \in 0..MaxRequests
  BY ApiAssumption DEF Init
<1>3. session \in [Browsers -> {"none", "customer", "gone"}]
  BY DEF Init
<1> QED BY <1>1, <1>2, <1>3 DEF Init, ApiInv

\* A request comes in.
LEMMA ReceiveStep ==
    ASSUME ApiInv, NEW q \in Requests, NEW b \in Browsers, Receive(q, b)
    PROVE  ApiInv'
<1>1. PICK route \in Served, who \in Who(b), sessions \in BOOLEAN : \E body \in Bodies(route) :
          LET o == Arrive(route, body, cookie[b], sessions)
          IN  request' = [request EXCEPT ![q] =
                  [Blank EXCEPT !.state = Settle(o, "open"), !.route = route, !.browser = b,
                      !.who = who, !.sessions = sessions, !.calls = o.calls,
                      !.status = o.status, !.counted = Observe(route, o)]]
  BY DEF Receive
<1>2. PICK body \in Bodies(route) :
          LET o == Arrive(route, body, cookie[b], sessions)
          IN  request' = [request EXCEPT ![q] =
                  [Blank EXCEPT !.state = Settle(o, "open"), !.route = route, !.browser = b,
                      !.who = who, !.sessions = sessions, !.calls = o.calls,
                      !.status = o.status, !.counted = Observe(route, o)]]
  BY <1>1
<1>3. PICK o : o = Arrive(route, body, cookie[b], sessions)
  OBVIOUS
<1>4. PICK n : n = [Blank EXCEPT !.state = Settle(o, "open"), !.route = route, !.browser = b,
                        !.who = who, !.sessions = sessions, !.calls = o.calls,
                        !.status = o.status, !.counted = Observe(route, o)]
  OBVIOUS
<1>5. request' = [request EXCEPT ![q] = n]
  BY <1>2, <1>3, <1>4
<1>6. route \in Routes /\ who \in {"none", "customer", "gone"}
  BY ServedAssumption DEF ApiInv, Who
<1>7. RequestOK(n)
  <2>1. sessions \in BOOLEAN /\ body \in Bodies(route)
    OBVIOUS
  <2>2. RequestOK([Blank EXCEPT !.state = Settle(o, "open"), !.route = route, !.browser = b,
                      !.who = who, !.sessions = sessions, !.calls = o.calls,
                      !.status = o.status, !.counted = Observe(route, o)])
    BY <1>3, <1>6, <2>1, Arrived, ZenonT(60)
  <2> QED BY <1>4, <2>2
<1>8. DOMAIN request' = Requests /\ \A p \in Requests : RequestOK(request[p])'
  <2>1. DOMAIN request' = Requests /\ \A p \in Requests : request'[p] \in {n, request[p]}
    BY <1>5 DEF ApiInv
  <2>2. \A p \in Requests : RequestOK(request[p])
    BY DEF ApiInv
  <2>3. \A p \in Requests : RequestOK(request'[p])
    BY <1>7, <2>1, <2>2
  <2> QED BY <2>1, <2>3
<1>9. received' \in 0..MaxRequests
  BY ApiAssumption DEF Receive, ApiInv
<1> QED BY <1>8, <1>9 DEF Receive, ApiInv

\* A call comes back: its request goes on, or the process ends with all of them.
LEMMA ReturnStep ==
    ASSUME ApiInv, NEW q \in Requests, NEW call, NEW a, Return(q, call, a)
    PROVE  ApiInv'
<1>1. PICK r : r = request[q]
  OBVIOUS
<1>2. PICK c : c = Callback(r.route, call, a, r.calls \ {call}, r.sessions)
  OBVIOUS
<1>3. PICK o : o = IF r.state = "open" \/ c = Throw THEN c ELSE Wait
  OBVIOUS
<1>4. call \in r.calls /\ a \in AnswersTo(call, r.who) /\ received' = received
  BY <1>1 DEF Return
<1>5. PICK effect \in Effects(r, call, a) :
          IF o = Throw
          THEN /\ up' = FALSE
               /\ request' = [p \in Requests |->
                      IF request[p].state = "open" THEN [Blank EXCEPT !.state = "lost"]
                      ELSE [request[p] EXCEPT !.calls = {}]]
               /\ blame' = IF a \notin {"ok", "empty"} THEN ServiceOf(call)
                           ELSE IF ~r.sessions THEN "session" ELSE "nobody"
               /\ UNCHANGED <<cookie, session>>
          ELSE /\ request' = [request EXCEPT ![q] =
                      [r EXCEPT !.state = Settle(o, @), !.calls = (@ \ {call}) \cup o.calls,
                          !.status = IF o.does = "answer" THEN o.status ELSE @,
                          !.did = effect, !.counted = @ + Observe(r.route, o),
                          !.trouble = @ \cup Trouble(call, a)]]
               /\ cookie' = IF r.route \in LoginRoutes /\ o = Answer(200)
                            THEN [cookie EXCEPT ![r.browser] = TRUE] ELSE cookie
               /\ session' \in Sessions(r, o, call, a, effect)
               /\ UNCHANGED <<up, blame>>
  BY <1>1, <1>2, <1>3, ZenonT(60) DEF Return
<1>6. RequestOK(r) /\ \A p \in Requests : RequestOK(request[p])
  BY <1>1 DEF ApiInv
<1>7. call \in CallNames /\ r.sessions \in BOOLEAN
  BY <1>4, <1>6 DEF RequestOK, Outcome
<1>8. CASE o = Throw
  <2>1. c = Throw
    <3>1. Wait # Throw
      BY DEF Wait, Call, Throw
    <3> QED BY <1>3, <1>8, <3>1
  <2>2. /\ call \notin {"list", "drop", "change", "merge"}
        /\ a \in {"ok", "empty"} => ~r.sessions
    <3>1. CallbackOK(r.route, call, a, r.calls \ {call}, r.sessions)
      BY <1>4, <1>7, CallbackIs
    <3>2. Callback(r.route, call, a, r.calls \ {call}, r.sessions) = Throw
      BY <1>2, <2>1
    <3> QED BY <3>1, <3>2 DEF CallbackOK
  <2>3. blame' \in {"none", "session"} \cup ({ServiceOf(k) : k \in CallNames} \ {"carts"})
    <3>1. ServiceOf(call) \in {ServiceOf(k) : k \in CallNames} \ {"carts"}
      BY <1>7, <2>2, BlameIs
    <3> QED BY <1>5, <1>8, <2>2, <3>1
  <2>4. \A p \in Requests : RequestOK(request'[p])
    <3> SUFFICES ASSUME NEW p \in Requests PROVE RequestOK(request'[p])
      OBVIOUS
    <3>1. CASE request[p].state = "open"
      <4>1. request'[p] = [Blank EXCEPT !.state = "lost"]
        BY <1>5, <1>8, <3>1
      <4> QED BY <4>1, BlankIs
    <3>2. CASE request[p].state # "open"
      <4>1. request'[p] = [request[p] EXCEPT !.calls = {}]
        BY <1>5, <1>8, <3>2
      <4> QED BY <1>6, <3>2, <4>1, Ended
    <3> QED BY <3>1, <3>2
  <2>5. DOMAIN request' = Requests /\ \A p \in Requests : RequestOK(request[p])'
    BY <1>5, <1>8, <2>4
  <2> QED BY <1>4, <1>5, <1>8, <2>3, <2>5 DEF ApiInv
<1>9. CASE o # Throw
  <2>1. PICK n : n = [r EXCEPT !.state = Settle(o, @), !.calls = (@ \ {call}) \cup o.calls,
                        !.status = IF o.does = "answer" THEN o.status ELSE @,
                        !.did = effect, !.counted = @ + Observe(r.route, o),
                        !.trouble = @ \cup Trouble(call, a)]
    OBVIOUS
  <2>2. RequestOK(n)
    BY <1>2, <1>3, <1>4, <1>6, <1>9, <2>1, Returned
  <2>3. request' = [request EXCEPT ![q] = n]
    BY <1>5, <1>9, <2>1
  <2>4. DOMAIN request' = Requests /\ \A p \in Requests : RequestOK(request[p])'
    <3>1. DOMAIN request' = Requests /\ \A p \in Requests : request'[p] \in {n, request[p]}
      BY <2>3 DEF ApiInv
    <3>2. \A p \in Requests : RequestOK(request'[p])
      BY <1>6, <2>2, <3>1
    <3> QED BY <3>1, <3>2
  <2>5. cookie' \in [Browsers -> BOOLEAN]
    BY <1>5, <1>9 DEF ApiInv
  <2>6. session' \in [Browsers -> {"none", "customer", "gone"}]
    <3>1. session' \in Sessions(r, o, call, a, effect)
      BY <1>5, <1>9
    <3>2. session \in [Browsers -> {"none", "customer", "gone"}]
      BY DEF ApiInv
    <3>3. \A s \in Sessions(r, o, call, a, effect) :
              \/ s = session
              \/ \E b, v : v \in {"none", "customer", "gone"} /\ s = [session EXCEPT ![b] = v]
      BY DEF Sessions
    <3> QED BY <3>1, <3>2, <3>3
  <2> QED BY <1>4, <1>5, <1>9, <2>4, <2>5, <2>6 DEF ApiInv
<1> QED BY <1>8, <1>9

\* Every step keeps the invariant.
LEMMA NextInv == ApiInv /\ [Next]_vars => ApiInv'
<1> SUFFICES ASSUME ApiInv, [Next]_vars PROVE ApiInv'
  OBVIOUS
<1>1. ASSUME NEW q \in Requests, NEW b \in Browsers, Receive(q, b) PROVE ApiInv'
  BY <1>1, ReceiveStep
<1>2. ASSUME NEW q \in Requests, NEW call, NEW a, Return(q, call, a) PROVE ApiInv'
  BY <1>2, ReturnStep
<1>3. CASE Restart
  BY <1>3 DEF Restart, ApiInv
<1>4. CASE UNCHANGED vars
  BY <1>4 DEF vars, ApiInv
<1>5. CASE Quiesce
  BY <1>4, <1>5 DEF Quiesce
<1> QED BY <1>1, <1>2, <1>3, <1>4, <1>5 DEF Next

\* The invariant holds in every state the specification reaches.
LEMMA AlwaysApiInv == Spec => []ApiInv
  BY InitInv, NextInv, PTL DEF Spec
-----------------------------------------------------------------------------
(* What it is good for *)

\* Every variable keeps its type, an answered request its status, and the metrics count
\* every answer of a model once (Observe: the middleware of metrics).
THEOREM TypeCorrect == Spec => []TypeOK
<1>1. ApiInv => TypeOK
  <2> SUFFICES ASSUME ApiInv PROVE TypeOK
    OBVIOUS
  <2>1. \A q \in Requests : request[q] \in Outcome /\ Counted(request[q])
    BY DEF ApiInv, RequestOK
  <2>2. blame \in {"none", "session", "nobody"} \cup {ServiceOf(call) : call \in CallNames}
    BY DEF ApiInv
  <2> QED BY <2>1, <2>2 DEF TypeOK, Counted, ApiInv
<1> QED BY <1>1, AlwaysApiInv, PTL

\* The process ends only when a service other than carts fails a call, or when a session
\* cannot be read: never by what a customer has or lacks, and never by an answer of carts.
THEOREM HealthyAlwaysUp == Spec => []HealthyStaysUp
<1>1. ApiInv => HealthyStaysUp
  <2> SUFFICES ASSUME ApiInv PROVE HealthyStaysUp
    OBVIOUS
  <2>1. \A k \in CallNames : ServiceOf(k) # "nobody"
    BY DEF ServiceOf, CallNames
  <2> QED BY <2>1 DEF ApiInv, HealthyStaysUp
<1> QED BY <1>1, AlwaysApiInv, PTL

\* A page reports success for a change that was made, and failure for one that was not,
\* but for the exceptions PageTruthful names (client.js against the callbacks of the API).
THEOREM PagesTellTheTruth == Spec => []PageTruthful
<1>1. ApiInv => PageTruthful
  <2> SUFFICES ASSUME ApiInv PROVE PageTruthful
    OBVIOUS
  <2>1. \A q \in Requests : Truthful(request[q])
    BY DEF ApiInv, RequestOK
  <2> QED BY <2>1 DEF PageTruthful, Truthful, Paged
<1> QED BY <1>1, AlwaysApiInv, PTL
=============================================================================
