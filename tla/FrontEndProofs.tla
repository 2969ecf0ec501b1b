--------------------------- MODULE FrontEndProofs ---------------------------
(***************************************************************************)
(* Theorems about FrontEnd, for any browsers, sessions, customers and      *)
(* number of requests, failures and handlers.                              *)
(*                                                                         *)
(* One invariant carries them all.  SessionInv says who a session and a    *)
(* cookie belong to, HandlerInv what a handler that read them at its start *)
(* may still rely on, CartInv where the items of a cart come from, and     *)
(* StrandInv which handlers are never under way together.                  *)
(***************************************************************************)
EXTENDS FrontEnd, TLAPS

\* A session has a customer whom the browser that started it has logged in as, and
\* "logged_in" is given for a session with a customer only.
SessionInv ==
    /\ \A s \in Sessions : session[s] # None =>
           /\ started[s] \in Browsers /\ session[s] \in customers
           /\ session[s] \in was[started[s]]
    /\ \A b \in Browsers : sid[b] # None => started[sid[b]] = b
    /\ \A b \in Browsers : LoggedIn(b) =>
           /\ session[LoginSession(b)] # None /\ started[LoginSession(b)] = b
           /\ sid[b] = LoginSession(b) \/ b \in lost

LoggingIn == {"auth", "merge", "save", "saveOnly", "reply"}

\* What the handler of a request knows of its browser, its session and its customer.
Sound(r) ==
    /\ r.step = "idle" => r = Idle
    /\ r.step # "idle" =>
           /\ r.browser \in Browsers /\ r.sid \in Sessions /\ started[r.sid] = r.browser
           /\ r.sets \/ sid[r.browser] = r.sid \/ r.browser \in lost
    /\ r.step \in {"lookup", "cart", "order"} =>
           /\ r.op \notin Logins
           /\ r.owner \in Owners /\ MayPut(r.browser, r.owner)
           /\ r.owner \in Sessions => r.owner = r.sid
    /\ r.op = "add" =>
           r.step \in {"lookup", "cart"} /\ r.item \in Wants[r.browser] \cup {NoItem}
    /\ r.step \in LoggingIn => r.op \in Logins /\ r.customer \in Customers
    /\ r.step \in LoggingIn \ {"auth"} =>
           r.customer \in customers /\ r.customer \in was[r.browser]
    /\ r.step = "reply" => session[r.sid] # None

HandlerInv == \A h \in Handlers : Sound(handler[h])

\* An item of o that some browser asked for, and might.
Asked(i, o) == \E b \in Browsers : i \in Wants[b] \cup {NoItem} /\ MayPut(b, o)

CartInv ==
    /\ \A o \in Owners : contents[o] \subseteq MayHold(o)
    /\ \A o \in Owners : \A i \in asked[o] : Asked(i, o)
    /\ \A c \in Customers : \A s \in Sessions :
           <<c, s>> \in merged => started[s] \in Browsers /\ c \in was[started[s]]

\* An anonymous add to the cart of s is under way, or a login in s; the cart of s is
\* merged already; a browser is logged in with s.
AddsTo(s) == \E h \in Handlers : handler[h].op = "add" /\ handler[h].owner = s
LogsInto(s) == \E h \in Handlers : handler[h].op \in Logins /\ handler[h].sid = s
Emptied(s) ==
    \E h \in Handlers : handler[h].step \in {"save", "saveOnly", "reply"} /\ handler[h].sid = s
Claimed(s) == \E b \in Browsers : LoggedIn(b) /\ LoginSession(b) = s

StrandInv ==
    \A s \in Sessions : s \notin strayed =>
        /\ AddsTo(s) => ~LogsInto(s) /\ ~Claimed(s)
        /\ Emptied(s) \/ Claimed(s) => contents[s] = {}

Inv == TypeOK /\ SessionInv /\ HandlerInv /\ CartInv /\ StrandInv

-----------------------------------------------------------------------------
(* Constants, jars and records *)

\* Nothing that stands for nobody is a session, a customer or an item.
LEMMA Distinct ==
    /\ None \notin Owners /\ None \notin Items /\ None \notin Browsers
    /\ Undefined \notin Sessions \cup Customers
    /\ Sessions \cap Customers = {}
    /\ \A s \in Sessions : s \in Owners /\ s # Missing /\ s # Empty
    /\ \A c \in Customers : c \in Owners
    /\ Undefined \in Owners /\ NoItem \in Items
    /\ \A b \in Browsers : Wants[b] \subseteq Items
  BY FrontEndAssumption DEF Owners, Items

\* What the login and the end of "logged_in" make of a jar, and what a jar may say.
LEMMA JarIs ==
    ASSUME NEW jar \in Jars
    PROVE  /\ \A s \in Sessions :
                  /\ Write(jar, "logged_in", s, FALSE) \in Jars
                  /\ Read(Write(jar, "logged_in", s, FALSE), "logged_in") = s
           /\ Write(jar, "logged_in", Empty, TRUE) = NoCookies
           /\ RemoveCookie(jar, "logged_in") = NoCookies
           /\ NoCookies \in Jars /\ ~Holds(NoCookies, "logged_in")
           /\ Holds(jar, "logged_in") => Read(jar, "logged_in") \in Sessions
<1>1. /\ NoCookies \in Jars /\ ~Holds(NoCookies, "logged_in")
      /\ Read(NoCookies, "logged_in") = Missing
      /\ Write(NoCookies, "logged_in", Empty, TRUE) = NoCookies
  BY DEF Jars, Holds, Read, NoCookies, Write
<1>2. ASSUME NEW s \in Sessions
      PROVE  /\ Write(NoCookies, "logged_in", s, FALSE) \in Jars
             /\ Read(Write(NoCookies, "logged_in", s, FALSE), "logged_in") = s
  BY DEF Jars, Read, Write, NoCookies, Encode, ParseCookieValue
<1>3. ASSUME NEW r \in Sessions, NEW s \in Sessions
      PROVE  /\ Write(Write(NoCookies, "logged_in", r, FALSE), "logged_in", s, FALSE)
                    = Write(NoCookies, "logged_in", s, FALSE)
             /\ Write(Write(NoCookies, "logged_in", r, FALSE), "logged_in", Empty, TRUE)
                    = NoCookies
  BY DEF Write, NoCookies
<1>4. CASE jar = NoCookies
  BY <1>1, <1>2, <1>4 DEF RemoveCookie
<1>5. ASSUME NEW r \in Sessions, jar = Write(NoCookies, "logged_in", r, FALSE)
      PROVE  /\ \A s \in Sessions : Write(jar, "logged_in", s, FALSE)
                                        = Write(NoCookies, "logged_in", s, FALSE)
             /\ Write(jar, "logged_in", Empty, TRUE) = NoCookies
             /\ RemoveCookie(jar, "logged_in") = NoCookies
             /\ Read(jar, "logged_in") = r
  <2>1. Read(jar, "logged_in") = r /\ r # Missing
    BY <1>2, <1>5, Distinct
  <2>2. /\ \A s \in Sessions : Write(jar, "logged_in", s, FALSE)
                                   = Write(NoCookies, "logged_in", s, FALSE)
        /\ Write(jar, "logged_in", Empty, TRUE) = NoCookies
    BY <1>3, <1>5
  <2> QED  BY <2>1, <2>2 DEF RemoveCookie
<1>6. jar = NoCookies \/ \E r \in Sessions : jar = Write(NoCookies, "logged_in", r, FALSE)
  BY DEF Jars
<1> QED  BY <1>1, <1>2, <1>4, <1>5, <1>6

\* A handler without a request is in order.
LEMMA IdleIs ==
    /\ Idle \in HandlerState /\ Idle.step = "idle" /\ Idle.op = "none"
    /\ Idle.sid = None /\ Idle.browser = None
  BY DEF Idle, HandlerState, Ops, Steps

\* The step of a handler is all that changes when it goes on.
LEMMA AdvancedIs ==
    ASSUME TypeOK, NEW h \in Handlers, NEW step \in Steps
    PROVE  /\ Advanced(h, step) \in HandlerState
           /\ Advanced(h, step).step = step
           /\ Advanced(h, step).op = handler[h].op
           /\ Advanced(h, step).browser = handler[h].browser
           /\ Advanced(h, step).sid = handler[h].sid
           /\ Advanced(h, step).sets = handler[h].sets
           /\ Advanced(h, step).owner = handler[h].owner
           /\ Advanced(h, step).item = handler[h].item
           /\ Advanced(h, step).customer = handler[h].customer
  BY DEF TypeOK, Advanced, HandlerState

\* An answer names the session of the request; nothing else is left of that.
LEMMA AnsweringIs ==
    ASSUME TypeOK, NEW h \in Handlers
    PROVE  /\ Answering(h) \in HandlerState
           /\ Answering(h).step = "answer" /\ Answering(h).op = "none"
           /\ Answering(h).browser = handler[h].browser /\ Answering(h).sid = handler[h].sid
           /\ Answering(h).sets
  BY DEF TypeOK, Answering, Idle, HandlerState, Ops, Steps

\* The handlers keep their type when one of them turns to another record.
LEMMA TurnTyped ==
    ASSUME TypeOK, NEW h \in Handlers, NEW state \in HandlerState, Turn(h, state)
    PROVE  /\ handler' \in [Handlers -> HandlerState] /\ handler'[h] = state
           /\ \A g \in Handlers : g # h => handler'[g] = handler[g]
  BY DEF TypeOK, Turn

\* What a handler is after it has answered, and after it has gone on.
LEMMA FinishIs ==
    ASSUME TypeOK, NEW h \in Handlers, Finish(h)
    PROVE  /\ handler' \in [Handlers -> HandlerState]
           /\ handler'[h] = Idle \/ handler'[h] = Answering(h)
           /\ \A g \in Handlers : g # h => handler'[g] = handler[g]
  BY TurnTyped, IdleIs, AnsweringIs DEF Finish, Done

LEMMA DoneIs ==
    ASSUME TypeOK, NEW h \in Handlers, Done(h)
    PROVE  /\ handler' \in [Handlers -> HandlerState] /\ handler'[h] = Idle
           /\ \A g \in Handlers : g # h => handler'[g] = handler[g]
  BY TurnTyped, IdleIs DEF Done

LEMMA GoOnIs ==
    ASSUME TypeOK, NEW h \in Handlers, NEW step \in Steps, GoOn(h, step)
    PROVE  /\ handler' \in [Handlers -> HandlerState] /\ handler'[h] = Advanced(h, step)
           /\ \A g \in Handlers : g # h => handler'[g] = handler[g]
  BY TurnTyped, AdvancedIs DEF GoOn

-----------------------------------------------------------------------------
(* What no step takes back *)

Grown ==
    /\ \A s \in Sessions : started[s] # None => started'[s] = started[s]
    /\ \A s \in Sessions : session[s] # None => session'[s] # None
    /\ customers \subseteq customers' /\ lost \subseteq lost'
    /\ \A b \in Browsers : was[b] \subseteq was'[b]
    /\ \A b \in Browsers : sid[b] = None \/ sid'[b] = sid[b] \/ b \in lost'

\* A cart that a browser may put an item into stays one.
LEMMA MayStill ==
    ASSUME Grown, NEW b \in Browsers, NEW o \in Owners, MayPut(b, o)
    PROVE  MayPut(b, o)'
  BY Distinct DEF Grown, MayPut

\* A handler that does not move stays sound.
LEMMA SoundStill ==
    ASSUME Grown, NEW h \in Handlers, Sound(handler[h]), handler'[h] = handler[h]
    PROVE  Sound(handler[h])'
<1>1. handler[h].step \in {"lookup", "cart", "order"}
          => MayPut(handler[h].browser, handler[h].owner)'
  <2> SUFFICES ASSUME handler[h].step \in {"lookup", "cart", "order"}
               PROVE  MayPut(handler[h].browser, handler[h].owner)'
    OBVIOUS
  <2>1. /\ handler[h].browser \in Browsers /\ handler[h].owner \in Owners
        /\ MayPut(handler[h].browser, handler[h].owner)
    BY DEF Sound
  <2> DEFINE b == handler[h].browser  o == handler[h].owner
  <2>2. /\ b \in Browsers /\ o \in Owners /\ MayPut(b, o)
    BY <2>1
  <2>3. (o \in Sessions /\ started'[o] = b) \/ o \in was'[b] \/ (o = Undefined /\ b \in lost')
    BY <2>2, Distinct DEF Grown, MayPut
  <2> QED  BY <2>3 DEF MayPut
<1>2. handler[h].step # "idle" =>
        /\ handler[h].browser \in Browsers /\ handler[h].sid \in Sessions
        /\ started'[handler[h].sid] = handler[h].browser
        /\ \/ handler[h].sets \/ sid'[handler[h].browser] = handler[h].sid
           \/ handler[h].browser \in lost'
  BY Distinct DEF Grown, Sound
<1>3. handler[h].step \in LoggingIn \ {"auth"} =>
          handler[h].customer \in customers' /\ handler[h].customer \in was'[handler[h].browser]
  BY DEF Grown, Sound, LoggingIn
<1>4. handler[h].step = "reply" => session'[handler[h].sid] # None
  BY DEF Grown, Sound
<1> QED  BY <1>1, <1>2, <1>3, <1>4 DEF Sound

\* If one handler moves, only its own record needs a look.
LEMMA OthersSound ==
    ASSUME HandlerInv, Grown, NEW h \in Handlers, Sound(handler[h])',
           \A g \in Handlers : g # h => handler'[g] = handler[g]
    PROVE  HandlerInv'
  BY SoundStill DEF HandlerInv

\* A handler that is done, or about to answer, needs little.
LEMMA FinishSound ==
    ASSUME HandlerInv, Grown, TypeOK, NEW h \in Handlers, handler[h].step # "idle",
           Finish(h) \/ Done(h)
    PROVE  HandlerInv'
<1>1. handler'[h] = Idle \/ handler'[h] = Answering(h)
  BY FinishIs, DoneIs
<1>2. \A g \in Handlers : g # h => handler'[g] = handler[g]
  BY FinishIs, DoneIs
<1>3. Sound(handler[h])'
  <2>1. CASE handler'[h] = Idle
    BY <2>1, IdleIs DEF Sound, LoggingIn
  <2>2. CASE handler'[h] = Answering(h)
    <3>1. /\ handler[h].browser \in Browsers /\ handler[h].sid \in Sessions
          /\ started[handler[h].sid] = handler[h].browser
      BY DEF HandlerInv, Sound
    <3>2. started'[handler[h].sid] = handler[h].browser
      BY <3>1, Distinct DEF Grown
    <3> QED  BY <2>2, <3>1, <3>2, AnsweringIs DEF Sound, LoggingIn
  <2> QED  BY <1>1, <2>1, <2>2
<1> QED  BY <1>2, <1>3, OthersSound

\* Sessions and cookies are untouched.
LEMMA SessionStill ==
    ASSUME SessionInv, TypeOK, Grown, UNCHANGED <<cookie, sid, started, session>>
    PROVE  SessionInv'
<1>1. ASSUME NEW s \in Sessions, session'[s] # None
      PROVE  /\ started'[s] \in Browsers /\ session'[s] \in customers'
             /\ session'[s] \in was'[started'[s]]
  BY <1>1 DEF SessionInv, Grown
<1>2. ASSUME NEW b \in Browsers, LoggedIn(b)'
      PROVE  /\ session'[LoginSession(b)'] # None /\ started'[LoginSession(b)'] = b
             /\ sid'[b] = LoginSession(b)' \/ b \in lost'
  BY <1>2 DEF SessionInv, Grown, LoggedIn, LoginSession
<1> QED  BY <1>1, <1>2 DEF SessionInv

\* An item that was asked for stays one that might be.
LEMMA AskedStill ==
    ASSUME Grown, NEW o \in Owners, NEW i, Asked(i, o)
    PROVE  Asked(i, o)'
<1>1. PICK b \in Browsers : i \in Wants[b] \cup {NoItem} /\ MayPut(b, o)
  BY DEF Asked
<1>2. MayPut(b, o)'
  BY <1>1, MayStill
<1> QED  BY <1>1, <1>2 DEF Asked

\* Carts that are asked for nothing and do not change stay in order.
LEMMA CartStill ==
    ASSUME CartInv, Grown, UNCHANGED cartVars
    PROVE  CartInv'
<1>1. \A o \in Owners : MayHold(o)' = MayHold(o)
  BY DEF MayHold, cartVars
<1>2. ASSUME NEW o \in Owners, NEW i \in asked'[o]
      PROVE  Asked(i, o)'
  <2>1. Asked(i, o)
    BY <1>2 DEF CartInv, cartVars
  <2> QED  BY <2>1, AskedStill
<1>3. ASSUME NEW c \in Customers, NEW s \in Sessions, <<c, s>> \in merged'
      PROVE  started'[s] \in Browsers /\ c \in was'[started'[s]]
  <2>1. started[s] \in Browsers /\ c \in was[started[s]]
    BY <1>3 DEF CartInv, cartVars
  <2> QED  BY <2>1, Distinct DEF Grown
<1>4. \A o \in Owners : contents'[o] \subseteq MayHold(o)'
  BY <1>1 DEF CartInv, cartVars
<1> QED  BY <1>2, <1>3, <1>4 DEF CartInv

\* Only a login empties the cart of its session.
LEMMA EmptiedIs ==
    ASSUME HandlerInv, NEW s \in Sessions, Emptied(s)
    PROVE  LogsInto(s)
  BY DEF HandlerInv, Sound, LoggingIn, Emptied, LogsInto

\* No add and no login comes up for a session, and nothing comes into its cart but
\* from an add that is under way.
LEMMA StrandStill ==
    ASSUME StrandInv, HandlerInv, strayed \subseteq strayed',
           \A s \in Sessions \ strayed' :
               /\ AddsTo(s)' => AddsTo(s)
               /\ LogsInto(s)' => LogsInto(s)
               /\ Emptied(s)' => Emptied(s)
               /\ Claimed(s)' => Claimed(s)
               /\ AddsTo(s) \/ contents'[s] \subseteq contents[s]
    PROVE  StrandInv'
<1> SUFFICES ASSUME NEW s \in Sessions \ strayed'
             PROVE  /\ AddsTo(s)' => ~LogsInto(s)' /\ ~Claimed(s)'
                    /\ Emptied(s)' \/ Claimed(s)' => contents'[s] = {}
  BY DEF StrandInv
<1> QED  BY EmptiedIs DEF StrandInv

\* What a turn of one handler may add to those that are under way.
LEMMA TurnStrand ==
    ASSUME StrandInv, HandlerInv, NEW h \in Handlers, UNCHANGED cookie, strayed \subseteq strayed',
           \A g \in Handlers : g # h => handler'[g] = handler[g],
           handler'[h].op = "add" => handler[h].op = "add" /\ handler'[h].owner = handler[h].owner,
           handler'[h].op \in Logins =>
               handler[h].op \in Logins /\ handler'[h].sid = handler[h].sid,
           handler'[h].step \in {"save", "saveOnly", "reply"} =>
               /\ handler[h].step \in {"save", "saveOnly", "reply"}
               /\ handler'[h].sid = handler[h].sid,
           \A s \in Sessions \ strayed' : AddsTo(s) \/ contents'[s] \subseteq contents[s]
    PROVE  StrandInv'
<1>1. ASSUME NEW s \in Sessions, AddsTo(s)' PROVE AddsTo(s)
  BY <1>1 DEF AddsTo
<1>2. ASSUME NEW s \in Sessions, LogsInto(s)' PROVE LogsInto(s)
  BY <1>2 DEF LogsInto
<1>3. ASSUME NEW s \in Sessions, Emptied(s)' PROVE Emptied(s)
  BY <1>3 DEF Emptied
<1>4. ASSUME NEW s \in Sessions, Claimed(s)' PROVE Claimed(s)
  BY <1>4 DEF Claimed, LoggedIn, LoginSession
<1> QED  BY <1>1, <1>2, <1>3, <1>4, StrandStill

\* A handler that is done, or about to answer, adds to nothing.
LEMMA FinishStrand ==
    ASSUME StrandInv, HandlerInv, TypeOK, NEW h \in Handlers, Finish(h) \/ Done(h),
           UNCHANGED cookie, strayed \subseteq strayed',
           \A s \in Sessions \ strayed' : AddsTo(s) \/ contents'[s] \subseteq contents[s]
    PROVE  StrandInv'
<1>1. handler'[h].op = "none" /\ handler'[h].step \in {"idle", "answer"}
  BY FinishIs, DoneIs, IdleIs, AnsweringIs
<1>2. \A g \in Handlers : g # h => handler'[g] = handler[g]
  BY FinishIs, DoneIs
<1> QED  BY <1>1, <1>2, TurnStrand DEF Logins

\* A failure is one of those that are left.
LEMMA FailsTyped ==
    ASSUME TypeOK, Fails \/ Works
    PROVE  faults' \in 0..MaxFaults
  BY FrontEndAssumption DEF TypeOK, Fails, Works

\* Nothing but the handlers moves, and the failures that are left.
LEMMA Settled ==
    ASSUME Inv, handler' \in [Handlers -> HandlerState], faults' \in 0..MaxFaults,
           ordered' \subseteq Browsers, HandlerInv', StrandInv', Grown,
           UNCHANGED <<browserVars, started, session, customers, cartVars, requests, was,
                       strayed>>
    PROVE  Inv'
<1>1. TypeOK'
  BY DEF Inv, TypeOK, browserVars, cartVars
<1>2. SessionInv'
  BY SessionStill DEF Inv, browserVars
<1>3. CartInv'
  BY CartStill DEF Inv
<1> QED  BY <1>1, <1>2, <1>3 DEF Inv

LEMMA NothingTaken ==
    ASSUME UNCHANGED <<sid, lost, started, session, customers, was>>
    PROVE  Grown
  BY DEF Grown

-----------------------------------------------------------------------------
(* The steps of the handlers *)

\* The calls that end a request in one step.
LEMMA FinishKeeps ==
    ASSUME Inv, NEW h \in Handlers, AuthenticateFails(h) \/ Ordered(h) \/ CallLost(h)
    PROVE  Inv'
<1>1. /\ UNCHANGED <<browserVars, started, session, customers, cartVars, requests, was, strayed>>
      /\ Finish(h) \/ Done(h)
      /\ faults' \in 0..MaxFaults
      /\ ordered' = ordered \/ ordered' = ordered \cup {handler[h].browser}
  BY FailsTyped DEF Inv, TypeOK, AuthenticateFails, Ordered, CallLost, counters
<1>2. handler[h].step # "idle"
  BY IdleIs DEF Inv, HandlerInv, Sound, AuthenticateFails, Ordered, CallLost, At, Idle
<1>3. handler[h].browser \in Browsers
  BY <1>2 DEF Inv, HandlerInv, Sound
<1>4. Grown
  BY <1>1, NothingTaken DEF browserVars
<1>5. HandlerInv'
  BY <1>1, <1>2, <1>4, FinishSound DEF Inv
<1>6. StrandInv'
  BY <1>1, FinishStrand DEF Inv, browserVars, cartVars
<1>7. handler' \in [Handlers -> HandlerState] /\ ordered' \subseteq Browsers
  BY <1>1, <1>3, FinishIs, DoneIs DEF Inv, TypeOK
<1> QED  BY <1>1, <1>4, <1>5, <1>6, <1>7, Settled

\* GET /catalogue/:id answers with the product, or with an error taken for one.
LEMMA LookUpKeeps ==
    ASSUME Inv, NEW h \in Handlers, LookUp(h)
    PROVE  Inv'
<1> DEFINE r == handler[h]  n == handler'[h]
<1>1. /\ UNCHANGED <<browserVars, started, session, customers, cartVars, ordered, requests, was,
                     strayed>>
      /\ r.step = "lookup" /\ TypeOK
  BY DEF LookUp, At, Inv
<1>2. faults' \in 0..MaxFaults
  BY FailsTyped DEF LookUp, Inv
<1>3. PICK item \in {r.item, NoItem} :
          Turn(h, [Advanced(h, "cart") EXCEPT !.item = item])
  <2>1. CASE GoOn(h, "cart")
    <3>1. Advanced(h, "cart") = [Advanced(h, "cart") EXCEPT !.item = r.item]
      BY <1>1, AdvancedIs DEF HandlerState, Steps
    <3> QED  BY <2>1, <3>1 DEF GoOn
  <2>2. CASE Turn(h, [Advanced(h, "cart") EXCEPT !.item = NoItem])
    BY <2>2
  <2> QED  BY <2>1, <2>2 DEF LookUp
<1>4. /\ n \in HandlerState /\ handler' \in [Handlers -> HandlerState]
      /\ n.step = "cart" /\ n.op = r.op /\ n.browser = r.browser /\ n.sid = r.sid
      /\ n.sets = r.sets /\ n.owner = r.owner /\ n.item = item
      /\ \A g \in Handlers : g # h => handler'[g] = handler[g]
  <2>1. Advanced(h, "cart") \in HandlerState
    BY <1>1, AdvancedIs DEF Steps
  <2>2. [Advanced(h, "cart") EXCEPT !.item = item] \in HandlerState
    BY <1>1, <2>1, Distinct DEF HandlerState, TypeOK
  <2>3. n = [Advanced(h, "cart") EXCEPT !.item = item]
    BY <1>1, <1>3, <2>2, TurnTyped
  <2> QED  BY <1>1, <1>3, <2>1, <2>2, <2>3, AdvancedIs, TurnTyped DEF HandlerState, Steps
<1>5. Grown
  BY <1>1, NothingTaken DEF browserVars
<1>6. Sound(handler[h])'
  <2>1. /\ Sound(r) /\ UNCHANGED <<sid, lost, started, was>>
    BY <1>1 DEF Inv, HandlerInv, browserVars
  <2>2. MayPut(r.browser, r.owner)'
    BY <1>1, <1>4, <2>1 DEF Sound, MayPut
  <2> QED  BY <1>1, <1>3, <1>4, <2>1, <2>2 DEF Sound, LoggingIn
<1>7. HandlerInv'
  BY <1>4, <1>5, <1>6, OthersSound DEF Inv
<1>8. StrandInv'
  BY <1>1, <1>4, TurnStrand DEF Inv, browserVars, cartVars
<1>9. ordered' \subseteq Browsers
  BY <1>1 DEF TypeOK
<1> QED  BY <1>1, <1>2, <1>4, <1>5, <1>7, <1>8, <1>9, Settled

\* The process ends; calls that are under way go on without their callers.
LEMMA CrashKeeps ==
    ASSUME Inv, NEW h \in Handlers, Crash(h)
    PROVE  Inv'
<1>1. /\ UNCHANGED <<browserVars, started, session, customers, cartVars, ordered, requests, was,
                     strayed>>
      /\ TypeOK
      /\ handler' = [g \in Handlers |->
           IF handler[g].step \in {"auth", "cart", "merge"} THEN [handler[g] EXCEPT !.alive = FALSE]
           ELSE Idle]
  BY DEF Crash, Inv
<1>2. faults' \in 0..MaxFaults
  BY FailsTyped DEF Crash, Inv
<1>3. ASSUME NEW g \in Handlers
      PROVE  /\ handler'[g] \in HandlerState
             /\ \/ handler'[g] = Idle
                \/ /\ handler'[g].step = handler[g].step /\ handler'[g].op = handler[g].op
                   /\ handler'[g].browser = handler[g].browser
                   /\ handler'[g].sid = handler[g].sid /\ handler'[g].sets = handler[g].sets
                   /\ handler'[g].owner = handler[g].owner /\ handler'[g].item = handler[g].item
                   /\ handler'[g].customer = handler[g].customer /\ handler[g].step # "idle"
  <2>1. CASE handler'[g] = Idle
    BY <2>1, IdleIs
  <2>2. CASE handler'[g] # Idle
    <3>1. handler'[g] = [handler[g] EXCEPT !.alive = FALSE] /\ handler[g].step # "idle"
      BY <1>1, <2>2
    <3>2. handler[g] \in HandlerState
      BY <1>1 DEF TypeOK
    <3> QED  BY <3>1, <3>2 DEF HandlerState
  <2> QED  BY <2>1, <2>2
<1>4. handler' \in [Handlers -> HandlerState]
  BY <1>1, <1>3
<1>5. Grown
  BY <1>1, NothingTaken DEF browserVars
<1>6. ASSUME NEW g \in Handlers PROVE Sound(handler[g])'
  <2>1. CASE handler'[g] = Idle
    BY <2>1, IdleIs DEF Sound, LoggingIn
  <2>2. CASE handler'[g] # Idle
    <3>1. Sound(handler[g]) /\ UNCHANGED <<sid, lost, started, session, customers, was>>
      BY <1>1 DEF Inv, HandlerInv, browserVars
    <3>2. /\ handler'[g].step = handler[g].step /\ handler'[g].op = handler[g].op
          /\ handler'[g].browser = handler[g].browser
          /\ handler'[g].sid = handler[g].sid /\ handler'[g].sets = handler[g].sets
          /\ handler'[g].owner = handler[g].owner /\ handler'[g].item = handler[g].item
          /\ handler'[g].customer = handler[g].customer /\ handler[g].step # "idle"
      BY <1>3, <2>2
    <3>3. handler[g].step \in {"lookup", "cart", "order"} =>
              MayPut(handler[g].browser, handler[g].owner)'
      BY <3>1, <3>2 DEF Sound, MayPut
    <3> QED  BY <3>1, <3>2, <3>3 DEF Sound
  <2> QED  BY <2>1, <2>2
<1>7. HandlerInv'
  BY <1>6 DEF HandlerInv
<1>8. StrandInv'
  <2>1. ASSUME NEW s \in Sessions, AddsTo(s)' PROVE AddsTo(s)
    BY <1>3, <2>1, IdleIs DEF AddsTo
  <2>2. ASSUME NEW s \in Sessions, LogsInto(s)' PROVE LogsInto(s)
    BY <1>3, <2>2, IdleIs DEF LogsInto, Logins
  <2>3. ASSUME NEW s \in Sessions, Emptied(s)' PROVE Emptied(s)
    BY <1>3, <2>3, IdleIs DEF Emptied
  <2>4. ASSUME NEW s \in Sessions, Claimed(s)' PROVE Claimed(s)
    BY <1>1, <2>4 DEF Claimed, LoggedIn, LoginSession, browserVars
  <2>5. UNCHANGED <<contents, strayed>>
    BY <1>1 DEF cartVars
  <2> QED  BY <2>1, <2>2, <2>3, <2>4, <2>5, StrandStill DEF Inv
<1>9. ordered' \subseteq Browsers
  BY <1>1 DEF TypeOK
<1> QED  BY <1>1, <1>2, <1>4, <1>5, <1>7, <1>8, <1>9, Settled

\* Only items may be held.
LEMMA HoldsItems ==
    ASSUME TypeOK, NEW o \in Owners
    PROVE  MayHold(o) \subseteq Items
<1>1. \A p \in Owners : asked[p] \subseteq Items
  BY DEF TypeOK
<1>2. \A s \in Sessions : asked[s] \subseteq Items
  BY <1>1, Distinct
<1>3. ASSUME NEW i \in MayHold(o) PROVE i \in Items
  <2>1. i \in asked[o] \/ \E s \in Sessions : i \in asked[s]
    BY <1>3 DEF MayHold
  <2> QED  BY <1>1, <1>2, <2>1
<1> QED  BY <1>3

\* What may be held grows with what is asked for.
LEMMA HoldMore ==
    ASSUME NEW o \in Owners,
           \A p \in Owners : asked[p] \subseteq asked'[p], merged \subseteq merged'
    PROVE  MayHold(o) \subseteq MayHold(o)'
  BY Distinct DEF MayHold

\* The carts are asked to add an item that the browser wants, to an owner it may put
\* it to; what they do changes the cart of that owner.
LEMMA CallCartsKeeps ==
    ASSUME Inv, NEW h \in Handlers, CallCarts(h)
    PROVE  Inv'
<1> DEFINE b == handler[h].browser  o == handler[h].owner  i == handler[h].item
<1>1. /\ UNCHANGED <<browserVars, started, session, customers, merged, ordered, requests, was,
                     strayed>>
      /\ TypeOK /\ handler[h].step = "cart" /\ Finish(h)
      /\ asked' = IF handler[h].op # "add" THEN asked ELSE [asked EXCEPT ![o] = @ \cup {i}]
  BY DEF CallCarts, Inv
<1>2. CartChange(h) \/ UNCHANGED contents
  BY DEF CallCarts
<1>3. /\ b \in Browsers /\ o \in Owners /\ MayPut(b, o)
      /\ handler[h].op = "add" => i \in Wants[b] \cup {NoItem}
  BY <1>1 DEF Inv, HandlerInv, Sound
<1>4. handler[h].op = "add" => i \in Items
  BY <1>3, Distinct
<1>5. faults' \in 0..MaxFaults
  BY FailsTyped DEF CallCarts, Inv
<1>6. Grown
  BY <1>1, NothingTaken DEF browserVars
<1>7. /\ contents' \in [Owners -> SUBSET Items]
      /\ \A p \in Owners : p # o => contents'[p] = contents[p]
      /\ contents'[o] \subseteq IF handler[h].op = "add" THEN contents[o] \cup {i}
                                ELSE contents[o]
  BY <1>1, <1>2, <1>3, <1>4 DEF CartChange, TypeOK
<1>8. /\ asked' \in [Owners -> SUBSET Items]
      /\ \A p \in Owners : asked[p] \subseteq asked'[p]
      /\ handler[h].op = "add" => i \in asked'[o]
      /\ \A p \in Owners : asked'[p] \subseteq asked[p] \/ (p = o /\ handler[h].op = "add"
                                                        /\ asked'[p] \subseteq asked[p] \cup {i})
  BY <1>1, <1>3, <1>4 DEF TypeOK
<1>9. TypeOK'
  BY <1>1, <1>5, <1>7, <1>8, FinishIs DEF TypeOK, browserVars
<1>10. CartInv'
  <2>1. ASSUME NEW p \in Owners PROVE contents'[p] \subseteq MayHold(p)'
    <3>1. MayHold(p) \subseteq MayHold(p)'
      BY <1>1, <1>8, HoldMore
    <3>2. contents[p] \subseteq MayHold(p)
      BY DEF Inv, CartInv
    <3>3. p = o /\ handler[h].op = "add" => i \in MayHold(p)'
      BY <1>8 DEF MayHold
    <3> QED  BY <1>7, <3>1, <3>2, <3>3
  <2>2. ASSUME NEW p \in Owners, NEW j \in asked'[p] PROVE Asked(j, p)'
    <3>1. Asked(j, p)
      <4>1. CASE j \in asked[p]
        BY <4>1 DEF Inv, CartInv
      <4>2. CASE p = o /\ handler[h].op = "add" /\ j = i
        BY <1>3, <4>2 DEF Asked
      <4> QED  BY <1>8, <2>2, <4>1, <4>2
    <3> QED  BY <1>6, <3>1, AskedStill
  <2>3. \A c \in Customers : \A s \in Sessions :
            <<c, s>> \in merged' => started'[s] \in Browsers /\ c \in was'[started'[s]]
    BY <1>1 DEF Inv, CartInv
  <2> QED  BY <2>1, <2>2, <2>3 DEF CartInv
<1>11. SessionInv'
  BY <1>1, <1>6, SessionStill DEF Inv, browserVars
<1>12. HandlerInv'
  BY <1>1, <1>6, FinishSound DEF Inv
<1>13. StrandInv'
  <2>1. ASSUME NEW s \in Sessions PROVE AddsTo(s) \/ contents'[s] \subseteq contents[s]
    <3>1. CASE s = o /\ handler[h].op = "add"
      BY <3>1 DEF AddsTo
    <3>2. CASE ~(s = o /\ handler[h].op = "add")
      BY <1>7, <3>2, Distinct
    <3> QED  BY <3>1, <3>2
  <2> QED  BY <1>1, <2>1, FinishStrand DEF Inv, browserVars
<1> QED  BY <1>9, <1>10, <1>11, <1>12, <1>13 DEF Inv

\* Whatever was asked for may be in the carts of an owner, if the session has strayed.
LEMMA DisorderKeeps ==
    ASSUME Inv, NEW o \in Owners, Disorder(o)
    PROVE  Inv'
<1>1. /\ UNCHANGED <<browserVars, started, session, customers, asked, merged, handler, ordered,
                     requests, was>>
      /\ strayed' = strayed \cup ({o} \cap Sessions) /\ TypeOK
  BY DEF Disorder, Inv
<1>2. PICK left \in SUBSET MayHold(o) : contents' = [contents EXCEPT ![o] = left]
  BY DEF Disorder
<1>3. faults' \in 0..MaxFaults
  BY FailsTyped DEF Disorder, Inv
<1>4. MayHold(o) \subseteq Items
  BY <1>1, HoldsItems
<1>5. /\ contents' \in [Owners -> SUBSET Items] /\ contents'[o] = left
      /\ \A p \in Owners : p # o => contents'[p] = contents[p]
  BY <1>1, <1>2, <1>4 DEF TypeOK
<1>6. TypeOK'
  BY <1>1, <1>3, <1>5 DEF TypeOK, browserVars
<1>7. Grown
  BY <1>1, NothingTaken DEF browserVars
<1>8. CartInv'
  <2>1. \A p \in Owners : MayHold(p)' = MayHold(p)
    BY <1>1 DEF MayHold
  <2>2. \A p \in Owners : contents'[p] \subseteq MayHold(p)'
    BY <1>2, <1>5, <2>1 DEF Inv, CartInv
  <2>3. ASSUME NEW p \in Owners, NEW i \in asked'[p] PROVE Asked(i, p)'
    BY <1>1, <1>7, <2>3, AskedStill DEF Inv, CartInv
  <2>4. \A c \in Customers : \A s \in Sessions :
            <<c, s>> \in merged' => started'[s] \in Browsers /\ c \in was'[started'[s]]
    BY <1>1 DEF Inv, CartInv
  <2> QED  BY <2>2, <2>3, <2>4 DEF CartInv
<1>9. SessionInv'
  BY <1>1, <1>7, SessionStill DEF Inv, browserVars
<1>10. HandlerInv'
  BY <1>1, <1>7, SoundStill DEF Inv, HandlerInv
<1>11. StrandInv'
  <2>1. ASSUME NEW s \in Sessions \ strayed'
        PROVE  /\ AddsTo(s)' = AddsTo(s) /\ LogsInto(s)' = LogsInto(s)
               /\ Emptied(s)' = Emptied(s) /\ Claimed(s)' = Claimed(s)
               /\ contents'[s] = contents[s]
    BY <1>1, <1>5, Distinct
    DEF AddsTo, LogsInto, Emptied, Claimed, LoggedIn, LoginSession, browserVars
  <2> QED  BY <1>1, <2>1, StrandStill DEF Inv
<1> QED  BY <1>6, <1>8, <1>9, <1>10, <1>11 DEF Inv

\* A login goes on when the user service knows the customer; a registration has made
\* it known.  Either notes whom the browser has become.
LEMMA AuthenticateKeeps ==
    ASSUME Inv, NEW h \in Handlers, Authenticate(h)
    PROVE  Inv'
<1> DEFINE b == handler[h].browser  c == handler[h].customer
           known == IF handler[h].op = "login" THEN c \in customers ELSE c \notin customers
<1>1. /\ UNCHANGED <<browserVars, started, session, cartVars, ordered, requests, strayed>>
      /\ TypeOK /\ handler[h].step = "auth"
      /\ customers' = IF known THEN customers \cup {c} ELSE customers
      /\ \/ known /\ GoOn(h, "merge") /\ was' = [was EXCEPT ![b] = @ \cup {c}]
         \/ Finish(h) /\ UNCHANGED was
  BY DEF Authenticate, Inv
<1>2. /\ Sound(handler[h]) /\ b \in Browsers /\ c \in Customers /\ handler[h].op \in Logins
      /\ handler[h].sid \in Sessions
  BY <1>1 DEF Inv, HandlerInv, Sound, LoggingIn
<1>3. faults' \in 0..MaxFaults
  BY FailsTyped DEF Authenticate, Inv
<1>4. /\ customers \subseteq customers' /\ customers' \subseteq Customers
      /\ known => c \in customers'
  BY <1>1, <1>2 DEF TypeOK
<1>5. /\ was' \in [Browsers -> SUBSET Customers]
      /\ \A d \in Browsers : was[d] \subseteq was'[d]
  BY <1>1, <1>2 DEF TypeOK
<1>6. Grown
  BY <1>1, <1>4, <1>5 DEF Grown, browserVars
<1>7. handler' \in [Handlers -> HandlerState]
  BY <1>1, FinishIs, GoOnIs DEF Steps
<1>8. TypeOK'
  BY <1>1, <1>3, <1>4, <1>5, <1>7 DEF TypeOK, browserVars, cartVars
<1>9. SessionInv' /\ CartInv'
  BY <1>1, <1>6, SessionStill, CartStill DEF Inv, browserVars
<1>10. HandlerInv' /\ StrandInv'
  <2>1. CASE Finish(h)
    BY <1>1, <1>6, <2>1, FinishSound, FinishStrand DEF Inv, browserVars, cartVars
  <2>2. CASE known /\ GoOn(h, "merge") /\ was' = [was EXCEPT ![b] = @ \cup {c}]
    <3> DEFINE n == handler'[h]
    <3>1. /\ \A g \in Handlers : g # h => handler'[g] = handler[g]
          /\ n.step = "merge" /\ n.op = handler[h].op /\ n.browser = b /\ n.customer = c
          /\ n.sid = handler[h].sid /\ n.sets = handler[h].sets
      BY <1>1, <2>2, GoOnIs, AdvancedIs DEF Steps
    <3>2. c \in was'[b]
      BY <1>1, <1>2, <2>2 DEF TypeOK
    <3>3. n.op # "add"
      BY <1>2, <3>1 DEF Logins
    <3>4. Sound(handler[h])'
      BY <1>1, <1>2, <1>4, <2>2, <3>1, <3>2, <3>3 DEF Sound, LoggingIn, browserVars
    <3>5. HandlerInv'
      BY <1>6, <3>1, <3>4, OthersSound DEF Inv
    <3>6. StrandInv'
      BY <1>1, <3>1, <3>3, TurnStrand DEF Inv, browserVars, cartVars
    <3> QED  BY <3>5, <3>6
  <2> QED  BY <1>1, <2>1, <2>2
<1> QED  BY <1>8, <1>9, <1>10 DEF Inv

\* The cart of a customer may take what is in the cart of a session whose browser has
\* logged in as that customer.
LEMMA MovesKeep ==
    ASSUME Inv, NEW c \in Customers, NEW s \in Sessions,
           started[s] \in Browsers, c \in was[started[s]],
           contents'[s] \subseteq contents[s], contents'[c] \subseteq contents[c] \cup contents[s],
           \A p \in Owners : p \notin {c, s} => contents'[p] = contents[p],
           merged' = merged \cup {<<c, s>>}, UNCHANGED <<asked, started, was, lost>>
    PROVE  CartInv'
<1>1. /\ TypeOK /\ s \in Owners /\ c \in Owners /\ c # s
  BY Distinct DEF Inv
<1>2. contents[s] \subseteq asked[s]
  <2>1. \A r \in Sessions : <<s, r>> \notin merged
    BY <1>1, Distinct DEF TypeOK
  <2>2. MayHold(s) = asked[s]
    BY <2>1 DEF MayHold
  <2> QED  BY <1>1, <2>2 DEF Inv, CartInv
<1>3. ASSUME NEW o \in Owners PROVE contents'[o] \subseteq MayHold(o)'
  <2>1. MayHold(o) \subseteq MayHold(o)' /\ contents[o] \subseteq MayHold(o)
    BY HoldMore DEF Inv, CartInv
  <2>2. CASE o = c
    <3>1. asked[s] \subseteq MayHold(o)'
      BY <2>2 DEF MayHold
    <3> QED  BY <1>2, <2>1, <2>2, <3>1
  <2>3. CASE o # c
    BY <2>1, <2>3
  <2> QED  BY <2>2, <2>3
<1>4. ASSUME NEW o \in Owners, NEW i \in asked'[o] PROVE Asked(i, o)'
  <2>1. Asked(i, o)
    BY <1>4 DEF Inv, CartInv
  <2> QED  BY <2>1 DEF Asked, MayPut
<1>5. \A d \in Customers : \A r \in Sessions :
          <<d, r>> \in merged' => started'[r] \in Browsers /\ d \in was'[started'[r]]
  BY DEF Inv, CartInv
<1> QED  BY <1>3, <1>4, <1>5 DEF CartInv

\* The handler of a login goes on to a step after its merge, or is gone.
LEMMA GoOnSound ==
    ASSUME Inv, Grown, NEW h \in Handlers, handler[h].step \in {"merge", "save"},
           NEW step \in {"save", "saveOnly", "reply"}, GoOn(h, step),
           step = "reply" => session'[handler[h].sid] # None
    PROVE  /\ handler' \in [Handlers -> HandlerState] /\ HandlerInv'
           /\ handler'[h].step = step
           /\ handler'[h].op = handler[h].op /\ handler'[h].sid = handler[h].sid
           /\ handler[h].op \in Logins /\ handler[h].sid \in Sessions
           /\ \A g \in Handlers : g # h => handler'[g] = handler[g]
<1> DEFINE n == handler'[h]
<1>1. /\ handler' \in [Handlers -> HandlerState]
      /\ \A g \in Handlers : g # h => handler'[g] = handler[g]
      /\ n.step = step /\ n.op = handler[h].op /\ n.browser = handler[h].browser
      /\ n.customer = handler[h].customer
      /\ n.sid = handler[h].sid /\ n.sets = handler[h].sets
  BY GoOnIs, AdvancedIs DEF Steps, Inv
<1>2. /\ handler[h].op \in Logins /\ handler[h].sid \in Sessions
      /\ handler[h].browser \in Browsers /\ handler[h].customer \in Customers
      /\ handler[h].customer \in customers /\ handler[h].customer \in was[handler[h].browser]
      /\ started[handler[h].sid] = handler[h].browser
      /\ \/ handler[h].sets \/ sid[handler[h].browser] = handler[h].sid
         \/ handler[h].browser \in lost
  BY DEF Inv, HandlerInv, Sound, LoggingIn
<1>3. Sound(handler[h])'
  <2>1. n.op # "add" /\ n.op \in Logins
    BY <1>1, <1>2 DEF Logins
  <2>2. /\ n.customer \in customers' /\ n.customer \in was'[n.browser]
        /\ started'[n.sid] = n.browser
        /\ n.sets \/ sid'[n.browser] = n.sid \/ n.browser \in lost'
    BY <1>1, <1>2, Distinct DEF Grown
  <2> QED  BY <1>1, <1>2, <2>1, <2>2 DEF Sound, LoggingIn
<1> QED  BY <1>1, <1>2, <1>3, OthersSound DEF Inv

\* The cart of the session goes to the customer, or what of it has moved does.
LEMMA MergeKeeps ==
    ASSUME Inv, NEW h \in Handlers, Merge(h) \/ MergeFails(h)
    PROVE  Inv'
<1> DEFINE c == handler[h].customer  s == handler[h].sid
<1>1. /\ UNCHANGED <<browserVars, started, session, customers, asked, ordered, requests, was>>
      /\ TypeOK /\ handler[h].step = "merge"
      /\ merged' = merged \cup {<<c, s>>}
      /\ \/ Moves(c, s, contents[s], {}) /\ strayed' \in {strayed, strayed \cup {s}}
         \/ /\ strayed' = strayed \cup {s}
            /\ \E moving \in SUBSET contents[s] : Moves(c, s, moving, contents[s])
      /\ Done(h) \/ GoOn(h, "save") \/ GoOn(h, "saveOnly")
  <2>1. CASE Merge(h)
    BY <2>1 DEF Merge, AfterMerge, Inv, counters
  <2>2. CASE MergeFails(h)
    BY <2>2 DEF MergeFails, AfterMerge, Inv
  <2> QED  BY <2>1, <2>2
<1>2. /\ c \in Customers /\ s \in Sessions /\ started[s] \in Browsers
      /\ c \in was[started[s]]
  BY <1>1 DEF Inv, HandlerInv, Sound, LoggingIn
<1>3. faults' \in 0..MaxFaults
  BY FailsTyped DEF Merge, MergeFails, Inv, counters, Works
<1>4. /\ contents' \in [Owners -> SUBSET Items] /\ merged' \subseteq Customers \X Sessions
      /\ CartInv'
      /\ contents'[s] = {} \/ s \in strayed'
      /\ \A r \in Sessions : contents'[r] \subseteq contents[r]
  <2>1. PICK moving \in SUBSET contents[s], left \in SUBSET contents[s] :
            Moves(c, s, moving, left) /\ (left = {} \/ s \in strayed')
    BY <1>1
  <2>2. UNCHANGED <<asked, started, was, lost>>
    BY <1>1 DEF browserVars
  <2>3. /\ c \in Owners /\ s \in Owners /\ c # s
    BY <1>2, Distinct
  <2>4. /\ contents' \in [Owners -> SUBSET Items]
        /\ contents'[s] = left /\ contents'[c] = contents[c] \cup moving
        /\ \A p \in Owners : p \notin {c, s} => contents'[p] = contents[p]
    BY <1>1, <2>1, <2>3 DEF Moves, TypeOK
  <2>5. \A r \in Sessions : contents'[r] \subseteq contents[r]
    BY <1>2, <2>4, Distinct
  <2>6. merged' \subseteq Customers \X Sessions
    BY <1>1, <1>2 DEF TypeOK
  <2>7. CartInv'
    BY <1>1, <1>2, <2>2, <2>4, MovesKeep
  <2> QED  BY <2>1, <2>4, <2>5, <2>6, <2>7
<1>5. Grown
  BY <1>1, NothingTaken DEF browserVars
<1>6. SessionInv'
  BY <1>1, <1>5, SessionStill DEF Inv, browserVars
<1>7. /\ handler' \in [Handlers -> HandlerState] /\ HandlerInv'
      /\ \A g \in Handlers : g # h => handler'[g] = handler[g]
      /\ \/ handler'[h] = Idle
         \/ /\ handler'[h].op \in Logins /\ handler[h].op \in Logins
            /\ handler'[h].sid = s
  <2>1. CASE Done(h)
    BY <1>1, <1>5, <2>1, DoneIs, FinishSound DEF Inv
  <2>2. CASE GoOn(h, "save") \/ GoOn(h, "saveOnly")
    BY <1>1, <1>5, <2>2, GoOnSound
  <2> QED  BY <1>1, <2>1, <2>2
<1>8. strayed \subseteq strayed' /\ strayed' \subseteq Sessions
  BY <1>1, <1>2 DEF TypeOK
<1>9. TypeOK'
  BY <1>1, <1>3, <1>4, <1>7, <1>8 DEF TypeOK, browserVars
<1>10. StrandInv'
  <2> SUFFICES ASSUME NEW r \in Sessions, r \notin strayed'
               PROVE  /\ AddsTo(r)' => ~LogsInto(r)' /\ ~Claimed(r)'
                      /\ Emptied(r)' \/ Claimed(r)' => contents'[r] = {}
    BY DEF StrandInv
  <2>1. /\ AddsTo(r) => ~LogsInto(r) /\ ~Claimed(r)
        /\ Emptied(r) \/ Claimed(r) => contents[r] = {}
    BY <1>8 DEF Inv, StrandInv
  <2>2. AddsTo(r)' => AddsTo(r)
    BY <1>7, IdleIs DEF AddsTo, Logins
  <2>3. LogsInto(r)' => LogsInto(r)
    BY <1>7, IdleIs DEF LogsInto, Logins
  <2>4. Claimed(r)' => Claimed(r)
    BY <1>1 DEF Claimed, LoggedIn, LoginSession, browserVars
  <2>5. Emptied(r)' => Emptied(r) \/ r = s
    BY <1>7, IdleIs DEF Emptied
  <2> QED  BY <1>4, <2>1, <2>2, <2>3, <2>4, <2>5
<1> QED  BY <1>4, <1>6, <1>7, <1>9, <1>10 DEF Inv

\* The session gets its customer before the answer is sent.
LEMMA SaveSessionKeeps ==
    ASSUME Inv, NEW h \in Handlers, SaveSession(h)
    PROVE  Inv'
<1> DEFINE c == handler[h].customer  s == handler[h].sid
<1>1. /\ UNCHANGED <<browserVars, started, customers, cartVars, ordered, requests, faults, was,
                     strayed>>
      /\ TypeOK /\ handler[h].step \in {"save", "saveOnly"}
      /\ session' = [session EXCEPT ![s] = c]
      /\ Finish(h) \/ (handler[h].step = "save" /\ GoOn(h, "reply"))
  BY DEF SaveSession, At, counters, Inv
<1>2. /\ s \in Sessions /\ c \in customers /\ c \in Customers /\ c # None
      /\ started[s] \in Browsers /\ c \in was[started[s]]
  BY <1>1, Distinct DEF Inv, HandlerInv, Sound, LoggingIn
<1>3. /\ session' \in [Sessions -> Customers \cup {None}] /\ session'[s] = c
      /\ \A r \in Sessions : r # s => session'[r] = session[r]
  BY <1>1, <1>2 DEF TypeOK
<1>4. Grown
  BY <1>1, <1>2, <1>3 DEF Grown, browserVars
<1>5. SessionInv'
  <2>1. ASSUME NEW r \in Sessions, session'[r] # None
        PROVE  /\ started'[r] \in Browsers /\ session'[r] \in customers'
               /\ session'[r] \in was'[started'[r]]
    BY <1>1, <1>2, <1>3, <2>1 DEF Inv, SessionInv
  <2>2. ASSUME NEW b \in Browsers, LoggedIn(b)'
        PROVE  /\ session'[LoginSession(b)'] # None /\ started'[LoginSession(b)'] = b
               /\ sid'[b] = LoginSession(b)' \/ b \in lost'
    <3>1. /\ LoginSession(b)' = LoginSession(b) /\ LoggedIn(b)
      BY <1>1, <2>2 DEF LoginSession, LoggedIn, browserVars
    <3>2. LoginSession(b) \in Sessions
      BY <1>1, <3>1, JarIs DEF LoginSession, LoggedIn, TypeOK
    <3> QED  BY <1>1, <1>2, <1>3, <3>1, <3>2 DEF Inv, SessionInv, browserVars
  <2> QED  BY <1>1, <2>1, <2>2 DEF Inv, SessionInv, browserVars
<1>6. CartInv'
  BY <1>1, <1>4, CartStill DEF Inv
<1>7. handler' \in [Handlers -> HandlerState] /\ HandlerInv' /\ StrandInv'
  <2>1. CASE Finish(h)
    BY <1>1, <1>4, <2>1, FinishIs, FinishSound, FinishStrand DEF Inv, browserVars, cartVars
  <2>2. CASE handler[h].step = "save" /\ GoOn(h, "reply")
    <3>1. /\ handler' \in [Handlers -> HandlerState] /\ HandlerInv'
          /\ handler'[h].op = handler[h].op /\ handler'[h].sid = s /\ handler[h].op \in Logins
          /\ \A g \in Handlers : g # h => handler'[g] = handler[g]
      BY <1>2, <1>3, <1>4, <2>2, GoOnSound
    <3>2. handler'[h].op # "add"
      BY <3>1 DEF Logins
    <3> QED  BY <1>1, <2>2, <3>1, <3>2, TurnStrand DEF Inv, browserVars, cartVars
  <2> QED  BY <1>1, <2>1, <2>2
<1>8. TypeOK'
  BY <1>1, <1>3, <1>7 DEF TypeOK, browserVars, cartVars
<1> QED  BY <1>5, <1>6, <1>7, <1>8 DEF Inv

\* A response takes its session to the browser, if it names one; the response to a
\* login brings "logged_in" too, when the session has its customer.
LEMMA ReplyKeeps ==
    ASSUME Inv, NEW h \in Handlers, Reply(h) \/ Answer(h)
    PROVE  Inv'
<1> DEFINE b == handler[h].browser  s == handler[h].sid
<1>1. /\ UNCHANGED <<started, session, customers, cartVars, ordered, requests, was, strayed>>
      /\ TypeOK /\ handler[h].step \in {"reply", "answer"} /\ Done(h)
      /\ \/ /\ handler[h].step = "reply" /\ SetSession(h)
            /\ cookie' = [cookie EXCEPT ![b] = Write(@, "logged_in", s, FALSE)]
         \/ SetSession(h) /\ UNCHANGED cookie
         \/ UNCHANGED browserVars
  BY DEF Reply, Answer, At, Inv
<1>2. /\ b \in Browsers /\ s \in Sessions /\ started[s] = b
      /\ handler[h].sets \/ sid[b] = s \/ b \in lost
      /\ handler[h].step = "reply" => session[s] # None /\ handler[h].op \in Logins
  BY <1>1 DEF Inv, HandlerInv, Sound, LoggingIn
<1>3. faults' \in 0..MaxFaults
  BY FailsTyped DEF Reply, Answer, Inv
<1>4. /\ sid' \in [Browsers -> Sessions \cup {None}] /\ lost \subseteq lost'
      /\ lost' \subseteq Browsers
      /\ \A d \in Browsers : sid'[d] = sid[d] \/ (d = b /\ sid'[d] = s)
      /\ sid[b] = None \/ sid'[b] = sid[b] \/ b \in lost'
      /\ SetSession(h) => sid'[b] = s \/ b \in lost'
  <2>0. sid \in [Browsers -> Sessions \cup {None}] /\ lost \subseteq Browsers
    BY <1>1 DEF TypeOK
  <2>1. CASE SetSession(h) /\ handler[h].sets
    <3>1. /\ sid' = [sid EXCEPT ![b] = s]
          /\ lost' = IF sid[b] = None THEN lost ELSE lost \cup {b}
      BY <2>1 DEF SetSession
    <3> HIDE DEF b, s
    <3>2. b \in Browsers /\ s \in Sessions
      BY <1>2
    <3> QED  BY <2>0, <3>1, <3>2
  <2>2. CASE UNCHANGED <<sid, lost>> /\ (SetSession(h) => ~handler[h].sets)
    <3>1. SetSession(h) => sid[b] = s \/ b \in lost
      BY <1>2, <2>2
    <3> HIDE DEF b, s
    <3> QED  BY <2>0, <2>2, <3>1
  <2>3. \/ SetSession(h) /\ handler[h].sets
        \/ UNCHANGED <<sid, lost>> /\ (SetSession(h) => ~handler[h].sets)
    BY <1>1 DEF SetSession, browserVars
  <2> QED  BY <2>1, <2>2, <2>3
<1>5. /\ cookie' \in [Browsers -> Jars]
      /\ \A d \in Browsers : cookie'[d] = cookie[d]
             \/ (d = b /\ handler[h].step = "reply" /\ SetSession(h)
                   /\ Read(cookie'[d], "logged_in") = s)
  <2>1. /\ Write(cookie[b], "logged_in", s, FALSE) \in Jars
        /\ Read(Write(cookie[b], "logged_in", s, FALSE), "logged_in") = s
    BY <1>1, <1>2, JarIs DEF TypeOK
  <2> QED  BY <1>1, <1>2, <2>1 DEF TypeOK, browserVars
<1>6. Grown
  BY <1>1, <1>4 DEF Grown
<1>7. handler' \in [Handlers -> HandlerState] /\ handler'[h] = Idle
      /\ \A g \in Handlers : g # h => handler'[g] = handler[g]
  BY <1>1, DoneIs
<1>8. TypeOK'
  BY <1>1, <1>3, <1>4, <1>5, <1>7 DEF TypeOK, cartVars
<1>9. SessionInv'
  <2>1. ASSUME NEW d \in Browsers, sid'[d] # None PROVE started'[sid'[d]] = d
    BY <1>1, <1>2, <1>4, <2>1 DEF Inv, SessionInv
  <2>2. ASSUME NEW d \in Browsers, LoggedIn(d)'
        PROVE  /\ session'[LoginSession(d)'] # None /\ started'[LoginSession(d)'] = d
               /\ sid'[d] = LoginSession(d)' \/ d \in lost'
    <3>1. CASE cookie'[d] = cookie[d]
      <4>1. /\ LoginSession(d)' = LoginSession(d) /\ LoggedIn(d)
        BY <2>2, <3>1 DEF LoginSession, LoggedIn
      <4>2. LoginSession(d) \in Sessions
        BY <1>1, <4>1, JarIs DEF LoginSession, LoggedIn, TypeOK
      <4>3. /\ session[LoginSession(d)] # None /\ started[LoginSession(d)] = d
            /\ sid[d] = LoginSession(d) \/ d \in lost
        BY <4>1 DEF Inv, SessionInv
      <4> QED  BY <1>1, <1>6, <4>1, <4>2, <4>3, Distinct DEF Grown
    <3>2. CASE d = b /\ handler[h].step = "reply" /\ SetSession(h)
               /\ Read(cookie'[d], "logged_in") = s
      BY <1>1, <1>2, <1>4, <3>2 DEF LoginSession
    <3> QED  BY <1>5, <3>1, <3>2
  <2> QED  BY <1>1, <2>1, <2>2 DEF Inv, SessionInv
<1>10. CartInv'
  BY <1>1, <1>6, CartStill DEF Inv
<1>11. HandlerInv'
  BY <1>1, <1>6, FinishSound DEF Inv
<1>12. StrandInv'
  <2> SUFFICES ASSUME NEW r \in Sessions, r \notin strayed'
               PROVE  /\ AddsTo(r)' => ~LogsInto(r)' /\ ~Claimed(r)'
                      /\ Emptied(r)' \/ Claimed(r)' => contents'[r] = {}
    BY DEF StrandInv
  <2>1. /\ AddsTo(r) => ~LogsInto(r) /\ ~Claimed(r)
        /\ Emptied(r) \/ Claimed(r) => contents[r] = {}
        /\ contents'[r] = contents[r]
    BY <1>1 DEF Inv, StrandInv, cartVars
  <2>2. AddsTo(r)' => AddsTo(r)
    BY <1>7, IdleIs DEF AddsTo
  <2>3. LogsInto(r)' => LogsInto(r)
    BY <1>7, IdleIs DEF LogsInto, Logins
  <2>4. Emptied(r)' => Emptied(r)
    BY <1>7, IdleIs DEF Emptied
  <2>5. Claimed(r)' => Claimed(r) \/ (Emptied(r) /\ LogsInto(r))
    <3>1. ASSUME NEW d \in Browsers, LoggedIn(d)', LoginSession(d)' = r
          PROVE  Claimed(r) \/ (Emptied(r) /\ LogsInto(r))
      <4>1. CASE cookie'[d] = cookie[d]
        BY <3>1, <4>1 DEF Claimed, LoggedIn, LoginSession
      <4>2. CASE d = b /\ handler[h].step = "reply" /\ Read(cookie'[d], "logged_in") = s
        BY <1>2, <3>1, <4>2 DEF Emptied, LogsInto, LoginSession
      <4> QED  BY <1>5, <4>1, <4>2
    <3> QED  BY <3>1 DEF Claimed
  <2> QED  BY <2>1, <2>2, <2>3, <2>4, <2>5
<1> QED  BY <1>8, <1>9, <1>10, <1>11, <1>12 DEF Inv

-----------------------------------------------------------------------------
(* The browsers, and the requests they send *)

\* "logged_in" goes: the browser claims no session any more.
LEMMA CookieGoesKeeps ==
    ASSUME Inv, NEW b \in Browsers, Logout(b) \/ Expire(b)
    PROVE  Inv'
<1>1. /\ UNCHANGED <<sid, lost, started, session, customers, cartVars, handler, ordered, requests,
                     faults, was, strayed>>
      /\ TypeOK /\ cookie' = [cookie EXCEPT ![b] = NoCookies]
  BY JarIs DEF Logout, Expire, Inv, TypeOK, counters
<1>2. /\ cookie' \in [Browsers -> Jars]
      /\ \A d \in Browsers : LoggedIn(d)' => cookie'[d] = cookie[d]
  <2>1. NoCookies \in Jars /\ ~Holds(NoCookies, "logged_in")
    BY <1>1, JarIs DEF TypeOK
  <2> QED  BY <1>1, <2>1 DEF TypeOK, LoggedIn
<1>3. Grown
  BY <1>1, NothingTaken
<1>4. TypeOK'
  BY <1>1, <1>2 DEF TypeOK, cartVars
<1>5. SessionInv'
  <2>1. ASSUME NEW d \in Browsers, LoggedIn(d)'
        PROVE  LoggedIn(d) /\ LoginSession(d)' = LoginSession(d)
    BY <1>2, <2>1 DEF LoggedIn, LoginSession
  <2> QED  BY <1>1, <2>1 DEF Inv, SessionInv
<1>6. CartInv'
  BY <1>1, <1>3, CartStill DEF Inv
<1>7. HandlerInv'
  BY <1>1, <1>3, SoundStill DEF Inv, HandlerInv
<1>8. StrandInv'
  <2>1. ASSUME NEW s \in Sessions
        PROVE  /\ AddsTo(s)' = AddsTo(s) /\ LogsInto(s)' = LogsInto(s)
               /\ Emptied(s)' = Emptied(s) /\ contents'[s] = contents[s]
    BY <1>1 DEF AddsTo, LogsInto, Emptied, cartVars
  <2>2. ASSUME NEW s \in Sessions, Claimed(s)' PROVE Claimed(s)
    BY <1>2, <2>2 DEF Claimed, LoggedIn, LoginSession
  <2> QED  BY <1>1, <2>1, <2>2, StrandStill DEF Inv
<1> QED  BY <1>4, <1>5, <1>6, <1>7, <1>8 DEF Inv

\* A browser is closed when nothing is under way for it, and remembered.
LEMMA CloseBrowserKeeps ==
    ASSUME Inv, NEW b \in Browsers, CloseBrowser(b)
    PROVE  Inv'
<1>1. /\ UNCHANGED <<cookie, started, session, customers, cartVars, handler, requests, was, strayed>>
      /\ TypeOK /\ sid' = [sid EXCEPT ![b] = None] /\ lost' = lost \cup {b}
      /\ ordered' = ordered \ {b}
  BY DEF CloseBrowser, Inv
<1>2. /\ sid' \in [Browsers -> Sessions \cup {None}] /\ lost' \subseteq Browsers
      /\ \A d \in Browsers : sid'[d] = sid[d] \/ (sid'[d] = None /\ d \in lost')
  BY <1>1 DEF TypeOK
<1>3. Grown
  BY <1>1, <1>2 DEF Grown
<1>4. TypeOK'
  <2>1. faults' \in 0..MaxFaults
    BY FailsTyped DEF CloseBrowser, Inv
  <2> QED  BY <1>1, <1>2, <2>1 DEF TypeOK, cartVars
<1>5. SessionInv'
  <2>1. \A d \in Browsers : LoggedIn(d)' = LoggedIn(d) /\ LoginSession(d)' = LoginSession(d)
    BY <1>1 DEF LoggedIn, LoginSession
  <2>2. lost \subseteq lost'
    BY <1>1
  <2> QED  BY <1>1, <1>2, <2>1, <2>2 DEF Inv, SessionInv
<1>6. CartInv'
  BY <1>1, <1>3, CartStill DEF Inv
<1>7. HandlerInv'
  BY <1>1, <1>3, SoundStill DEF Inv, HandlerInv
<1>8. StrandInv'
  <2>1. ASSUME NEW s \in Sessions
        PROVE  /\ AddsTo(s)' = AddsTo(s) /\ LogsInto(s)' = LogsInto(s)
               /\ Emptied(s)' = Emptied(s) /\ Claimed(s)' = Claimed(s)
               /\ contents'[s] = contents[s]
    BY <1>1 DEF AddsTo, LogsInto, Emptied, Claimed, LoggedIn, LoginSession, cartVars
  <2> QED  BY <1>1, <2>1, StrandStill DEF Inv
<1> QED  BY <1>4, <1>5, <1>6, <1>7, <1>8 DEF Inv

\* Whoever logs in as nobody has lost the session of the login; anyone else is the
\* customer of the session, or the session itself.
LEMMA CustomerIdIs ==
    ASSUME Inv, NEW b \in Browsers, NEW s \in Sessions, NEW o, o = CustomerId(b, s),
           sid[b] = s \/ sid[b] = None,
           started'[s] = b, UNCHANGED <<was, lost>>,
           \A r \in Sessions : started[r] # None => started'[r] = started[r]
    PROVE  /\ o \in Owners /\ MayPut(b, o)'
           /\ o \in Sessions => o = s /\ ~LoggedIn(b)
<1>1. CASE ~LoggedIn(b)
  <2>1. o = s
    BY <1>1 DEF CustomerId
  <2> QED  BY <1>1, <2>1, Distinct DEF MayPut
<1>2. CASE LoggedIn(b) /\ session[s] = None
  <2>1. o = Undefined
    BY <1>2 DEF CustomerId
  <2>2. LoginSession(b) \in Sessions /\ session[LoginSession(b)] # None
    BY <1>2, JarIs DEF LoginSession, LoggedIn, Inv, TypeOK, SessionInv
  <2>3. sid[b] # LoginSession(b)
    BY <1>2, <2>2, Distinct
  <2>4. b \in lost
    BY <1>2, <2>3 DEF Inv, SessionInv
  <2> QED  BY <2>1, <2>4, Distinct DEF MayPut
<1>3. CASE LoggedIn(b) /\ session[s] # None
  <2>1. o = session[s] /\ session[s] \in Customers
    BY <1>3 DEF CustomerId, Inv, TypeOK
  <2>2. started[s] \in Browsers /\ session[s] \in was[started[s]]
    BY <1>3 DEF Inv, SessionInv
  <2>3. started[s] = b
    BY <2>2, Distinct
  <2> QED  BY <2>1, <2>2, <2>3, Distinct DEF MayPut
<1> QED  BY <1>1, <1>2, <1>3

\* A request is received with the session of its browser, or with a new one, and with
\* the customer the cookie and the session give it.
LEMMA ReceiveKeeps ==
    ASSUME Inv, NEW h \in Handlers, NEW b \in Browsers, NEW op \in Ops,
           NEW step \in {"lookup", "cart", "auth", "order", "answer"},
           NEW item \in Items \cup {None}, NEW customer \in Customers \cup {None},
           step = "auth" <=> op \in Logins, step = "auth" => customer \in Customers,
           op = "add" => step = "lookup" /\ item \in Wants[b],
           Receive(h, b, op, step, item, customer), ordered' \subseteq Browsers
    PROVE  Inv'
<1>1. PICK s \in Sessions :
        /\ handler[h].step = "idle" /\ requests < MaxRequests
        /\ \/ sid[b] = s /\ UNCHANGED started
           \/ sid[b] = None /\ started[s] = None /\ started' = [started EXCEPT ![s] = b]
        /\ requests' = requests + 1
        /\ handler' = [handler EXCEPT ![h] =
               [op |-> op, step |-> step, browser |-> b, sid |-> s, sets |-> sid[b] = None,
                owner |-> CustomerId(b, s), item |-> item, customer |-> customer,
                alive |-> TRUE]]
        /\ strayed' = strayed \cup {r \in {s} : Overlaps(s, op, CustomerId(b, s))}
        /\ UNCHANGED <<browserVars, session, customers, cartVars, faults, was>>
  BY DEF Receive
<1>2. PICK o : o = CustomerId(b, s)
  OBVIOUS
<1>3. TypeOK /\ SessionInv /\ HandlerInv /\ CartInv /\ StrandInv
  BY DEF Inv
<1>4. /\ started' \in [Sessions -> Browsers \cup {None}] /\ started'[s] = b
      /\ \A r \in Sessions : started[r] # None => started'[r] = started[r]
      /\ \A r \in Sessions : r # s => started'[r] = started[r]
      /\ sid[b] = s \/ sid[b] = None
  BY <1>1, <1>3, Distinct DEF TypeOK, SessionInv
<1>5. Grown
  BY <1>1, <1>4 DEF Grown, browserVars
<1>6. o \in Owners /\ MayPut(b, o)' /\ (o \in Sessions => o = s /\ ~LoggedIn(b))
  BY <1>1, <1>2, <1>4, CustomerIdIs DEF browserVars
<1> DEFINE n == handler'[h]
<1>7. /\ n = [op |-> op, step |-> step, browser |-> b, sid |-> s, sets |-> sid[b] = None,
              owner |-> o, item |-> item, customer |-> customer, alive |-> TRUE]
      /\ \A g \in Handlers : g # h => handler'[g] = handler[g]
      /\ handler' \in [Handlers -> HandlerState]
  <2>1. [op |-> op, step |-> step, browser |-> b, sid |-> s, sets |-> sid[b] = None,
         owner |-> o, item |-> item, customer |-> customer, alive |-> TRUE] \in HandlerState
    BY <1>6 DEF HandlerState, Steps
  <2> QED  BY <1>1, <1>2, <1>3, <2>1 DEF TypeOK
<1>8. /\ n.op = op /\ n.step = step /\ n.browser = b /\ n.sid = s /\ n.owner = o
      /\ n.sets = (sid[b] = None) /\ n.item = item /\ n.customer = customer
  BY <1>7
<1>9. TypeOK'
  <2>1. requests' \in 0..MaxRequests /\ strayed' \subseteq Sessions
    BY <1>1, <1>3, FrontEndAssumption DEF TypeOK
  <2> QED  BY <1>1, <1>3, <1>4, <1>7, <2>1 DEF TypeOK, browserVars, cartVars
<1>10. SessionInv'
  <2>1. ASSUME NEW r \in Sessions, session'[r] # None
        PROVE  /\ started'[r] \in Browsers /\ session'[r] \in customers'
               /\ session'[r] \in was'[started'[r]]
    BY <1>1, <1>3, <1>4, <2>1, Distinct DEF SessionInv
  <2>2. ASSUME NEW d \in Browsers, sid'[d] # None PROVE started'[sid'[d]] = d
    <3>1. sid[d] \in Sessions /\ started[sid[d]] = d /\ sid'[d] = sid[d]
      BY <1>1, <1>3, <2>2 DEF SessionInv, TypeOK, browserVars
    <3> QED  BY <1>4, <3>1, Distinct
  <2>3. ASSUME NEW d \in Browsers, LoggedIn(d)'
        PROVE  /\ session'[LoginSession(d)'] # None /\ started'[LoginSession(d)'] = d
               /\ sid'[d] = LoginSession(d)' \/ d \in lost'
    <3>1. /\ LoginSession(d)' = LoginSession(d) /\ LoggedIn(d)
      BY <1>1, <2>3 DEF LoginSession, LoggedIn, browserVars
    <3>2. LoginSession(d) \in Sessions
      BY <1>3, <3>1, JarIs DEF LoginSession, LoggedIn, TypeOK
    <3> QED  BY <1>1, <1>3, <1>4, <3>1, <3>2, Distinct DEF SessionInv, browserVars
  <2> QED  BY <2>1, <2>2, <2>3 DEF SessionInv
<1>11. CartInv'
  BY <1>1, <1>3, <1>5, CartStill
<1>12. HandlerInv'
  <2>1. Sound(handler[h])'
    <3>1. MayPut(handler[h].browser, handler[h].owner)'
      BY <1>6, <1>8
    <3>2. n.sets \/ sid'[b] = s \/ b \in lost'
      BY <1>1, <1>4, <1>8 DEF browserVars
    <3> QED  BY <1>4, <1>6, <1>8, <3>1, <3>2 DEF Sound, LoggingIn
  <2> QED  BY <1>3, <1>5, <1>7, <2>1, OthersSound
<1>13. StrandInv'
  <2> SUFFICES ASSUME NEW r \in Sessions, r \notin strayed'
               PROVE  /\ AddsTo(r)' => ~LogsInto(r)' /\ ~Claimed(r)'
                      /\ Emptied(r)' \/ Claimed(r)' => contents'[r] = {}
    BY DEF StrandInv
  <2>1. /\ AddsTo(r) => ~LogsInto(r) /\ ~Claimed(r)
        /\ Emptied(r) \/ Claimed(r) => contents[r] = {}
        /\ contents'[r] = contents[r]
    BY <1>1, <1>3 DEF StrandInv, cartVars
  <2>2. AddsTo(r)' => AddsTo(r) \/ (op = "add" /\ o = r)
    BY <1>7, <1>8 DEF AddsTo
  <2>3. LogsInto(r)' => LogsInto(r) \/ (op \in Logins /\ s = r)
    BY <1>7, <1>8 DEF LogsInto
  <2>4. Emptied(r)' => Emptied(r)
    BY <1>7, <1>8 DEF Emptied
  <2>5. Claimed(r)' => Claimed(r)
    BY <1>1 DEF Claimed, LoggedIn, LoginSession, browserVars
  <2>6. r = s => ~Overlaps(s, op, o)
    BY <1>1, <1>2
  <2>7. ~(LogsInto(r) /\ op = "add" /\ o = r)
    BY <1>6, <2>6 DEF LogsInto, Overlaps
  <2>8. ~(AddsTo(r) /\ op \in Logins /\ s = r)
    <3>1. SUFFICES ASSUME AddsTo(r), op \in Logins, s = r PROVE FALSE
      OBVIOUS
    <3>2. PICK g \in Handlers : handler[g].op = "add" /\ handler[g].owner = r
      BY <3>1 DEF AddsTo
    <3>3. handler[g].sid = r
      BY <1>3, <3>2 DEF HandlerInv, Sound
    <3> QED  BY <2>6, <3>1, <3>2, <3>3 DEF Overlaps
  <2>9. ~(Claimed(r) /\ op = "add" /\ o = r)
    <3>1. SUFFICES ASSUME Claimed(r), o = r PROVE FALSE
      OBVIOUS
    <3>2. PICK d \in Browsers : LoggedIn(d) /\ LoginSession(d) = r
      BY <3>1 DEF Claimed
    <3>3. started[r] = d
      BY <1>3, <3>2 DEF SessionInv
    <3> QED  BY <1>4, <1>6, <3>1, <3>2, <3>3, Distinct
  <2>10. ~(op = "add" /\ op \in Logins)
    BY DEF Logins
  <2> QED  BY <2>1, <2>2, <2>3, <2>4, <2>5, <2>7, <2>8, <2>9, <2>10
<1> QED  BY <1>9, <1>10, <1>11, <1>12, <1>13 DEF Inv

\* A request of any kind starts a handler of its own.
LEMMA RequestKeeps ==
    ASSUME Inv, NEW h \in Handlers, NEW b \in Browsers, Request(h, b)
    PROVE  Inv'
<1>1. /\ {"load", "add", "update", "remove", "delete", "login", "register", "order"} \subseteq Ops
      /\ \A op \in {"load", "add", "update", "remove", "delete", "order"} : op \notin Logins
      /\ "login" \in Logins /\ "register" \in Logins
      /\ Wants[b] \subseteq Items /\ ordered \subseteq Browsers
  BY Distinct DEF Ops, Logins, Inv, TypeOK
<1>2. CASE LoadPage(h, b)  BY <1>1, <1>2, ReceiveKeeps DEF LoadPage
<1>3. CASE AddToCart(h, b)  BY <1>1, <1>3, ReceiveKeeps DEF AddToCart
<1>4. CASE UpdateCart(h, b)  BY <1>1, <1>4, ReceiveKeeps DEF UpdateCart
<1>5. CASE DeleteItem(h, b)  BY <1>1, <1>5, ReceiveKeeps DEF DeleteItem
<1>6. CASE DeleteCart(h, b)  BY <1>1, <1>6, ReceiveKeeps DEF DeleteCart
<1>7. CASE Login(h, b)  BY <1>1, <1>7, ReceiveKeeps DEF Login
<1>8. CASE Register(h, b)  BY <1>1, <1>8, ReceiveKeeps DEF Register
<1>9. CASE PostOrder(h, b)  BY <1>1, <1>9, ReceiveKeeps DEF PostOrder
<1> QED  BY <1>2, <1>3, <1>4, <1>5, <1>6, <1>7, <1>8, <1>9 DEF Request

-----------------------------------------------------------------------------
(* The invariant and what follows from it *)

\* Every step of a handler keeps the invariant.
LEMMA HandleKeeps ==
    ASSUME Inv, NEW h \in Handlers, Handle(h)
    PROVE  Inv'
  BY LookUpKeeps, CallCartsKeeps, AuthenticateKeeps, FinishKeeps, MergeKeeps, SaveSessionKeeps,
     ReplyKeeps, CrashKeeps
  DEF Handle

\* So does doing nothing.
LEMMA StutterKeeps ==
    ASSUME Inv, UNCHANGED vars
    PROVE  Inv'
<1>1. /\ UNCHANGED <<browserVars, started, session, customers, cartVars, handler, ordered,
                     requests, faults, was, strayed>>
  BY DEF vars, counters
<1>2. Grown
  BY <1>1, NothingTaken DEF browserVars
<1>3. HandlerInv'
  BY <1>1, <1>2, SoundStill DEF Inv, HandlerInv
<1>4. StrandInv'
  <2>1. ASSUME NEW s \in Sessions
        PROVE  /\ AddsTo(s)' = AddsTo(s) /\ LogsInto(s)' = LogsInto(s)
               /\ Emptied(s)' = Emptied(s) /\ Claimed(s)' = Claimed(s)
    BY <1>1 DEF AddsTo, LogsInto, Emptied, Claimed, LoggedIn, LoginSession, browserVars
  <2> QED  BY <1>1, <2>1, StrandStill DEF Inv, cartVars
<1> QED  BY <1>1, <1>2, <1>3, <1>4, Settled DEF Inv, TypeOK

\* At the start no browser has a session, or "logged_in".
LEMMA InitInv ==
    ASSUME Init
    PROVE  Inv
<1>1. \A b \in Browsers : cookie[b] = NoCookies /\ ~LoggedIn(b)
  BY DEF Init, LoggedIn, Holds, Read, NoCookies, Missing
<1>2. TypeOK
  <2>1. NoCookies \in Jars
    BY DEF Jars
  <2> QED  BY <2>1, IdleIs, FrontEndAssumption DEF Init, TypeOK
<1>3. SessionInv
  BY <1>1 DEF Init, SessionInv
<1>4. HandlerInv
  BY IdleIs DEF Init, HandlerInv, Sound, LoggingIn
<1>5. CartInv
  BY DEF Init, CartInv, MayHold
<1>6. StrandInv
  <2>1. ASSUME NEW s \in Sessions PROVE ~AddsTo(s) /\ ~Claimed(s)
    BY <1>1, IdleIs DEF Init, AddsTo, Claimed
  <2>2. \A s \in Sessions : contents[s] = {}
    BY Distinct DEF Init
  <2> QED  BY <2>1, <2>2 DEF StrandInv
<1> QED  BY <1>2, <1>3, <1>4, <1>5, <1>6 DEF Inv

\* The invariant holds for ever.
LEMMA Inductive == Spec => []Inv
<1>1. Inv /\ [Next]_vars => Inv'
  <2> SUFFICES ASSUME Inv, [Next]_vars PROVE Inv'
    OBVIOUS
  <2>1. ASSUME NEW h \in Handlers, Handle(h) PROVE Inv'
    BY <2>1, HandleKeeps
  <2>2. ASSUME NEW h \in Handlers, NEW b \in Browsers, Request(h, b) PROVE Inv'
    BY <2>2, RequestKeeps
  <2>3. ASSUME NEW b \in Browsers, Logout(b) \/ Expire(b) \/ CloseBrowser(b) PROVE Inv'
    BY <2>3, CookieGoesKeeps, CloseBrowserKeeps
  <2>4. ASSUME NEW o \in Owners, Disorder(o) PROVE Inv'
    BY <2>4, DisorderKeeps
  <2>5. CASE UNCHANGED vars
    BY <2>5, StutterKeeps
  <2> QED  BY <2>1, <2>2, <2>3, <2>4, <2>5 DEF Next, Quiesce
<1> QED  BY <1>1, InitInv, PTL DEF Spec

\* Every variable of the front end keeps its type.
THEOREM TypeCorrect == Spec => []TypeOK
<1>1. Inv => TypeOK
  BY DEF Inv
<1> QED  BY <1>1, Inductive, PTL

\* CookieMeansCustomer of the login and register handlers and of the answers that
\* start a session, however many browsers, sessions, requests, failures and crashes
\* there are, and in whatever order the answers come.
THEOREM CookieAlways == Spec => []CookieMeansCustomer
<1>1. Inv => CookieMeansCustomer
  <2> SUFFICES ASSUME Inv, NEW b \in Browsers, LoggedIn(b)
               PROVE  LET s == LoginSession(b)
                      IN  /\ session[s] \in customers \cap was[b] /\ started[s] = b
                          /\ sid[b] = s \/ b \in lost
    BY DEF CookieMeansCustomer
  <2>1. LoginSession(b) \in Sessions
    BY JarIs DEF LoginSession, LoggedIn, Inv, TypeOK
  <2> QED  BY <2>1 DEF Inv, SessionInv
<1> QED  BY <1>1, Inductive, PTL

\* OwnCart: each item comes from a browser that may put it there, whatever requests of
\* whatever browsers overlap, and whatever disorder their carts are in.
THEOREM CartsAreOwn == Spec => []OwnCart
<1>1. Inv => OwnCart
  <2> SUFFICES ASSUME Inv, NEW o \in Owners, NEW i \in contents[o]
               PROVE  \E b \in Browsers : i \in Wants[b] \cup {NoItem} /\ MayPut(b, o)
    BY DEF OwnCart
  <2>1. i \in MayHold(o)
    BY DEF Inv, CartInv
  <2>2. CASE i \in asked[o]
    BY <2>2 DEF Inv, CartInv, Asked
  <2>3. ASSUME NEW s \in Sessions, <<o, s>> \in merged, i \in asked[s]
        PROVE  \E b \in Browsers : i \in Wants[b] \cup {NoItem} /\ MayPut(b, o)
    <3>1. PICK b \in Browsers : i \in Wants[b] \cup {NoItem} /\ MayPut(b, s)
      BY <2>3, Distinct DEF Inv, CartInv, Asked
    <3>2. started[s] = b
      BY <3>1, Distinct DEF MayPut, Inv, TypeOK
    <3>3. o \in was[b]
      BY <2>3, <3>2 DEF Inv, CartInv, TypeOK
    <3> QED  BY <3>1, <3>3 DEF MayPut
  <2> QED  BY <2>1, <2>2, <2>3 DEF MayHold
<1> QED  BY <1>1, Inductive, PTL

\* StrandedExplained: whatever is left in the cart of a session in which a browser is
\* logged in is of a session that an add, a failed merge or disorder led astray.
THEOREM StrandedOnlyThen == Spec => []StrandedExplained
<1>1. Inv => StrandedExplained
  <2> SUFFICES ASSUME Inv, NEW b \in Browsers, LoggedIn(b), LoginSession(b) \notin strayed
               PROVE  contents[LoginSession(b)] = {}
    BY DEF StrandedExplained
  <2>1. LoginSession(b) \in Sessions
    BY JarIs DEF LoginSession, LoggedIn, Inv, TypeOK
  <2> QED  BY <2>1 DEF Inv, StrandInv, Claimed
<1> QED  BY <1>1, Inductive, PTL
=============================================================================
