---------------------------- MODULE UsersProofs ----------------------------
(* Theorems about Users, for any number of handlers, requests and faults. *)
EXTENDS Users, TLAPS

Others(h) == \A g \in Handlers \ {h} : handler'[g] = handler[g]

\* A step of one handler gives it its new state and leaves the others theirs.
LEMMA TurnIs ==
    ASSUME TypeOK, NEW h \in Handlers, NEW st \in HandlerState, Turn(h, st)
    PROVE  handler' \in [Handlers -> HandlerState] /\ handler'[h] = st /\ Others(h)
BY DEF TypeOK, Turn, Others

\* An idle handler holds nothing.
LEMMA IdleIs ==
    /\ Idle \in HandlerState
    /\ Idle.step = "idle" /\ Idle.customer = None /\ Idle.own = {}
BY DEF Idle, Working, HandlerState, Steps

(***************************************************************************)
(* A request ends, having removed at most what it was to remove.           *)
(***************************************************************************)
LEMMA EndKeeps ==
    ASSUME UsersInv, NEW h \in Handlers, Turn(h, Idle),
           UNCHANGED <<customers, nextId, requests, answered, named, early>>,
           attributes' \subseteq attributes, faults' \in 0..MaxFaults, faults' >= faults,
           \A a \in attributes :
               \/ a \in attributes'
               \/ a.id \in handler[h].own /\ handler[h].step \in {"cleanCards", "removeAttribute"},
           faults' = 0 =>
               \A a \in attributes' :
                   a.id \in handler[h].own => Linked(a.id) \/ a.by \in named \cup Outsiders
    PROVE  UsersInv'
<1>t. TypeOK /\ faults \in Nat /\ (faults' = 0 => faults = 0)
  BY UsersAssumption DEF UsersInv, TypeOK
<1>1. handler' \in [Handlers -> HandlerState] /\ handler'[h] = Idle /\ Others(h)
  BY <1>t, IdleIs, TurnIs
<1>2. TypeOK'
  BY <1>t, <1>1 DEF TypeOK
<1>3. IdsInv'
  BY <1>1, IdleIs DEF UsersInv, IdsInv, Given, Others
<1>4. HandlerInv'
  BY <1>1, IdleIs DEF UsersInv, HandlerInv, Ids, Creating, Unlinking, Leaving, Others
<1>5. CreatingInv'
  BY <1>1, IdleIs DEF UsersInv, CreatingInv, Ids, Creating, Cleaning, Others
<1>6. LinksInv' /\ KnownInv'
  BY DEF UsersInv, LinksInv, KnownInv, Ids
<1>7. LeavingInv'
  BY <1>t, <1>1, IdleIs DEF UsersInv, LeavingInv, Leaving, Making, Creating, Others
<1>8. MakingInv'
  BY <1>t, <1>1, IdleIs
     DEF UsersInv, MakingInv, LeavingInv, Making, Creating, Cleaning, Leaving, Ids, Others
<1>9. AnsweredKept'
  BY DEF UsersInv, AnsweredKept, MakingInv, HandlerInv, Ids, Unlinking, Cleaning
<1>10. DanglingExplained'
  BY <1>t DEF UsersInv, DanglingExplained, MakingInv, CreatingInv, LeavingInv, HandlerInv, Ids,
            Unlinking, Cleaning
<1>11. NoOrphan'
  BY <1>t, <1>1 DEF UsersInv, NoOrphan, Linked, Others
<1> QED
  BY <1>2, <1>3, <1>4, <1>5, <1>6, <1>7, <1>8, <1>9, <1>10, <1>11 DEF UsersInv

(***************************************************************************)
(* A request comes.                                                        *)
(***************************************************************************)
LEMMA BeginKeeps ==
    ASSUME UsersInv, NEW h \in Handlers, NEW st \in HandlerState, Begin(h, st),
           nextId' \in Nat, nextId' >= nextId, named' \in SUBSET Given', named \subseteq named',
           named' \subseteq named \cup Ids(customers) \cup Ids(attributes),
           st.customer \in Given' \cup {None},
           \/ /\ st.step = "putCards" /\ st.customer = nextId /\ st.name \in Names /\ st.own = {}
              /\ named' = named
           \/ /\ st.step = "putAttribute" /\ st.kinds # {} /\ st.own = {}
              /\ st.customer \in Ids(customers) \cup named' \cup Outsiders
           \/ st.step = "unlink" /\ st.own \subseteq named'
           \/ st.step = "findCustomer" /\ st.customer \in named' /\ st.own = {}
    PROVE  UsersInv'
<1>t. TypeOK /\ UNCHANGED <<customers, attributes, faults, answered, early>>
  BY DEF UsersInv, Begin
<1>1. handler' \in [Handlers -> HandlerState] /\ handler'[h] = st /\ Others(h)
  BY <1>t, TurnIs DEF Begin, Turn
<1>i. handler[h].step = "idle" /\ handler[h].own = {}
  BY DEF UsersInv, Begin, HandlerInv
<1>g. Given \subseteq Given' /\ nextId \notin Given
  BY <1>t DEF Given, TypeOK
<1>2. TypeOK'
  BY <1>t, <1>1, UsersAssumption DEF TypeOK, Begin, Given
<1>3. IdsInv'
  BY <1>t, <1>1, <1>g DEF UsersInv, IdsInv, Others
<1>4. HandlerInv'
  BY <1>t, <1>1 DEF UsersInv, HandlerInv, Ids, Creating, Unlinking, Leaving, Others
<1>5. CreatingInv'
  <2>1. CASE st.step = "putCards"
    <3>1. /\ nextId # None /\ nextId \notin Ids(customers) \cup named \cup Ids(attributes)
          /\ \A p \in answered : p.customer # nextId
          /\ \A g \in Handlers : handler[g].customer # nextId
      BY <1>t, <1>g, UsersAssumption DEF UsersInv, IdsInv, Ids, TypeOK
    <3> QED
      BY <1>t, <1>1, <2>1, <3>1 DEF UsersInv, CreatingInv, Ids, Creating, Cleaning, Others
  <2>2. CASE st.step \notin Creating \cup Cleaning
    BY <1>t, <1>1, <2>2 DEF UsersInv, CreatingInv, Ids, Creating, Cleaning, Others
  <2> QED
    BY <2>1, <2>2 DEF Creating, Cleaning
<1>6. LinksInv' /\ KnownInv'
  BY <1>t DEF UsersInv, LinksInv, KnownInv, Ids
<1>7. LeavingInv'
  BY <1>t, <1>1 DEF UsersInv, LeavingInv, Leaving, Making, Creating, Others
<1>8. MakingInv'
  BY <1>t, <1>1 DEF UsersInv, MakingInv, Making, Creating, Cleaning, Leaving, Ids, Others
<1>9. AnsweredKept'
  BY <1>t DEF UsersInv, AnsweredKept, Ids
<1>10. DanglingExplained'
  BY <1>t DEF UsersInv, DanglingExplained, Ids
<1>11. NoOrphan'
  BY <1>t, <1>1, <1>i DEF UsersInv, NoOrphan, Linked, Others
<1> QED
  BY <1>2, <1>3, <1>4, <1>5, <1>6, <1>7, <1>8, <1>9, <1>10, <1>11 DEF UsersInv

\* What a handler is given when it takes a request is a state of handlers.
LEMMA WorkingIs ==
    ASSUME NEW step \in Steps, NEW customer \in Nat \cup {None}, NEW name \in Names \cup {None},
           NEW kinds \in SUBSET Kinds, NEW own \in SUBSET Nat
    PROVE  LET st == Working(step, customer, name, kinds, own)
           IN  /\ st \in HandlerState
               /\ st.step = step /\ st.customer = customer /\ st.name = name
               /\ st.kinds = kinds /\ st.own = own
BY DEF Working, HandlerState

\* A request that is taken: what it names is known from now on.
LEMMA ReceiveKeeps ==
    ASSUME UsersInv, NEW h \in Handlers, Receive(h)
    PROVE  UsersInv'
<1>t. TypeOK /\ IdsInv /\ KnownInv
  BY DEF UsersInv
<1>n. nextId \in Nat
  BY <1>t DEF TypeOK
<1>1. CASE PostUser(h)
  <2>1. PICK name \in Names, kinds \in SUBSET Kinds :
            /\ Begin(h, Working("putCards", nextId, name, kinds, {}))
            /\ nextId' = nextId + 1 /\ named' = named
    BY <1>1 DEF PostUser
  <2>2. "putCards" \in Steps /\ nextId \in Nat \cup {None} /\ named' \in SUBSET Given'
    BY <1>t, <1>n, <2>1 DEF Steps, TypeOK, IdsInv, Given
  <2>3. nextId \in Given' /\ nextId' \in Nat /\ nextId' >= nextId
    BY <1>n, <2>1 DEF Given
  <2> QED
    BY <2>1, <2>2, <2>3, WorkingIs, BeginKeeps
<1>2. CASE PostAttribute(h)
  <2>1. PICK c \in Ids(customers) \cup {p.customer : p \in answered} \cup Outsiders, kind \in Kinds :
            /\ Begin(h, Working("putAttribute", c, None, {kind}, {}))
            /\ nextId' = nextId /\ named' = named
    BY <1>2 DEF PostAttribute
  <2>2. /\ "putAttribute" \in Steps /\ c \in Nat \cup {None} /\ c \in Given \cup {None}
        /\ c \in Ids(customers) \cup named \cup Outsiders
    BY <1>t DEF Steps, IdsInv, Given, Ids, KnownInv, Outsiders, Unknown
  <2>3. named' \in SUBSET Given' /\ Given' = Given
    BY <1>t, <2>1 DEF IdsInv, Given
  <2>4. PICK st \in HandlerState :
            /\ Begin(h, st) /\ st.step = "putAttribute" /\ st.kinds # {} /\ st.own = {}
            /\ st.customer = c
    <3>1. Working("putAttribute", c, None, {kind}, {}) \in HandlerState
      BY <2>2, WorkingIs
    <3> QED
      BY <2>1, <3>1 DEF Working
  <2> QED
    BY <1>n, <2>1, <2>2, <2>3, <2>4, BeginKeeps
<1>3. CASE DeleteAttribute(h)
  <2>1. PICK a \in attributes :
            /\ Begin(h, Working("unlink", None, None, {a.kind}, {a.id}))
            /\ nextId' = nextId /\ named' = named \cup {a.id}
    BY <1>3 DEF DeleteAttribute
  <2>2. /\ "unlink" \in Steps /\ a.kind \in Kinds
        /\ a.id \in Nat /\ a.id \in Given /\ a.id \in Ids(attributes)
    BY <1>t DEF Steps, TypeOK, IdsInv, Given, Ids
  <2>3. named' \in SUBSET Given' /\ Given' = Given
    BY <1>t, <2>1, <2>2 DEF IdsInv, Given
  <2>4. PICK st \in HandlerState :
            Begin(h, st) /\ st.step = "unlink" /\ st.customer = None /\ st.own \subseteq named'
    <3>1. Working("unlink", None, None, {a.kind}, {a.id}) \in HandlerState
      BY <2>2, WorkingIs
    <3> QED
      BY <2>1, <3>1 DEF Working
  <2>6. /\ nextId' \in Nat /\ nextId' >= nextId
        /\ named \subseteq named' /\ named' \subseteq named \cup Ids(customers) \cup Ids(attributes)
    BY <1>n, <2>1, <2>2
  <2> QED
    BY <2>3, <2>4, <2>6, BeginKeeps
<1>4. CASE DeleteCustomer(h)
  <2>1. PICK c \in customers :
            /\ Begin(h, Working("findCustomer", c.id, None, {}, {}))
            /\ nextId' = nextId /\ named' = named \cup {c.id}
    BY <1>4 DEF DeleteCustomer
  <2>2. "findCustomer" \in Steps /\ c.id \in Nat /\ c.id \in Given /\ c.id \in Ids(customers)
    BY <1>t DEF Steps, TypeOK, IdsInv, Given, Ids
  <2>3. named' \in SUBSET Given' /\ Given' = Given
    BY <1>t, <2>1, <2>2 DEF IdsInv, Given
  <2>4. /\ nextId' \in Nat /\ nextId' >= nextId
        /\ named \subseteq named' /\ named' \subseteq named \cup Ids(customers) \cup Ids(attributes)
        /\ c.id \in named' /\ c.id \in Given'
    BY <1>n, <2>1, <2>2, <2>3
  <2>5. PICK st \in HandlerState :
            Begin(h, st) /\ st.step = "findCustomer" /\ st.customer = c.id /\ st.own = {}
    <3>1. Working("findCustomer", c.id, None, {}, {}) \in HandlerState
      BY <2>2, WorkingIs
    <3> QED
      BY <2>1, <3>1 DEF Working
  <2> QED
    BY <2>3, <2>4, <2>5, BeginKeeps
<1> QED
  BY <1>1, <1>2, <1>3, <1>4 DEF Receive

\* A handler that goes on keeps what it holds.
LEMMA AdvancedIs ==
    ASSUME TypeOK, NEW h \in Handlers, NEW step \in Steps
    PROVE  /\ Advanced(h, step) \in HandlerState
           /\ Advanced(h, step).step = step
           /\ Advanced(h, step).customer = handler[h].customer
           /\ Advanced(h, step).name = handler[h].name
           /\ Advanced(h, step).own = handler[h].own
           /\ Advanced(h, step).kinds = handler[h].kinds
BY DEF TypeOK, Advanced, HandlerState

(***************************************************************************)
(* Attributes are removed on the way of CreateUser back, or of a delete.   *)
(***************************************************************************)
LEMMA RemoveOwnKeeps ==
    ASSUME UsersInv, NEW h \in Handlers, NEW kind \in Kinds, NEW next \in Steps,
           \/ At(h, "cleanAddresses") /\ kind = "addresses" /\ next = "cleanCards"
           \/ At(h, "removeAddresses") /\ next = "removeCards"
           \/ At(h, "removeCards") /\ next = "removeCustomer",
           RemoveOwn(h, kind), GoOn(h, next),
           UNCHANGED <<customers, nextId, requests, answered, named, early>>
    PROVE  UsersInv'
<1>t. TypeOK /\ faults \in Nat /\ faults' \in 0..MaxFaults /\ faults' >= faults
  BY UsersAssumption DEF UsersInv, TypeOK, RemoveOwn, Works, FailedWrite, Fails
<1>a. /\ attributes' \subseteq attributes
      /\ \A a \in attributes : a \in attributes' \/ a.id \in handler[h].own
      /\ faults' = 0 => \A a \in attributes' : a.id \notin handler[h].own \/ a.kind # kind
  BY <1>t DEF RemoveOwn, Works, FailedWrite, Fails
<1>1. /\ handler' \in [Handlers -> HandlerState] /\ Others(h)
      /\ handler'[h].step = next /\ handler'[h].customer = handler[h].customer
      /\ handler'[h].own = handler[h].own
  BY <1>t, AdvancedIs, TurnIs DEF GoOn
<1>2. TypeOK'
  BY <1>t, <1>a, <1>1 DEF TypeOK
<1>3. IdsInv'
  BY <1>a, <1>1 DEF UsersInv, IdsInv, Given, Others
<1>4. HandlerInv'
  BY <1>1 DEF UsersInv, HandlerInv, Ids, Creating, Unlinking, Leaving, Others, At
<1>5. CreatingInv'
  BY <1>a, <1>1 DEF UsersInv, CreatingInv, Ids, Creating, Cleaning, Others, At
<1>6. LinksInv' /\ KnownInv'
  BY <1>a DEF UsersInv, LinksInv, KnownInv, Ids
<1>7. LeavingInv'
  BY <1>t, <1>a, <1>1 DEF UsersInv, LeavingInv, Leaving, Making, Creating, Others, At
<1>8. MakingInv'
  BY <1>t, <1>a, <1>1, TypeOK
     DEF UsersInv, MakingInv, Making, Creating, Cleaning, Leaving, Ids, Others, At, TypeOK, Kinds
<1>9. AnsweredKept'
  BY <1>a DEF UsersInv, AnsweredKept, MakingInv, HandlerInv, LeavingInv, Ids, Leaving, Cleaning, At
<1>10. DanglingExplained'
  BY <1>t, <1>a DEF UsersInv, DanglingExplained, MakingInv, CreatingInv, LeavingInv, HandlerInv,
       Ids,
                    Leaving, Cleaning, At
<1>11. NoOrphan'
  BY <1>t, <1>a, <1>1 DEF UsersInv, NoOrphan, Linked, Others
<1> QED
  BY <1>2, <1>3, <1>4, <1>5, <1>6, <1>7, <1>8, <1>9, <1>10, <1>11 DEF UsersInv

(***************************************************************************)
(* CreateUser stores the cards and the addresses.                          *)
(***************************************************************************)
LEMMA PutKeeps ==
    ASSUME UsersInv, NEW h \in Handlers, NEW kind \in Kinds, NEW next \in Steps,
           At(h, "putCards") \/ At(h, "putAddresses"), next \in {"putAddresses", "putCustomer"},
           Put(h, kind, next),
           UNCHANGED <<customers, requests, answered, named, early>>
    PROVE  UsersInv'
<1> DEFINE new == NewAttribute(h, kind)
           c == handler[h].customer
<1>t. /\ TypeOK /\ faults \in Nat /\ faults' \in 0..MaxFaults /\ faults' >= faults
      /\ nextId \in Nat /\ nextId' \in Nat /\ nextId' >= nextId
  BY UsersAssumption DEF UsersInv, TypeOK, Put, Works, FailedWrite, Fails
<1>c. c \in Nat /\ c \in Given /\ nextId \notin Given /\ Given \subseteq Given' /\ nextId # None
  BY <1>t, UsersAssumption
     DEF UsersInv, CreatingInv, IdsInv, TypeOK, HandlerState, Creating, At, Given
<1>n. /\ new.id = nextId /\ new.kind = kind /\ new.by = c
      /\ new \in [id : Nat, kind : Kinds, by : Nat \cup {None}]
  BY <1>t, <1>c DEF NewAttribute
<1>1. /\ handler' \in [Handlers -> HandlerState] /\ Others(h)
      /\ handler'[h].step = next /\ handler'[h].customer = c /\ handler'[h].name = handler[h].name
      /\ attributes \subseteq attributes' /\ attributes' \subseteq attributes \cup {new}
      /\ \/ /\ handler'[h].own = handler[h].own
            /\ new \in attributes' => new \in attributes \/ faults' > 0
         \/ handler'[h].own = handler[h].own \cup {nextId} /\ new \in attributes'
      /\ nextId' = nextId + 1 \/ (attributes' = attributes /\ handler'[h].own = handler[h].own)
  <2>1. CASE kind \notin handler[h].kinds /\ GoOn(h, next) /\ UNCHANGED <<attributes, nextId>>
    BY <1>t, <2>1, AdvancedIs, TurnIs DEF GoOn
  <2>2. CASE /\ attributes' = attributes \cup {new} /\ nextId' = nextId + 1
             /\ Turn(h, [Advanced(h, next) EXCEPT !.own = @ \cup {nextId}])
    <3> DEFINE st == [Advanced(h, next) EXCEPT !.own = @ \cup {nextId}]
    <3>1. /\ st \in HandlerState /\ st.step = next /\ st.customer = c /\ st.name = handler[h].name
          /\ st.own = handler[h].own \cup {nextId}
      BY <1>t, AdvancedIs DEF HandlerState
    <3>2. handler' \in [Handlers -> HandlerState] /\ handler'[h] = st /\ Others(h)
      BY <1>t, <2>2, <3>1, TurnIs
    <3> QED
      BY <2>2, <3>1, <3>2
  <2>3. CASE /\ FailedWrite(attributes, attributes \cup {new}) /\ nextId' = nextId + 1
             /\ Turn(h, [Advanced(h, next) EXCEPT !.failed = @ \cup {kind}])
    <3> DEFINE st == [Advanced(h, next) EXCEPT !.failed = @ \cup {kind}]
    <3>1. /\ st \in HandlerState /\ st.step = next /\ st.customer = c /\ st.name = handler[h].name
          /\ st.own = handler[h].own
      BY <1>t, AdvancedIs DEF HandlerState
    <3>2. handler' \in [Handlers -> HandlerState] /\ handler'[h] = st /\ Others(h)
      BY <1>t, <2>3, <3>1, TurnIs
    <3> QED
      BY <1>t, <2>3, <3>1, <3>2 DEF FailedWrite, Fails
  <2> QED
    BY <2>1, <2>2, <2>3 DEF Put
<1> HIDE DEF new, c
<1>2. TypeOK'
  BY <1>t, <1>n, <1>1 DEF TypeOK
<1>3. IdsInv'
  BY <1>t, <1>c, <1>n, <1>1 DEF UsersInv, IdsInv, Given, Others
<1>4. HandlerInv'
  BY <1>1 DEF UsersInv, HandlerInv, Ids, Creating, Unlinking, Leaving, Others, At
<1>5. CreatingInv'
  BY <1>c, <1>n, <1>1 DEF UsersInv, CreatingInv, IdsInv, Ids, Creating, Cleaning, Others, At, c
<1>6. LinksInv' /\ KnownInv'
  BY <1>c, <1>n, <1>1 DEF UsersInv, LinksInv, KnownInv, IdsInv, Ids
<1>7. LeavingInv'
  BY <1>t, <1>c, <1>n, <1>1 DEF UsersInv, LeavingInv, IdsInv, Leaving, Making, Creating, Others, At
<1>8. MakingInv'
  BY <1>t, <1>c, <1>n, <1>1
     DEF UsersInv, MakingInv, IdsInv, Making, Creating, Cleaning, Leaving, Ids, Others, At, c
<1>9. AnsweredKept'
  BY <1>1 DEF UsersInv, AnsweredKept, Ids
<1>10. DanglingExplained'
  BY <1>t, <1>1 DEF UsersInv, DanglingExplained, Ids
<1>11. NoOrphan'
  BY <1>t, <1>n, <1>1 DEF UsersInv, NoOrphan, Linked, Others
<1> QED
  BY <1>2, <1>3, <1>4, <1>5, <1>6, <1>7, <1>8, <1>9, <1>10, <1>11 DEF UsersInv

(***************************************************************************)
(* CreateUser stores the customer, or cleans up.                           *)
(***************************************************************************)
LEMMA StoredIs ==
    ASSUME UsersInv, NEW h \in Handlers, At(h, "putCustomer")
    PROVE  \E c \in [id : Nat, name : Names, links : SUBSET Nat] :
               /\ c.id = handler[h].customer /\ c.name = handler[h].name /\ c.links = handler[h].own
               /\ Stored(h) = customers \cup {c}
<1> DEFINE c == [id |-> handler[h].customer, name |-> handler[h].name, links |-> handler[h].own]
<1>1. handler[h].customer \in Nat /\ handler[h].name \in Names /\ handler[h].own \subseteq Nat
  BY DEF UsersInv, TypeOK, HandlerState, HandlerInv, CreatingInv, Creating, At
<1>2. c \in [id : Nat, name : Names, links : SUBSET Nat]
  BY <1>1
<1> QED
  BY <1>2 DEF Stored

\* A customer who is refused or whose upsert fails leaves links to clean away.
LEMMA CustomerRefused ==
    ASSUME UsersInv, NEW h \in Handlers, At(h, "putCustomer"), GoOn(h, "cleanAddresses"),
           faults' \in 0..MaxFaults, faults' >= faults,
           \/ customers' = customers
           \/ customers' = Stored(h) /\ Free(handler[h].name) /\ faults' > 0,
           UNCHANGED <<attributes, nextId, requests, answered, named, early>>
    PROVE  UsersInv'
<1>t. TypeOK /\ faults \in Nat /\ "cleanAddresses" \in Steps
  BY UsersAssumption DEF UsersInv, TypeOK, Steps
<1>s. PICK new \in [id : Nat, name : Names, links : SUBSET Nat] :
          /\ new.id = handler[h].customer /\ new.name = handler[h].name
          /\ new.links = handler[h].own /\ Stored(h) = customers \cup {new}
  BY StoredIs
<1>1. /\ handler' \in [Handlers -> HandlerState] /\ Others(h)
      /\ handler'[h].step = "cleanAddresses" /\ handler'[h].customer = handler[h].customer
      /\ handler'[h].own = handler[h].own
  BY <1>t, AdvancedIs, TurnIs DEF GoOn
<1>a. /\ customers \subseteq customers' /\ customers' \subseteq customers \cup {new}
      /\ customers' = customers \/ (faults' > 0 /\ \A d \in customers : d.name # new.name)
      /\ \A d \in customers : d.id # new.id
  BY <1>s DEF Free, UsersInv, CreatingInv, Creating, Ids, At
<1>2. TypeOK'
  BY <1>t, <1>s, <1>a, <1>1 DEF TypeOK
<1>3. IdsInv'
  BY <1>s, <1>a, <1>1, UsersAssumption DEF UsersInv, IdsInv, Given, Others
<1>4. HandlerInv'
  BY <1>a, <1>1 DEF UsersInv, HandlerInv, Ids, Creating, Unlinking, Leaving, Others
<1>5. CreatingInv'
  BY <1>s, <1>a, <1>1 DEF UsersInv, CreatingInv, Ids, Creating, Cleaning, Others, At
<1>6. LinksInv'
  BY <1>s, <1>a DEF UsersInv, LinksInv, MakingInv, Making, Creating, Cleaning, At
<1>7. KnownInv'
  BY <1>a DEF UsersInv, KnownInv, Ids
<1>8. LeavingInv'
  BY <1>t, <1>s, <1>a, <1>1
     DEF UsersInv, LeavingInv, MakingInv, Leaving, Making, Creating, Cleaning, Others, At
<1>9. MakingInv'
  BY <1>t, <1>s, <1>a, <1>1
     DEF UsersInv, MakingInv, Making, Creating, Cleaning, Leaving, Ids, Others, At
<1>10. AnsweredKept'
  BY <1>a DEF UsersInv, AnsweredKept, Ids
<1>11. DanglingExplained'
  BY <1>t, <1>s, <1>a DEF UsersInv, DanglingExplained, CreatingInv, Creating, At, Ids
<1>12. NoOrphan'
  BY <1>t, <1>a, <1>1 DEF UsersInv, NoOrphan, Linked, Others
<1> QED
  BY <1>2, <1>3, <1>4, <1>5, <1>6, <1>7, <1>8, <1>9, <1>10, <1>11, <1>12 DEF UsersInv

\* A customer who is stored may be answered, with all that is linked.
LEMMA CustomerStored ==
    ASSUME UsersInv, NEW h \in Handlers, At(h, "putCustomer"), Turn(h, Idle),
           Free(handler[h].name), customers' = Stored(h),
           NEW created \in SUBSET (handler[h].own \cup {None}),
           answered' = answered \cup Creations(handler[h].customer, created),
           UNCHANGED <<attributes, nextId, requests, faults, named, early>>
    PROVE  UsersInv'
<1>t. TypeOK /\ handler[h].customer # None /\ None \notin handler[h].own
  BY UsersAssumption DEF UsersInv, TypeOK, HandlerState, CreatingInv, Creating, At
<1>s. PICK new \in [id : Nat, name : Names, links : SUBSET Nat] :
          /\ new.id = handler[h].customer /\ new.name = handler[h].name
          /\ new.links = handler[h].own /\ Stored(h) = customers \cup {new}
  BY StoredIs
<1>1. handler' \in [Handlers -> HandlerState] /\ handler'[h] = Idle /\ Others(h)
  BY <1>t, IdleIs, TurnIs
<1>a. /\ customers' = customers \cup {new}
      /\ \A d \in customers : d.name # new.name /\ d.id # new.id
  BY <1>s DEF Free, UsersInv, CreatingInv, Creating, Ids, At
<1>p. /\ answered \subseteq answered'
      /\ \A p \in answered' \ answered :
             p.customer = new.id /\ p.attribute \in new.links \cup {None}
      /\ answered' \subseteq answered \cup [customer : Nat, attribute : Nat \cup {None}]
  BY <1>t, <1>s DEF Creations
<1>2. TypeOK'
  BY <1>t, <1>s, <1>a, <1>p, <1>1 DEF TypeOK
<1>3. IdsInv'
  BY <1>t, <1>s, <1>a, <1>p, <1>1, IdleIs DEF UsersInv, IdsInv, Given, Others
<1>4. HandlerInv'
  BY <1>a, <1>1, IdleIs DEF UsersInv, HandlerInv, Ids, Creating, Unlinking, Leaving, Others
<1>5. CreatingInv'
  BY <1>s, <1>a, <1>p, <1>1, IdleIs DEF UsersInv, CreatingInv, Ids, Creating, Cleaning, Others, At
<1>6. LinksInv'
  BY <1>t, <1>s, <1>a, <1>p, UsersAssumption
     DEF UsersInv, LinksInv, MakingInv, Making, Creating, Cleaning, At, TypeOK
<1>7. KnownInv'
  BY <1>a, <1>p DEF UsersInv, KnownInv, Ids
<1>8. LeavingInv'
  BY <1>t, <1>s, <1>a, <1>p, <1>1, IdleIs, UsersAssumption
     DEF UsersInv, LeavingInv, MakingInv, Leaving, Making, Creating, Cleaning, Others, At, TypeOK,
          HandlerState
<1>9. MakingInv'
  <2>1. \A g \in Handlers : handler'[g].step \in Making \cup Cleaning => \A i \in handler'[g].own :
            g # h /\ handler'[g] = handler[g] /\ i \notin new.links /\ i # None
    BY <1>t, <1>s, <1>1, IdleIs, UsersAssumption
       DEF UsersInv, MakingInv, Making, Creating, Cleaning, Others, At, TypeOK, HandlerState
  <2>2. \A g \in Handlers : handler'[g].step \in Making \cup Cleaning => \A i \in handler'[g].own :
            \A p \in answered' : p.attribute # i
    BY <1>p, <2>1 DEF UsersInv, MakingInv
  <2>3. handler'[h].step \notin Leaving /\ \A g \in Handlers \ {h} : handler'[g] = handler[g]
    BY <1>1, IdleIs DEF Leaving, Others
  <2> QED
    BY <1>a, <2>1, <2>2, <2>3 DEF UsersInv, MakingInv, Making, Creating, Cleaning, Ids
<1>10. AnsweredKept'
  <2>1. \A i \in new.links : i \in Ids(attributes) \cup named
    BY <1>t, <1>s DEF UsersInv, TypeOK, MakingInv, Making, Creating, At
  <2> QED
    BY <1>t, <1>s, <1>a, <1>p, <2>1 DEF UsersInv, AnsweredKept, Ids
<1>11. DanglingExplained'
  BY <1>s, <1>a, <1>p DEF UsersInv, DanglingExplained, MakingInv, Making, Creating, At, Ids
<1>12. NoOrphan'
  BY <1>s, <1>a, <1>1 DEF UsersInv, NoOrphan, Linked, Others
<1> QED
  BY <1>2, <1>3, <1>4, <1>5, <1>6, <1>7, <1>8, <1>9, <1>10, <1>11, <1>12 DEF UsersInv

\* CreateUser's upsert, whichever way it ends.
LEMMA PutCustomerKeeps ==
    ASSUME UsersInv, NEW h \in Handlers, PutCustomer(h)
    PROVE  UsersInv'
<1>f. faults \in 0..MaxFaults /\ UNCHANGED <<attributes, nextId, requests, named, early>>
  BY DEF PutCustomer, UsersInv, TypeOK
<1>1. CASE /\ Free(handler[h].name) /\ customers' = Stored(h) /\ Works
           /\ Answer(h, IF handler[h].failed = {}
                        THEN Creations(handler[h].customer, handler[h].own \cup {None})
                        ELSE {})
  <2>1. \E created \in SUBSET (handler[h].own \cup {None}) :
            answered' = answered \cup Creations(handler[h].customer, created)
    <3>1. Creations(handler[h].customer, {}) = {}
      BY DEF Creations
    <3>2. {} \in SUBSET (handler[h].own \cup {None})
      OBVIOUS
    <3>3. handler[h].own \cup {None} \in SUBSET (handler[h].own \cup {None})
      OBVIOUS
    <3> QED
      BY <1>1, <3>1, <3>2, <3>3 DEF Answer
  <2> QED
    BY <1>f, <1>1, <2>1, CustomerStored DEF PutCustomer, Answer, Works
<1>2. CASE ~Free(handler[h].name) /\ UNCHANGED customers /\ Works /\ GoOn(h, "cleanAddresses")
           /\ UNCHANGED answered
  BY <1>f, <1>2, CustomerRefused, UsersAssumption DEF PutCustomer, Works
<1>3. CASE Free(handler[h].name) /\ FailedWrite(customers, Stored(h)) /\ GoOn(h, "cleanAddresses")
           /\ UNCHANGED answered
  BY <1>f, <1>3, CustomerRefused, UsersAssumption DEF PutCustomer, FailedWrite, Fails
<1> QED
  BY <1>1, <1>2, <1>3 DEF PutCustomer

(***************************************************************************)
(* CreateCard and CreateAddress                                            *)
(***************************************************************************)
LEMMA NewIs ==
    ASSUME UsersInv, NEW h \in Handlers, NEW kind \in Kinds
    PROVE  LET new == NewAttribute(h, kind)
           IN  /\ new \in [id : Nat, kind : Kinds, by : Nat \cup {None}]
               /\ new.id = nextId /\ new.kind = kind /\ new.by = handler[h].customer
BY DEF NewAttribute, UsersInv, TypeOK, HandlerState

\* A card or an address that is stored is its handler's until it is linked.
LEMMA PutAttributeKeeps ==
    ASSUME UsersInv, NEW h \in Handlers, PutAttribute(h)
    PROVE  UsersInv'
<1> DEFINE c == handler[h].customer
<1>t. /\ TypeOK /\ faults \in Nat /\ nextId \in Nat /\ nextId' = nextId + 1
      /\ UNCHANGED <<customers, requests, named, early>> /\ handler[h].own = {}
      /\ c \in Nat \cup {None} /\ c \in Given \cup {None}
  BY UsersAssumption DEF PutAttribute, UsersInv, TypeOK, HandlerState, HandlerInv, IdsInv, At
<1>c. nextId \notin Given /\ Given \subseteq Given' /\ nextId # None /\ nextId \in Given'
  BY <1>t, UsersAssumption DEF Given
<1>n. PICK new \in [id : Nat, kind : Kinds, by : Nat \cup {None}] :
          /\ new.id = nextId /\ new.by = c
          /\ \/ /\ attributes' = attributes \cup {new} /\ Works /\ c = None
                /\ Answer(h, Creations(None, {nextId}))
             \/ /\ attributes' = attributes \cup {new} /\ Works /\ c # None
                /\ Turn(h, [Advanced(h, "link") EXCEPT !.own = {nextId}])
                /\ UNCHANGED answered
             \/ FailedWrite(attributes, attributes \cup {new}) /\ End(h)
  <2>1. (CHOOSE k \in handler[h].kinds : TRUE) \in Kinds
    <3>1. handler[h].kinds # {} /\ handler[h].kinds \subseteq Kinds
      BY DEF PutAttribute, UsersInv, HandlerInv, TypeOK, HandlerState, At
    <3> QED
      BY <3>1
  <2> QED
    BY <2>1, NewIs DEF PutAttribute
<1>1. /\ handler' \in [Handlers -> HandlerState] /\ Others(h)
      /\ \/ handler'[h] = Idle
         \/ /\ handler'[h].step = "link" /\ handler'[h].own = {nextId}
            /\ handler'[h].customer = c /\ c # None
  <2>1. CASE Turn(h, Idle)
    BY <1>t, <2>1, IdleIs, TurnIs
  <2>2. CASE c # None /\ Turn(h, [Advanced(h, "link") EXCEPT !.own = {nextId}])
    <3> DEFINE st == [Advanced(h, "link") EXCEPT !.own = {nextId}]
    <3>1. "link" \in Steps
      BY DEF Steps
    <3>2. st \in HandlerState /\ st.step = "link" /\ st.customer = c /\ st.own = {nextId}
      BY <1>t, <3>1, AdvancedIs DEF HandlerState
    <3>3. handler' \in [Handlers -> HandlerState] /\ handler'[h] = st /\ Others(h)
      BY <1>t, <2>2, <3>2, TurnIs
    <3> QED
      BY <2>2, <3>2, <3>3
  <2> QED
    BY <1>n, <2>1, <2>2 DEF Answer, End
<1>a. /\ attributes \subseteq attributes' /\ attributes' \subseteq attributes \cup {new}
      /\ faults' \in 0..MaxFaults /\ faults' >= faults
      /\ handler'[h] = Idle \/ (new \in attributes' /\ answered' = answered)
      /\ \/ answered' = answered
         \/ /\ c = None /\ new \in attributes'
            /\ answered' = answered \cup {[customer |-> None, attribute |-> nextId]}
      /\ new \in attributes' => handler'[h].step = "link" \/ c = None \/ faults' > 0
  <2>f. faults \in 0..MaxFaults /\ Idle.step # "link"
    BY <1>t, IdleIs DEF TypeOK
  <2>1. CASE /\ attributes' = attributes \cup {new} /\ Works
             /\ c = None /\ Answer(h, Creations(None, {nextId}))
    <3>1. Creations(None, {nextId}) = {[customer |-> None, attribute |-> nextId]}
      BY DEF Creations
    <3>2. handler'[h] = Idle
      BY <1>t, <2>1, IdleIs, TurnIs DEF Answer
    <3>3. answered' = answered \cup {[customer |-> None, attribute |-> nextId]}
      BY <2>1, <3>1 DEF Answer
    <3> QED
      BY <1>t, <2>f, <2>1, <3>2, <3>3 DEF Works
  <2>2. CASE attributes' = attributes \cup {new} /\ Works /\ c # None /\ UNCHANGED answered
             /\ handler'[h].step = "link"
    BY <2>f, <2>2 DEF Works
  <2>3. CASE FailedWrite(attributes, attributes \cup {new}) /\ End(h)
    <3>1. handler'[h] = Idle
      BY <1>t, <2>3, IdleIs, TurnIs DEF End
    <3> QED
      BY <1>t, <2>f, <2>3, <3>1, UsersAssumption DEF End, FailedWrite, Fails
  <2>4. Turn(h, [Advanced(h, "link") EXCEPT !.own = {nextId}]) => handler'[h].step = "link"
    <3>1. "link" \in Steps /\ Advanced(h, "link") \in HandlerState
      BY <1>t, AdvancedIs DEF Steps
    <3> QED
      BY <1>t, <3>1, AdvancedIs, TurnIs DEF HandlerState
  <2> QED
    BY <1>n, <2>1, <2>2, <2>3, <2>4
<1>l. handler[h].step = "putAttribute"
  BY DEF PutAttribute, At
<1> HIDE DEF c
<1>2. TypeOK'
  BY <1>t, <1>n, <1>1, <1>a DEF TypeOK
<1>3. IdsInv'
  BY <1>t, <1>c, <1>n, <1>1, <1>a, IdleIs DEF UsersInv, IdsInv, Given, Others
<1>4. HandlerInv'
  BY <1>t, <1>1, <1>l, IdleIs DEF UsersInv, HandlerInv, Ids, Creating, Unlinking, Leaving, Others, c
<1>5. CreatingInv'
  BY <1>t, <1>c, <1>n, <1>1, <1>a, IdleIs
     DEF UsersInv, CreatingInv, IdsInv, Ids, Creating, Cleaning, Others
<1>6. LinksInv'
  BY <1>t, <1>c, <1>n, <1>a DEF UsersInv, LinksInv, IdsInv
<1>7. KnownInv'
  BY <1>t, <1>a DEF UsersInv, KnownInv, Ids
<1>8. LeavingInv'
  BY <1>t, <1>c, <1>n, <1>1, <1>a, IdleIs
     DEF UsersInv, LeavingInv, IdsInv, Leaving, Making, Creating, Others
<1>9. MakingInv'
  BY <1>t, <1>c, <1>n, <1>1, <1>a, IdleIs
     DEF UsersInv, MakingInv, IdsInv, Making, Creating, Cleaning, Leaving, Ids, Others
<1>10. AnsweredKept'
  BY <1>t, <1>n, <1>a DEF UsersInv, AnsweredKept, Ids
<1>11. DanglingExplained'
  BY <1>t, <1>a, UsersAssumption DEF UsersInv, DanglingExplained, Ids, TypeOK
<1>12. NoOrphan'
  BY <1>t, <1>n, <1>1, <1>a, IdleIs DEF UsersInv, NoOrphan, Linked, Others, Outsiders
<1> QED
  BY <1>2, <1>3, <1>4, <1>5, <1>6, <1>7, <1>8, <1>9, <1>10, <1>11, <1>12 DEF UsersInv

(***************************************************************************)
(* The lists of ids of the customers change, and nothing else of them.     *)
(***************************************************************************)
SameButLinks ==
    /\ customers' \subseteq [id : Nat, name : Names, links : SUBSET Nat]
    /\ Ids(customers') = Ids(customers)
    /\ \A d, e \in customers' : d.id = e.id \/ d.name = e.name => d = e

LinksOf(h, c) ==
    IF c.id = handler[h].customer THEN c.links \cup handler[h].own ELSE c.links

\* Linking changes the links of one customer and nothing else ...
LEMMA LinkedToIs ==
    ASSUME UsersInv, NEW h \in Handlers, customers' = LinkedTo(h)
    PROVE  /\ SameButLinks
           /\ \A c \in customers : \E d \in customers' : d.id = c.id /\ d.links = LinksOf(h, c)
           /\ \A d \in customers' : \E c \in customers : d.id = c.id /\ d.links = LinksOf(h, c)
<1> DEFINE f(c) == IF c.id = handler[h].customer THEN [c EXCEPT !.links = @ \cup handler[h].own]
                   ELSE c
<1>1. /\ \A c \in customers : c \in [id : Nat, name : Names, links : SUBSET Nat]
      /\ \A c, d \in customers : c.id = d.id \/ c.name = d.name => c = d
      /\ handler[h].own \subseteq Nat
  BY DEF UsersInv, TypeOK, HandlerState
<1>2. \A c \in customers :
          /\ f(c) \in [id : Nat, name : Names, links : SUBSET Nat]
          /\ f(c).id = c.id /\ f(c).name = c.name /\ f(c).links = LinksOf(h, c)
  BY <1>1 DEF LinksOf
<1>3. customers' = {f(c) : c \in customers}
  BY DEF LinkedTo
<1> HIDE DEF f
<1>4. SameButLinks
  BY <1>1, <1>2, <1>3 DEF SameButLinks, Ids
<1> QED
  BY <1>2, <1>3, <1>4

\* ... and unlinking takes the same ids from all of them.
LEMMA UnlinkedIs ==
    ASSUME UsersInv, NEW h \in Handlers, customers' = Unlinked(h)
    PROVE  /\ SameButLinks
           /\ \A c \in customers : \E d \in customers' :
                  d.id = c.id /\ d.links = c.links \ handler[h].own
           /\ \A d \in customers' : \E c \in customers :
                  d.id = c.id /\ d.links = c.links \ handler[h].own
<1> DEFINE f(c) == [c EXCEPT !.links = @ \ handler[h].own]
<1>1. /\ \A c \in customers : c \in [id : Nat, name : Names, links : SUBSET Nat]
      /\ \A c, d \in customers : c.id = d.id \/ c.name = d.name => c = d
  BY DEF UsersInv, TypeOK
<1>2. \A c \in customers :
          /\ f(c) \in [id : Nat, name : Names, links : SUBSET Nat]
          /\ f(c).id = c.id /\ f(c).name = c.name /\ f(c).links = c.links \ handler[h].own
  BY <1>1
<1>3. customers' = {f(c) : c \in customers}
  BY DEF Unlinked
<1> HIDE DEF f
<1>4. SameButLinks
  BY <1>1, <1>2, <1>3 DEF SameButLinks, Ids
<1> QED
  BY <1>2, <1>3, <1>4

\* What a handler held and links is its customer's, and may be answered.
LEMMA LinkedKeeps ==
    ASSUME UsersInv, NEW h \in Handlers, At(h, "link"), Turn(h, Idle), customers' = LinkedTo(h),
           NEW created \in SUBSET handler[h].own,
           answered' = answered \cup Creations(handler[h].customer, created),
           faults' \in 0..MaxFaults, faults' >= faults,
           created # {} \/ faults' = 0 => handler[h].customer \in Ids(customers),
           UNCHANGED <<attributes, nextId, requests, named, early>>
    PROVE  UsersInv'
<1> DEFINE x == handler[h].customer
           own == handler[h].own
<1>t. /\ TypeOK /\ None \notin own /\ x \in Nat \cup {None} /\ own \subseteq Nat
      /\ (faults' = 0 => faults = 0) /\ (faults > 0 => faults' > 0)
      /\ x \in Given \cup {None} /\ own \subseteq Given
  BY UsersAssumption DEF UsersInv, IdsInv, TypeOK, HandlerState
<1>m. \A i \in own :
          /\ i \in Ids(attributes) \cup early
          /\ \A p \in answered : p.attribute # i
          /\ \A c \in customers : i \notin c.links
          /\ \A g \in Handlers \ {h} :
                 handler[g].step \in Making \cup Cleaning \cup Leaving => i \notin handler[g].own
          /\ \A a \in attributes : a.id = i => a.by = x
  BY DEF UsersInv, MakingInv, Making, At
<1>1. handler' \in [Handlers -> HandlerState] /\ handler'[h] = Idle /\ Others(h)
  BY <1>t, IdleIs, TurnIs
<1>a. /\ SameButLinks
      /\ \A c \in customers : \E d \in customers' :
             d.id = c.id /\ c.links \subseteq d.links /\ (c.id = x => own \subseteq d.links)
      /\ \A d \in customers' : \E c \in customers :
             /\ d.id = c.id /\ c.links \subseteq d.links /\ d.links \subseteq c.links \cup own
             /\ c.id # x => d.links = c.links
  <2>1. /\ SameButLinks
        /\ \A c \in customers : \E d \in customers' : d.id = c.id /\ d.links = LinksOf(h, c)
        /\ \A d \in customers' : \E c \in customers : d.id = c.id /\ d.links = LinksOf(h, c)
    BY LinkedToIs
  <2>2. \A c \in customers :
            /\ c.links \subseteq LinksOf(h, c) /\ LinksOf(h, c) \subseteq c.links \cup own
            /\ c.id # x => LinksOf(h, c) = c.links
            /\ c.id = x => own \subseteq LinksOf(h, c)
    BY DEF LinksOf
  <2> QED
    BY <2>1, <2>2
<1>p. /\ answered \subseteq answered'
      /\ \A p \in answered' \ answered :
             p.customer = x /\ p.attribute \in own /\ x \in Ids(customers)
      /\ answered' \subseteq answered \cup [customer : Nat \cup {None}, attribute : Nat \cup {None}]
  BY <1>t DEF Creations
<1> HIDE DEF x, own
<1>2. TypeOK'
  BY <1>t, <1>a, <1>p, <1>1 DEF TypeOK, SameButLinks
<1>3. IdsInv'
  <2>1. \A d \in customers' : d.id \in Given /\ d.links \subseteq Given
    BY <1>t, <1>a DEF UsersInv, IdsInv
  <2>2. \A p \in answered' : {p.customer, p.attribute} \subseteq Given \cup {None}
    BY <1>t, <1>p DEF UsersInv, IdsInv
  <2> QED
    BY <2>1, <2>2, <1>1, IdleIs DEF UsersInv, IdsInv, Given, Others
<1>4. HandlerInv'
  BY <1>a, <1>1, IdleIs DEF UsersInv, HandlerInv, SameButLinks, Creating, Unlinking, Leaving, Others
<1>5. CreatingInv'
  <2>1. \A p \in answered' : p \in answered \/ (p.customer \in Ids(customers) /\ p.attribute # None)
    BY <1>t, <1>p
  <2>2. \A g \in Handlers : handler'[g].step \in Creating \cup Cleaning =>
            g # h /\ handler'[g] = handler[g]
    BY <1>1, IdleIs DEF Creating, Cleaning, Others
  <2> QED
    BY <1>a, <2>1, <2>2 DEF UsersInv, CreatingInv, SameButLinks
<1>6. LinksInv'
  BY <1>m, <1>a, <1>p DEF UsersInv, LinksInv, SameButLinks
<1>7. KnownInv'
  BY <1>a, <1>p DEF UsersInv, KnownInv, SameButLinks
<1>8. LeavingInv'
  <2>1. \A g \in Handlers : handler'[g].step \in Leaving => \A i \in handler'[g].own :
            /\ \A c \in customers' : i \in c.links => c.id = handler'[g].customer
            /\ \A p \in answered' : p.attribute = i => p.customer = handler'[g].customer
    BY <1>m, <1>a, <1>p, <1>1, IdleIs DEF UsersInv, LeavingInv, Leaving, Others
  <2>2. \A g \in Handlers : handler'[g].step = "removeAttribute" /\ faults' = 0 =>
            \A i \in handler'[g].own \ early :
                i \notin own /\ \A c \in customers' : i \notin c.links
    BY <1>t, <1>m, <1>a, <1>1, IdleIs DEF UsersInv, LeavingInv, Making, Others, At, own
  <2> QED
    BY <2>1, <2>2, <1>t, <1>1, IdleIs DEF UsersInv, LeavingInv, Leaving, Making, Creating, Others
<1>9. MakingInv'
  <2>1. \A g \in Handlers : handler'[g].step \in Making \cup Cleaning => \A i \in handler'[g].own :
            i \notin own /\ handler'[g] = handler[g] /\ g # h
    BY <1>m, <1>1, IdleIs DEF Making, Creating, Cleaning, Others
  <2>2. \A g \in Handlers : handler'[g].step \in Making \cup Cleaning => \A i \in handler'[g].own :
            \A p \in answered' : p.attribute # i
    BY <2>1, <1>p DEF UsersInv, MakingInv
  <2>3. \A g \in Handlers : handler'[g].step \in Making => \A i \in handler'[g].own :
            \A c \in customers' : i \notin c.links
    BY <2>1, <1>a DEF UsersInv, MakingInv
  <2>4. \A g \in Handlers : handler'[g].step \in Cleaning => \A i \in handler'[g].own :
            \A c \in customers' : i \in c.links => c.id = handler'[g].customer
    BY <2>1, <1>a DEF UsersInv, MakingInv
  <2> QED
    BY <2>1, <2>2, <2>3, <2>4, <1>t, <1>1, IdleIs
       DEF UsersInv, MakingInv, Making, Creating, Cleaning, Leaving, Ids, Others
<1>10. AnsweredKept'
  BY <1>t, <1>m, <1>a, <1>p DEF UsersInv, AnsweredKept, Ids, TypeOK
<1>11. DanglingExplained'
  <2>1. \A c \in customers :
            [customer |-> c.id, attribute |-> None] \in answered' =>
                [customer |-> c.id, attribute |-> None] \in answered
    BY <1>t, <1>p
  <2>2. \A d \in customers' : \E c \in customers : d.id = c.id /\ d.links \subseteq c.links \cup own
    BY <1>a
  <2>3. \A i \in own : i \in Ids(attributes) \cup early
    BY <1>m
  <2> QED
    BY <2>1, <2>2, <2>3, <1>t DEF UsersInv, DanglingExplained, Ids
<1>12. NoOrphan'
  <2>1. \A a \in attributes : Linked(a.id) => \E d \in customers' : a.id \in d.links
    BY <1>a DEF Linked
  <2>2. faults' = 0 => \A a \in attributes : a.id \in own => \E d \in customers' : a.id \in d.links
    BY <1>a DEF Ids, x
  <2>3. \A a \in attributes : \A g \in Handlers :
            a.id \in handler[g].own => a.id \in own \/ a.id \in handler'[g].own
    BY <1>1 DEF Others, own
  <2> QED
    BY <2>1, <2>2, <2>3, <1>t DEF UsersInv, NoOrphan, Linked
<1> QED
  BY <1>2, <1>3, <1>4, <1>5, <1>6, <1>7, <1>8, <1>9, <1>10, <1>11, <1>12 DEF UsersInv

(***************************************************************************)
(* Delete                                                                  *)
(***************************************************************************)
LEMMA UnlinkKeeps ==
    ASSUME UsersInv, NEW h \in Handlers, Unlink(h)
    PROVE  UsersInv'
<1> DEFINE own == handler[h].own
<1>t. /\ TypeOK /\ faults \in Nat /\ faults' \in 0..MaxFaults /\ faults' >= faults
      /\ "removeAttribute" \in Steps /\ own \subseteq named /\ At(h, "unlink")
      /\ UNCHANGED <<attributes, nextId, requests, answered, named>>
  BY UsersAssumption
     DEF UsersInv, TypeOK, Unlink, Works, FailedWrite, Fails, Steps, HandlerInv, Unlinking, At
<1>1. /\ handler' \in [Handlers -> HandlerState] /\ Others(h)
      /\ handler'[h].step = "removeAttribute" /\ handler'[h].customer = handler[h].customer
      /\ handler'[h].own = own
  BY <1>t, AdvancedIs, TurnIs DEF Unlink, GoOn
<1>e. /\ early \subseteq early' /\ early' \subseteq early \cup own
      /\ \A i \in own : i \in early' \/ Linked(i)
  BY DEF Unlink, Early
<1>a. /\ SameButLinks
      /\ \A c \in customers : \E d \in customers' :
             d.id = c.id /\ d.links \subseteq c.links /\ c.links \subseteq d.links \cup own
      /\ \A d \in customers' : \E c \in customers :
             d.id = c.id /\ d.links \subseteq c.links /\ c.links \subseteq d.links \cup own
      /\ faults' = 0 => \A d \in customers' : d.links \cap own = {}
  <2>1. CASE customers' = Unlinked(h)
    <3>1. /\ SameButLinks
          /\ \A c \in customers : \E d \in customers' : d.id = c.id /\ d.links = c.links \ own
          /\ \A d \in customers' : \E c \in customers : d.id = c.id /\ d.links = c.links \ own
      BY <2>1, UnlinkedIs
    <3>2. \A c \in customers : /\ c.links \ own \subseteq c.links
                               /\ c.links \subseteq (c.links \ own) \cup own
                               /\ (c.links \ own) \cap own = {}
      OBVIOUS
    <3> QED
      BY <3>1, <3>2
  <2>2. CASE customers' = customers /\ faults' > 0
    BY <1>t, <2>2 DEF SameButLinks, TypeOK
  <2>3. customers' = Unlinked(h) \/ (customers' = customers /\ faults' > 0)
    BY <1>t DEF Unlink, FailedWrite, Fails
  <2> QED
    BY <2>1, <2>2, <2>3
<1> HIDE DEF own
<1>2. TypeOK'
  BY <1>t, <1>e, <1>a, <1>1 DEF TypeOK, SameButLinks
<1>3. IdsInv'
  BY <1>t, <1>a, <1>1 DEF UsersInv, IdsInv, Given, Others, own
<1>4. HandlerInv'
  BY <1>t, <1>a, <1>1 DEF UsersInv, HandlerInv, SameButLinks, Creating, Unlinking, Leaving, Others
<1>5. CreatingInv'
  BY <1>t, <1>a, <1>1 DEF UsersInv, CreatingInv, SameButLinks, Creating, Cleaning, Others
<1>6. LinksInv'
  BY <1>t, <1>a DEF UsersInv, LinksInv, SameButLinks
<1>7. KnownInv'
  BY <1>t, <1>a DEF UsersInv, KnownInv, SameButLinks
<1>8. LeavingInv'
  BY <1>t, <1>e, <1>a, <1>1
     DEF UsersInv, LeavingInv, MakingInv, Leaving, Making, Creating, Others, Linked
<1>9. MakingInv'
  BY <1>t, <1>e, <1>a, <1>1
     DEF UsersInv, MakingInv, Making, Creating, Cleaning, Leaving, Ids, Others, At
<1>10. AnsweredKept'
  BY <1>t, <1>a DEF UsersInv, AnsweredKept, Ids
<1>11. DanglingExplained'
  BY <1>t, <1>e, <1>a DEF UsersInv, DanglingExplained, Ids
<1>12. NoOrphan'
  BY <1>t, <1>a, <1>1 DEF UsersInv, NoOrphan, Linked, Others, own
<1> QED
  BY <1>2, <1>3, <1>4, <1>5, <1>6, <1>7, <1>8, <1>9, <1>10, <1>11, <1>12 DEF UsersInv

\* The delete of a customer takes in hand the links that the customer has.
LEMMA FoundKeeps ==
    ASSUME UsersInv, NEW h \in Handlers, At(h, "findCustomer"),
           NEW c \in customers, c.id = handler[h].customer,
           Turn(h, [Advanced(h, "removeAddresses") EXCEPT !.own = c.links]),
           UNCHANGED <<customers, attributes, nextId, requests, faults, answered, named, early>>
    PROVE  UsersInv'
<1>t. /\ TypeOK /\ "removeAddresses" \in Steps /\ handler[h].own = {} /\ c.id \in named
      /\ c.links \subseteq Nat /\ c.links \subseteq Given
  BY DEF UsersInv, TypeOK, HandlerInv, IdsInv, Steps, At
<1>1. /\ handler' \in [Handlers -> HandlerState] /\ Others(h)
      /\ handler'[h].step = "removeAddresses" /\ handler'[h].customer = c.id
      /\ handler'[h].own = c.links
  <2> DEFINE st == [Advanced(h, "removeAddresses") EXCEPT !.own = c.links]
  <2>1. st \in HandlerState /\ st.step = "removeAddresses" /\ st.customer = c.id /\ st.own = c.links
    BY <1>t, AdvancedIs DEF HandlerState
  <2> QED
    BY <1>t, <2>1, TurnIs
<1>2. TypeOK'
  BY <1>t, <1>1 DEF TypeOK
<1>3. IdsInv'
  BY <1>t, <1>1 DEF UsersInv, IdsInv, Given, Others
<1>4. HandlerInv'
  BY <1>t, <1>1 DEF UsersInv, HandlerInv, Ids, Creating, Unlinking, Leaving, Others
<1>5. CreatingInv'
  BY <1>1 DEF UsersInv, CreatingInv, Ids, Creating, Cleaning, Others
<1>6. LinksInv' /\ KnownInv'
  BY DEF UsersInv, LinksInv, KnownInv, Ids
<1>7. LeavingInv'
  BY <1>1 DEF UsersInv, LeavingInv, LinksInv, Leaving, Making, Creating, Others
<1>8. MakingInv'
  BY <1>1 DEF UsersInv, MakingInv, Making, Creating, Cleaning, Leaving, Ids, Others
<1>9. AnsweredKept' /\ DanglingExplained'
  BY DEF UsersInv, AnsweredKept, DanglingExplained, Ids
<1>10. NoOrphan'
  BY <1>t, <1>1 DEF UsersInv, NoOrphan, Linked, Others
<1> QED
  BY <1>2, <1>3, <1>4, <1>5, <1>6, <1>7, <1>8, <1>9, <1>10 DEF UsersInv

\* The customer goes, whose cards and addresses have been removed before.
LEMMA RemoveCustomerKeeps ==
    ASSUME UsersInv, NEW h \in Handlers, RemoveCustomer(h)
    PROVE  UsersInv'
<1> DEFINE x == handler[h].customer
<1>t. /\ TypeOK /\ (faults' = 0 => faults = 0) /\ faults' \in 0..MaxFaults /\ x \in named
      /\ UNCHANGED <<attributes, nextId, requests, answered, named, early>>
  BY UsersAssumption
     DEF UsersInv, TypeOK, HandlerInv, RemoveCustomer, End, Works, FailedWrite, Fails, Leaving, At
<1>1. handler' \in [Handlers -> HandlerState] /\ handler'[h] = Idle /\ Others(h)
  BY <1>t, IdleIs, TurnIs DEF RemoveCustomer, End
<1>a. customers' \subseteq customers /\ \A c \in customers : c.id # x => c \in customers'
  BY DEF RemoveCustomer, FailedWrite
<1>l. \A i \in handler[h].own : \A a \in attributes : a.id = i => a.by = x
  BY DEF UsersInv, LeavingInv, Leaving, RemoveCustomer, At
<1> HIDE DEF x
<1>2. TypeOK'
  BY <1>t, <1>a, <1>1 DEF TypeOK
<1>3. IdsInv'
  BY <1>t, <1>a, <1>1, IdleIs DEF UsersInv, IdsInv, Given, Others
<1>4. HandlerInv'
  BY <1>t, <1>a, <1>1, IdleIs DEF UsersInv, HandlerInv, Ids, Creating, Unlinking, Leaving, Others
<1>5. CreatingInv'
  BY <1>t, <1>a, <1>1, IdleIs DEF UsersInv, CreatingInv, Ids, Creating, Cleaning, Others
<1>6. LinksInv' /\ KnownInv'
  BY <1>t, <1>a DEF UsersInv, LinksInv, KnownInv, Ids
<1>7. LeavingInv'
  BY <1>t, <1>a, <1>1, IdleIs DEF UsersInv, LeavingInv, Leaving, Making, Creating, Others
<1>8. MakingInv'
  BY <1>t, <1>a, <1>1, IdleIs DEF UsersInv, MakingInv, Making, Creating, Cleaning, Leaving, Ids,
       Others
<1>9. AnsweredKept' /\ DanglingExplained'
  BY <1>t, <1>a, UsersAssumption DEF UsersInv, AnsweredKept, DanglingExplained, Ids, TypeOK
<1>10. NoOrphan'
  BY <1>t, <1>a, <1>l, <1>1 DEF UsersInv, NoOrphan, LinksInv, Linked, Others
<1> QED
  BY <1>2, <1>3, <1>4, <1>5, <1>6, <1>7, <1>8, <1>9, <1>10 DEF UsersInv

(***************************************************************************)
(* All steps                                                               *)
(***************************************************************************)
LEMMA FaultsGrow ==
    ASSUME UsersInv, Works \/ Fails
    PROVE  /\ faults' \in 0..MaxFaults /\ faults' >= faults
           /\ (faults' = 0 => faults = 0 /\ Works) /\ (Fails => faults' > 0)
BY UsersAssumption DEF UsersInv, TypeOK, Works, Fails

\* The link of a new card or address, whichever way it ends.
LEMMA LinkKeeps ==
    ASSUME UsersInv, NEW h \in Handlers, Link(h)
    PROVE  UsersInv'
<1>f. (Works \/ Fails) /\ UNCHANGED <<attributes, nextId, requests, named, early>> /\ At(h, "link")
  BY DEF Link, FailedWrite
<1>1. CASE /\ handler[h].customer \in Ids(customers) /\ customers' = LinkedTo(h)
           /\ Answer(h, Creations(handler[h].customer, handler[h].own))
  BY <1>f, <1>1, FaultsGrow, LinkedKeeps DEF Answer
<1>2. CASE Fails /\ customers' = LinkedTo(h) /\ End(h)
  <2>1. {} \in SUBSET handler[h].own /\ Creations(handler[h].customer, {}) = {}
    BY DEF Creations
  <2> QED
    BY <1>f, <1>2, <2>1, FaultsGrow, LinkedKeeps DEF End
<1>3. CASE customers' = customers /\ End(h) /\ (handler[h].customer \notin Ids(customers) \/ Fails)
  <2>1. faults' = 0 => handler[h].customer \in named \cup Outsiders
    BY <1>f, <1>3, FaultsGrow DEF UsersInv, HandlerInv, At
  <2>2. \A a \in attributes : a.id \in handler[h].own => a.by = handler[h].customer
    BY <1>f DEF UsersInv, MakingInv, Making, At
  <2> QED
    BY <1>f, <1>3, <2>1, <2>2, FaultsGrow, EndKeeps DEF End
<1> QED
  BY <1>1, <1>2, <1>3 DEF Link, FailedWrite

\* The steps that create ...
LEMMA CreateKeeps ==
    ASSUME UsersInv, NEW h \in Handlers, Create(h)
    PROVE  UsersInv'
<1>k. /\ {"addresses", "cards"} \subseteq Kinds
      /\ {"putAddresses", "putCustomer", "cleanCards"} \subseteq Steps
  BY DEF Kinds, Steps
<1>1. CASE PutCards(h)
  BY <1>1, <1>k, PutKeeps DEF PutCards
<1>2. CASE PutAddresses(h)
  BY <1>2, <1>k, PutKeeps DEF PutAddresses
<1>3. CASE CleanAddresses(h)
  BY <1>3, <1>k, RemoveOwnKeeps DEF CleanAddresses
<1>4. CASE CleanCards(h)
  <2>1. Works \/ Fails
    BY <1>4 DEF CleanCards, RemoveOwn, FailedWrite
  <2>2. /\ attributes' \subseteq attributes
        /\ \A a \in attributes : a \in attributes' \/ a.id \in handler[h].own
    BY <1>4 DEF CleanCards, RemoveOwn, FailedWrite
  <2>3. faults' = 0 => \A a \in attributes' : a.id \notin handler[h].own
    <3>1. faults' = 0 => \A a \in attributes : a.id \in handler[h].own => a.kind = "cards"
      BY <1>4, <2>1, FaultsGrow DEF UsersInv, MakingInv, CleanCards, At
    <3>2. faults' = 0 => \A a \in attributes' : a.id \notin handler[h].own \/ a.kind # "cards"
      BY <1>4, <2>1, FaultsGrow DEF CleanCards, RemoveOwn, FailedWrite
    <3> QED
      BY <2>2, <3>1, <3>2
  <2> QED
    BY <1>4, <2>1, <2>2, <2>3, FaultsGrow, EndKeeps DEF CleanCards, End, At
<1> QED
  BY <1>1, <1>2, <1>3, <1>4, PutCustomerKeeps, PutAttributeKeeps, LinkKeeps DEF Create

\* ... those that delete ...
LEMMA DeleteKeeps ==
    ASSUME UsersInv, NEW h \in Handlers, Delete(h)
    PROVE  UsersInv'
<1>k. {"addresses", "cards"} \subseteq Kinds /\ {"removeCards", "removeCustomer"} \subseteq Steps
  BY DEF Kinds, Steps
<1>1. CASE RemoveAttribute(h)
  <2>1. Works \/ Fails
    BY <1>1 DEF RemoveAttribute, FailedWrite
  <2>2. /\ attributes' \subseteq attributes
        /\ \A a \in attributes : a \in attributes' \/ a.id \in handler[h].own
        /\ faults' = 0 => \A a \in attributes' : a.id \notin handler[h].own
    BY <1>1, <2>1, FaultsGrow DEF RemoveAttribute, FailedWrite
  <2> QED
    BY <1>1, <2>1, <2>2, FaultsGrow, EndKeeps DEF RemoveAttribute, End, At
<1>2. CASE FindCustomer(h)
  <2>1. CASE Works /\ \E c \in customers :
                /\ c.id = handler[h].customer
                /\ Turn(h, [Advanced(h, "removeAddresses") EXCEPT !.own = c.links])
    BY <1>2, <2>1, FoundKeeps DEF FindCustomer, Works
  <2>2. CASE Turn(h, Idle) /\ (Works \/ Fails)
    <3>1. handler[h].own = {}
      BY <1>2 DEF FindCustomer, UsersInv, HandlerInv, At
    <3> QED
      BY <1>2, <2>2, <3>1, FaultsGrow, EndKeeps DEF FindCustomer
  <2> QED
    BY <1>2, <2>1, <2>2 DEF FindCustomer
<1>3. CASE RemoveAddresses(h)
  BY <1>3, <1>k, RemoveOwnKeeps DEF RemoveAddresses
<1>4. CASE RemoveCards(h)
  BY <1>4, <1>k, RemoveOwnKeeps DEF RemoveCards
<1> QED
  BY <1>1, <1>2, <1>3, <1>4, UnlinkKeeps, RemoveCustomerKeeps DEF Delete

\* ... and a handler that is killed.
LEMMA KillKeeps ==
    ASSUME UsersInv, NEW h \in Handlers, Kill(h)
    PROVE  UsersInv'
BY FaultsGrow, EndKeeps DEF Kill

\* The database as it is delivered: nothing is held, nothing is answered.
LEMMA InitUsers == Init => UsersInv
<1> SUFFICES ASSUME Init PROVE UsersInv
  OBVIOUS
<1>s. /\ Len(Seeded) \in Nat /\ Accounts = 1..Len(Seeded)
      /\ \A i \in Accounts : Seeded[i] \in Names
      /\ \A i, j \in Accounts : Seeded[i] = Seeded[j] => i = j
  BY UsersAssumption DEF Accounts
<1> DEFINE L == Len(Seeded)
<1>c. \A c \in customers : \E i \in 1..L :
          c = [id |-> 3 * i, name |-> Seeded[i], links |-> {3 * i - 2, 3 * i - 1}]
  BY <1>s DEF Init, SeedCustomers, CustomerOf, AddressOf, CardOf
<1>h. \A h \in Handlers : handler[h] = Idle
  BY DEF Init
<1>d. \A i \in 1..L : \E c \in customers :
          c.id = 3 * i /\ c.links = {3 * i - 2, 3 * i - 1}
  <2> SUFFICES ASSUME NEW i \in 1..L
               PROVE  \E c \in customers : c.id = 3 * i /\ c.links = {3 * i - 2, 3 * i - 1}
    OBVIOUS
  <2>1. [id |-> 3 * i, name |-> Seeded[i], links |-> {3 * i - 2, 3 * i - 1}] \in customers
    BY <1>s DEF Init, SeedCustomers, CustomerOf, AddressOf, CardOf
  <2> QED
    BY <2>1
<1>y. \A c \in customers : c \in [id : Nat, name : Names, links : SUBSET Nat]
  <2>1. \A i \in 1..L :
           3 * i \in Nat /\ {3 * i - 2, 3 * i - 1} \in SUBSET Nat /\ Seeded[i] \in Names
    BY <1>s
  <2> QED
    BY <1>c, <2>1
<1>a. \A a \in attributes : \E i \in 1..(L + 1) :
          /\ a \in [id : Nat, kind : Kinds, by : Nat \cup {None}]
          /\ a.id = 3 * i - 2 \/ a.id = 3 * i - 1
          /\ a.by = IF i \in 1..L THEN 3 * i ELSE None
  <2>1. \A a \in SeedAddresses : \E i \in 1..(L + 1) :
            /\ a = [id |-> 3 * i - 2, kind |-> "addresses",
                    by |-> IF i \in 1..L THEN 3 * i ELSE None]
    BY <1>s DEF SeedAddresses, Seed, AddressOf, CustomerOf
  <2>2. \A a \in SeedCards : \E i \in 1..(L + 1) :
            /\ a = [id |-> 3 * i - 1, kind |-> "cards", by |-> IF i \in 1..L THEN 3 * i ELSE None]
    BY <1>s DEF SeedCards, Seed, CardOf, CustomerOf
  <2>3. \A i \in 1..(L + 1) : 3 * i - 2 \in Nat /\ 3 * i - 1 \in Nat /\ 3 * i \in Nat
    BY <1>s
  <2> QED
    BY <2>1, <2>2, <2>3 DEF Init, Kinds
<1>b. \A i \in 1..L : 3 * i - 2 \in Ids(attributes) /\ 3 * i - 1 \in Ids(attributes)
  <2> SUFFICES ASSUME NEW i \in 1..L
               PROVE 3 * i - 2 \in Ids(attributes) /\ 3 * i - 1 \in Ids(attributes)
    OBVIOUS
  <2>1. [id |-> 3 * i - 2, kind |-> "addresses", by |-> 3 * i] \in attributes
    BY <1>s DEF Init, SeedAddresses, Seed, AddressOf, CustomerOf
  <2>2. [id |-> 3 * i - 1, kind |-> "cards", by |-> 3 * i] \in attributes
    BY <1>s DEF Init, SeedCards, Seed, CardOf, CustomerOf
  <2> QED
    BY <2>1, <2>2 DEF Ids
<1>p. \A p \in answered :
          \/ \E c \in customers : p = [customer |-> c.id, attribute |-> None]
          \/ \E a \in attributes : p = [customer |-> a.by, attribute |-> a.id]
  BY DEF Init, SeedCreations
<1>n. nextId = 3 * L + 3 /\ nextId \in Nat
  BY <1>s DEF Init, CustomerOf
<1>o. /\ named = {} /\ early = {} /\ faults = 0 /\ requests = 0
      /\ handler \in [Handlers -> HandlerState]
  BY IdleIs DEF Init
<1>1. TypeOK
  <2>1. \A c, d \in customers : c.id = d.id \/ c.name = d.name => c = d
    <3>1. SUFFICES ASSUME NEW c \in customers, NEW d \in customers, c.id = d.id \/ c.name = d.name
                   PROVE  c = d
      OBVIOUS
    <3>2. PICK i \in 1..L :
              c = [id |-> 3 * i, name |-> Seeded[i], links |-> {3 * i - 2, 3 * i - 1}]
      BY <1>c
    <3>3. PICK j \in 1..L :
              d = [id |-> 3 * j, name |-> Seeded[j], links |-> {3 * j - 2, 3 * j - 1}]
      BY <1>c
    <3>4. 3 * i = 3 * j \/ Seeded[i] = Seeded[j]
      BY <3>1, <3>2, <3>3
    <3>5. i = j
      BY <1>s, <3>4
    <3> QED
      BY <3>2, <3>3, <3>5
  <2>2. answered \subseteq [customer : Nat \cup {None}, attribute : Nat \cup {None}]
    BY <1>a, <1>y, <1>p
  <2> QED
    BY <1>a, <1>y, <1>n, <1>o, <2>1, <2>2, UsersAssumption DEF TypeOK
<1>2. IdsInv
  <2>1. \A c \in customers : c.id \in Given /\ c.links \subseteq Given
    BY <1>s, <1>c, <1>n DEF Given
  <2>2. \A a \in attributes : a.id \in Given /\ a.by \in Given \cup {None}
    BY <1>s, <1>a, <1>n DEF Given
  <2>3. \A p \in answered : {p.customer, p.attribute} \subseteq Given \cup {None}
    BY <1>p, <2>1, <2>2
  <2>4. Unknown \in Given
    BY <1>s, <1>n DEF Given, Unknown
  <2> QED
    BY <1>h, <1>o, <2>1, <2>2, <2>3, <2>4, IdleIs DEF IdsInv
<1>3. HandlerInv /\ CreatingInv /\ MakingInv /\ LeavingInv
  BY <1>h, IdleIs
     DEF HandlerInv, CreatingInv, MakingInv, LeavingInv, Creating, Cleaning, Unlinking, Leaving,
          Making
<1>4. LinksInv
  <2>1. SUFFICES ASSUME NEW c \in customers, NEW k \in c.links
                 PROVE  /\ \A d \in customers : k \in d.links => d = c
                        /\ \A a \in attributes : a.id = k => a.by = c.id
                        /\ \A p \in answered : p.attribute = k => p.customer = c.id
    BY DEF LinksInv
  <2>2. PICK i \in 1..L : c.id = 3 * i /\ (k = 3 * i - 2 \/ k = 3 * i - 1)
    BY <1>c
  <2>3. \A d \in customers : k \in d.links => d = c
    <3>1. \A d \in customers : k \in d.links => d.id = c.id
      <4> SUFFICES ASSUME NEW d \in customers, k \in d.links PROVE d.id = c.id
        OBVIOUS
      <4>1. PICK j \in 1..L : d.id = 3 * j /\ (k = 3 * j - 2 \/ k = 3 * j - 1)
        BY <1>c
      <4>2. i \in Nat /\ j \in Nat
        BY <1>s
      <4>3. i = j
        BY <2>2, <4>1, <4>2
      <4> QED
        BY <2>2, <4>1, <4>3
    <3> QED
      BY <1>1, <3>1 DEF TypeOK
  <2>4. ASSUME NEW a \in attributes, a.id = k PROVE a.by = c.id
    <3>1. PICK j \in 1..(L + 1) :
              /\ a.id = 3 * j - 2 \/ a.id = 3 * j - 1
              /\ a.by = IF j \in 1..L THEN 3 * j ELSE None
      BY <1>a
    <3>2. i \in Nat /\ j \in Nat
      BY <1>s
    <3>3. i = j
      BY <2>2, <2>4, <3>1, <3>2
    <3> QED
      BY <2>2, <3>1, <3>3
  <2>5. k # None
    BY <1>s, <2>2, UsersAssumption
  <2> QED
    BY <1>p, <2>3, <2>4, <2>5
<1>5. KnownInv /\ AnsweredKept
  <2>1. \A a \in attributes : a.by = None \/ \E c \in customers : c.id = a.by /\ a.id \in c.links
    <3> SUFFICES ASSUME NEW a \in attributes
                 PROVE  a.by = None \/ \E c \in customers : c.id = a.by /\ a.id \in c.links
      OBVIOUS
    <3>1. PICK i \in 1..(L + 1) :
              /\ a.id = 3 * i - 2 \/ a.id = 3 * i - 1
              /\ a.by = IF i \in 1..L THEN 3 * i ELSE None
      BY <1>a
    <3>2. CASE i \in 1..L
      BY <1>d, <3>1, <3>2
    <3>3. CASE i \notin 1..L
      BY <3>1, <3>3
    <3> QED
      BY <3>2, <3>3
  <2> QED
    BY <1>p, <2>1, <1>o DEF KnownInv, AnsweredKept, Ids
<1>6. DanglingExplained
  <2>1. \A c \in customers : \A k \in c.links : k \in Ids(attributes)
    BY <1>b, <1>c
  <2> QED
    BY <2>1 DEF DanglingExplained
<1>7. NoOrphan
  BY <1>a, <1>d, <1>s DEF NoOrphan, Linked, Outsiders
<1> QED
  BY <1>1, <1>2, <1>3, <1>4, <1>5, <1>6, <1>7 DEF UsersInv

(***************************************************************************)
(* UsersInv, the inductive invariant: who holds which id, and why what was *)
(* answered is still there.                                                *)
(***************************************************************************)
THEOREM UsersInvariance == Spec => []UsersInv
<1>1. UsersInv /\ [Next]_vars => UsersInv'
  <2> SUFFICES ASSUME UsersInv, [Next]_vars PROVE UsersInv'
    OBVIOUS
  <2>1. CASE UNCHANGED vars
    BY <2>1
       DEF vars, UsersInv, TypeOK, IdsInv, Given, HandlerInv, CreatingInv, MakingInv, LinksInv,
           LeavingInv, KnownInv, AnsweredKept, DanglingExplained, NoOrphan, Linked
  <2> QED
    BY <2>1, ReceiveKeeps, CreateKeeps, DeleteKeeps, KillKeeps DEF Next, Quiesce
<1> QED
  BY InitUsers, <1>1, PTL DEF Spec

\* Every variable keeps its type, ids are given out once and names are unique.
THEOREM UsersTyped == Spec => []TypeOK
BY UsersInvariance, PTL DEF UsersInv

\* AnsweredKept, for any number of handlers, requests, faults and customers that
\* were there before: what was answered with success stays until a delete names it.
THEOREM AnsweredStays == Spec => []AnsweredKept
BY UsersInvariance, PTL DEF UsersInv

\* DanglingExplained: a link points to nothing only after a delete that came before
\* the link, or one whose call has failed.
THEOREM DanglingLinks == Spec => []DanglingExplained
BY UsersInvariance, PTL DEF UsersInv

\* NoOrphan: without a fault no card and no address is left that nobody refers to.
THEOREM NoOrphans == Spec => []NoOrphan
BY UsersInvariance, PTL DEF UsersInv

\* NeverRevived: a customer who is new in the collection was never heard of before.
THEOREM NobodyRevived == Spec => NeverRevived
<1> DEFINE A == \A c \in customers' :
                   c.id \in Ids(customers) \/ c.id \notin named \cup {p.customer : p \in answered}
<1>1. UsersInv /\ [Next]_vars => [A]_vars
  <2> SUFFICES ASSUME UsersInv, Next PROVE A
    OBVIOUS
  <2>1. CASE Ids(customers') \subseteq Ids(customers)
    BY <2>1 DEF Ids
  <2>2. ASSUME NEW h \in Handlers, PutCustomer(h) PROVE A
    <3>1. At(h, "putCustomer") /\ (customers' = customers \/ customers' = Stored(h))
      BY <2>2 DEF PutCustomer, FailedWrite
    <3>2. handler[h].customer \notin named \cup {p.customer : p \in answered}
      BY <3>1 DEF UsersInv, CreatingInv, Creating, At
    <3> QED
      BY <3>1, <3>2, StoredIs DEF Ids
  <2>3. ASSUME NEW h \in Handlers, Link(h) PROVE Ids(customers') \subseteq Ids(customers)
    BY <2>3, LinkedToIs DEF Link, FailedWrite, SameButLinks
  <2>4. ASSUME NEW h \in Handlers, Unlink(h) PROVE Ids(customers') \subseteq Ids(customers)
    BY <2>4, UnlinkedIs DEF Unlink, FailedWrite, SameButLinks
  <2>5. ASSUME NEW h \in Handlers, RemoveCustomer(h) PROVE Ids(customers') \subseteq Ids(customers)
    BY <2>5 DEF RemoveCustomer, FailedWrite, Ids
  <2>6. ASSUME NEW h \in Handlers,
               \/ PutCards(h) \/ PutAddresses(h) \/ CleanAddresses(h) \/ CleanCards(h)
               \/ PutAttribute(h) \/ RemoveAttribute(h) \/ FindCustomer(h)
               \/ RemoveAddresses(h) \/ RemoveCards(h) \/ Kill(h)
        PROVE  customers' = customers
    BY <2>6 DEF PutCards, PutAddresses, CleanAddresses, CleanCards, PutAttribute, RemoveAttribute,
                FindCustomer, RemoveAddresses, RemoveCards, Kill
  <2>7. ASSUME NEW h \in Handlers, Receive(h) PROVE customers' = customers
    BY <2>7 DEF Receive, PostUser, PostAttribute, DeleteAttribute, DeleteCustomer, Begin
  <2> QED
    BY <2>1, <2>2, <2>3, <2>4, <2>5, <2>6, <2>7 DEF Next, Create, Delete, Quiesce, vars
<1> QED
  BY UsersInvariance, <1>1, PTL DEF Spec, NeverRevived
=============================================================================
