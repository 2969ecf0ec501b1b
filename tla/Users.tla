------------------------------- MODULE Users -------------------------------
(***************************************************************************)
(* The user service: customers, and the addresses and cards they refer to, *)
(* in three collections of a database without transactions.  A handler is  *)
(* at one of the steps of CreateUser, CreateAddress, CreateCard or Delete; *)
(* each step is one call to the database.  A call may fail, applied or     *)
(* not, and a handler may be killed at any step.                           *)
(*                                                                         *)
(* What the documents say (names, streets, numbers, salts) is left out but *)
(* for the username, which is unique.  Reads of the service change nothing *)
(* and are left out: a client may come to know every id that was stored.   *)
(***************************************************************************)
EXTENDS Naturals, Sequences, FiniteSets

CONSTANTS
    Handlers,     \* goroutines that serve a request
    Names,        \* usernames
    Seeded,       \* the names of the customers the database is delivered with
    MaxRequests,  \* bound: requests received
    MaxFaults,    \* bound: failed calls and killed handlers
    None

ASSUME UsersAssumption ==
    /\ MaxRequests \in Nat /\ MaxFaults \in Nat
    /\ None \notin Nat /\ Seeded \in Seq(Names)
    /\ \A i, j \in DOMAIN Seeded : Seeded[i] = Seeded[j] => i = j

Kinds == {"addresses", "cards"}

\* A well-formed id that was never given out, and whom a document is for that is for
\* no customer: the user id of a request is not looked up.
Unknown == 0
Outsiders == {None, Unknown}

VARIABLES
    customers,   \* documents [id, name, links]: links holds both lists of ids
    attributes,  \* documents [id, kind]; by: whom they were created for, not stored
    handler,     \* what each handler is doing
    nextId,      \* the next fresh object id
    requests, faults,
    answered,    \* the creations answered with 200, or delivered: [customer, attribute]
    named,       \* ids that a DELETE request has named so far
    early        \* attributes whose delete found no customer referring to them

vars == <<customers, attributes, handler, nextId, requests, faults, answered, named, early>>

Ids(docs) == {d.id : d \in docs}
Linked(a) == \E c \in customers : a \in c.links

\* customer: the one the request is about.  own: the attributes it has created
\* or is going to remove.  failed: the kinds that could not be stored.
Working(step, customer, name, kinds, own) ==
    [step |-> step, customer |-> customer, name |-> name, kinds |-> kinds, own |-> own,
     failed |-> {}]

Idle == Working("idle", None, None, {}, {})

-----------------------------------------------------------------------------
(* The database the service is delivered with (docker/user-db/scripts): each *)
(* customer has an address and a card, and there is one more of both, that   *)
(* belong to nobody.                                                         *)

Accounts == DOMAIN Seeded
AddressOf(i) == 3 * i - 2
CardOf(i) == 3 * i - 1
CustomerOf(i) == 3 * i

Seed(ids, kind) ==
    {[id |-> ids[i], kind |-> kind, by |-> IF i \in Accounts THEN CustomerOf(i) ELSE None] :
        i \in DOMAIN ids}

SeedAddresses == Seed([i \in 1..(Len(Seeded) + 1) |-> AddressOf(i)], "addresses")
SeedCards == Seed([i \in 1..(Len(Seeded) + 1) |-> CardOf(i)], "cards")

SeedCustomers ==
    {[id |-> CustomerOf(i), name |-> Seeded[i], links |-> {AddressOf(i), CardOf(i)}] :
        i \in Accounts}

SeedCreations ==
    {[customer |-> c.id, attribute |-> a] : c \in SeedCustomers, a \in {None}}
        \cup {[customer |-> a.by, attribute |-> a.id] : a \in SeedAddresses \cup SeedCards}

Init ==
    /\ customers = SeedCustomers /\ attributes = SeedAddresses \cup SeedCards
    /\ handler = [h \in Handlers |-> Idle]
    /\ nextId = CustomerOf(Len(Seeded) + 1) /\ requests = 0 /\ faults = 0
    /\ answered = SeedCreations /\ named = {} /\ early = {}

-----------------------------------------------------------------------------
(* Requests *)

Begin(h, state) ==
    /\ handler[h].step = "idle" /\ requests < MaxRequests
    /\ requests' = requests + 1
    /\ handler' = [handler EXCEPT ![h] = state]
    /\ UNCHANGED <<customers, attributes, faults, answered, early>>

\* POST /register and POST /customers: CreateUser, with the id it makes up and
\* the cards and addresses that came with the user, if any.
PostUser(h) ==
    \E name \in Names, kinds \in SUBSET Kinds :
        /\ Begin(h, Working("putCards", nextId, name, kinds, {}))
        /\ nextId' = nextId + 1
        /\ UNCHANGED named

\* POST /cards and POST /addresses, for a customer, for nobody, or for an id that the
\* client has made up.
PostAttribute(h) ==
    \E c \in Ids(customers) \cup {p.customer : p \in answered} \cup Outsiders, kind \in Kinds :
        /\ Begin(h, Working("putAttribute", c, None, {kind}, {}))
        /\ UNCHANGED <<nextId, named>>

DeleteAttribute(h) ==
    \E a \in attributes :
        /\ Begin(h, Working("unlink", None, None, {a.kind}, {a.id}))
        /\ named' = named \cup {a.id}
        /\ UNCHANGED nextId

DeleteCustomer(h) ==
    \E c \in customers :
        /\ Begin(h, Working("findCustomer", c.id, None, {}, {}))
        /\ named' = named \cup {c.id}
        /\ UNCHANGED nextId

-----------------------------------------------------------------------------
(* Calls to the database *)

At(h, step) == handler[h].step = step
Turn(h, state) == handler' = [handler EXCEPT ![h] = state]
Advanced(h, step) == [handler[h] EXCEPT !.step = step]
GoOn(h, step) == Turn(h, Advanced(h, step))

Works == UNCHANGED faults
Fails == faults < MaxFaults /\ faults' = faults + 1

\* A call that fails has been applied all the same, or has not.
FailedWrite(docs, written) == Fails /\ \E d \in {docs, written} : docs' = d

Creations(c, as) == {[customer |-> c, attribute |-> a] : a \in as}

\* The request is answered: with these creations, or with an error or a delete.
Answer(h, creations) == Turn(h, Idle) /\ answered' = answered \cup creations
End(h) == Turn(h, Idle) /\ UNCHANGED answered

NewAttribute(h, kind) == [id |-> nextId, kind |-> kind, by |-> handler[h].customer]

-----------------------------------------------------------------------------
(* CreateUser *)

\* createCards and createAddresses: a failure does not stop CreateUser.
Put(h, kind, next) ==
    \/ /\ kind \notin handler[h].kinds
       /\ GoOn(h, next)
       /\ UNCHANGED <<attributes, nextId>> /\ Works
    \/ /\ kind \in handler[h].kinds
       /\ nextId' = nextId + 1
       /\ \/ /\ attributes' = attributes \cup {NewAttribute(h, kind)} /\ Works
             /\ Turn(h, [Advanced(h, next) EXCEPT !.own = @ \cup {nextId}])
          \/ /\ FailedWrite(attributes, attributes \cup {NewAttribute(h, kind)})
             /\ Turn(h, [Advanced(h, next) EXCEPT !.failed = @ \cup {kind}])

PutCards(h) ==
    /\ At(h, "putCards") /\ Put(h, "cards", "putAddresses")
    /\ UNCHANGED <<customers, requests, answered, named, early>>

PutAddresses(h) ==
    /\ At(h, "putAddresses") /\ Put(h, "addresses", "putCustomer")
    /\ UNCHANGED <<customers, requests, answered, named, early>>

Stored(h) == customers \cup {[id |-> handler[h].customer, name |-> handler[h].name,
                               links |-> handler[h].own]}

\* Mutant of Free: the index is not unique.
AnyName(name) == name \in Names

Free(name) == \A c \in customers : c.name # name

\* Mutant of PutCustomer: a user that is not stored leaves what came with it.
PutCustomerOnly(h) ==
    /\ At(h, "putCustomer")
    /\ \/ /\ Free(handler[h].name) /\ customers' = Stored(h)
          /\ Answer(h, IF handler[h].failed = {}
                       THEN Creations(handler[h].customer, handler[h].own \cup {None})
                       ELSE {})
       \/ ~Free(handler[h].name) /\ UNCHANGED customers /\ End(h)
    /\ Works
    /\ UNCHANGED <<attributes, nextId, requests, named, early>>

\* UpsertId of the customer: the index refuses a name that is taken.
PutCustomer(h) ==
    /\ At(h, "putCustomer")
    /\ \/ /\ Free(handler[h].name) /\ customers' = Stored(h) /\ Works
          /\ Answer(h, IF handler[h].failed = {}
                       THEN Creations(handler[h].customer, handler[h].own \cup {None})
                       ELSE {})
       \/ /\ ~Free(handler[h].name) /\ UNCHANGED customers /\ Works
          /\ GoOn(h, "cleanAddresses") /\ UNCHANGED answered
       \/ /\ Free(handler[h].name) /\ FailedWrite(customers, Stored(h))
          /\ GoOn(h, "cleanAddresses") /\ UNCHANGED answered
    /\ UNCHANGED <<attributes, nextId, requests, named, early>>

\* RemoveAll, whose error nobody looks at.
RemoveOwn(h, kind) ==
    LET left == {a \in attributes : a.id \notin handler[h].own \/ a.kind # kind}
    IN  \/ attributes' = left /\ Works
        \/ FailedWrite(attributes, left)

CleanAddresses(h) ==
    /\ At(h, "cleanAddresses") /\ RemoveOwn(h, "addresses") /\ GoOn(h, "cleanCards")
    /\ UNCHANGED <<customers, nextId, requests, answered, named, early>>

CleanCards(h) ==
    /\ At(h, "cleanCards") /\ RemoveOwn(h, "cards") /\ End(h)
    /\ UNCHANGED <<customers, nextId, requests, named, early>>

-----------------------------------------------------------------------------
(* CreateCard and CreateAddress *)

PutAttribute(h) ==
    /\ At(h, "putAttribute")
    /\ nextId' = nextId + 1
    /\ LET written == attributes \cup {NewAttribute(h, CHOOSE k \in handler[h].kinds : TRUE)}
       IN  \/ /\ attributes' = written /\ Works
              /\ IF handler[h].customer = None
                 THEN Answer(h, Creations(None, {nextId}))
                 ELSE /\ Turn(h, [Advanced(h, "link") EXCEPT !.own = {nextId}])
                      /\ UNCHANGED answered
           \/ FailedWrite(attributes, written) /\ End(h)
    /\ UNCHANGED <<customers, requests, named, early>>

LinkedTo(h) ==
    {IF c.id = handler[h].customer THEN [c EXCEPT !.links = @ \cup handler[h].own] ELSE c :
        c \in customers}

\* Mutant of Link: the list of ids is set, not added to.
SetLink(h) ==
    /\ At(h, "link")
    /\ \/ /\ handler[h].customer \in Ids(customers)
          /\ customers' = {IF c.id = handler[h].customer
                            THEN [c EXCEPT !.links = handler[h].own] ELSE c : c \in customers}
          /\ Answer(h, Creations(handler[h].customer, handler[h].own))
       \/ /\ handler[h].customer \notin Ids(customers)
          /\ UNCHANGED customers /\ End(h)
    /\ Works
    /\ UNCHANGED <<attributes, nextId, requests, named, early>>

\* Mutant of Link: an upsert.
UpsertLink(h) ==
    /\ At(h, "link")
    /\ customers' = IF handler[h].customer \in Ids(customers) THEN LinkedTo(h)
                    ELSE customers \cup {[id |-> handler[h].customer, name |-> None,
                                          links |-> handler[h].own]}
    /\ Answer(h, Creations(handler[h].customer, handler[h].own)) /\ Works
    /\ UNCHANGED <<attributes, nextId, requests, named, early>>

\* appendAttributeId: Update with $addToSet, an error if the customer is gone.
Link(h) ==
    /\ At(h, "link")
    /\ \/ /\ handler[h].customer \in Ids(customers)
          /\ customers' = LinkedTo(h) /\ Works
          /\ Answer(h, Creations(handler[h].customer, handler[h].own))
       \/ /\ handler[h].customer \notin Ids(customers)
          /\ UNCHANGED customers /\ Works /\ End(h)
       \/ FailedWrite(customers, LinkedTo(h)) /\ End(h)
    /\ UNCHANGED <<attributes, nextId, requests, named, early>>

-----------------------------------------------------------------------------
(* Delete *)

Unlinked(h) == {[c EXCEPT !.links = @ \ handler[h].own] : c \in customers}

Early(h) == early' = early \cup {a \in handler[h].own : ~Linked(a)}

\* Mutant of Unlink: the list of cards, whatever is deleted.
UnlinkCard(h) ==
    /\ At(h, "unlink")
    /\ customers' = IF handler[h].kinds = {"cards"} THEN Unlinked(h) ELSE customers
    /\ Works /\ Early(h) /\ GoOn(h, "removeAttribute")
    /\ UNCHANGED <<attributes, nextId, requests, answered, named>>

\* UpdateAll with $pull, whose error nobody looks at.
Unlink(h) ==
    /\ At(h, "unlink")
    /\ \/ customers' = Unlinked(h) /\ Works
       \/ FailedWrite(customers, Unlinked(h))
    /\ Early(h)
    /\ GoOn(h, "removeAttribute")
    /\ UNCHANGED <<attributes, nextId, requests, answered, named>>

RemoveAttribute(h) ==
    /\ At(h, "removeAttribute") /\ End(h)
    /\ LET left == {a \in attributes : a.id \notin handler[h].own}
       IN  \/ attributes' = left /\ Works
           \/ FailedWrite(attributes, left)
    /\ UNCHANGED <<customers, nextId, requests, named, early>>

\* GetUser: the attributes to remove are those the customer has now.
FindCustomer(h) ==
    /\ At(h, "findCustomer")
    /\ \/ /\ \E c \in customers :
                /\ c.id = handler[h].customer
                /\ Turn(h, [Advanced(h, "removeAddresses") EXCEPT !.own = c.links])
          /\ Works
       \/ handler[h].customer \notin Ids(customers) /\ Turn(h, Idle) /\ Works
       \/ Turn(h, Idle) /\ Fails
    /\ UNCHANGED <<customers, attributes, nextId, requests, answered, named, early>>

RemoveAddresses(h) ==
    /\ At(h, "removeAddresses") /\ RemoveOwn(h, "addresses") /\ GoOn(h, "removeCards")
    /\ UNCHANGED <<customers, nextId, requests, answered, named, early>>

RemoveCards(h) ==
    /\ At(h, "removeCards") /\ RemoveOwn(h, "cards") /\ GoOn(h, "removeCustomer")
    /\ UNCHANGED <<customers, nextId, requests, answered, named, early>>

RemoveCustomer(h) ==
    /\ At(h, "removeCustomer") /\ End(h)
    /\ LET left == {c \in customers : c.id # handler[h].customer}
       IN  \/ customers' = left /\ Works
           \/ FailedWrite(customers, left)
    /\ UNCHANGED <<attributes, nextId, requests, named, early>>

\* The pod is killed in the middle of a request.
Kill(h) ==
    /\ ~At(h, "idle") /\ Turn(h, Idle) /\ Fails
    /\ UNCHANGED <<customers, attributes, nextId, requests, answered, named, early>>

-----------------------------------------------------------------------------

Receive(h) == PostUser(h) \/ PostAttribute(h) \/ DeleteAttribute(h) \/ DeleteCustomer(h)

Create(h) ==
    \/ PutCards(h) \/ PutAddresses(h) \/ PutCustomer(h) \/ CleanAddresses(h) \/ CleanCards(h)
    \/ PutAttribute(h) \/ Link(h)

Delete(h) ==
    \/ Unlink(h) \/ RemoveAttribute(h)
    \/ FindCustomer(h) \/ RemoveAddresses(h) \/ RemoveCards(h) \/ RemoveCustomer(h)

\* Every request allowed by the bound has been answered.
Quiesce ==
    /\ requests = MaxRequests /\ \A h \in Handlers : At(h, "idle")
    /\ UNCHANGED vars

Next == (\E h \in Handlers : Receive(h) \/ Create(h) \/ Delete(h) \/ Kill(h)) \/ Quiesce

Spec == Init /\ [][Next]_vars

-----------------------------------------------------------------------------
(* Properties *)

Steps ==
    {"idle", "putCards", "putAddresses", "putCustomer", "cleanAddresses", "cleanCards",
     "putAttribute", "link", "unlink", "removeAttribute", "findCustomer",
     "removeAddresses", "removeCards", "removeCustomer"}

HandlerState ==
    [step : Steps, customer : Nat \cup {None}, name : Names \cup {None}, kinds : SUBSET Kinds,
     own : SUBSET Nat, failed : SUBSET Kinds]

\* Every variable keeps its type, ids are given out once and names are unique.
TypeOK ==
    /\ customers \subseteq [id : Nat, name : Names, links : SUBSET Nat]
    /\ attributes \subseteq [id : Nat, kind : Kinds, by : Nat \cup {None}]
    /\ handler \in [Handlers -> HandlerState]
    /\ nextId \in Nat /\ requests \in 0..MaxRequests /\ faults \in 0..MaxFaults
    /\ answered \subseteq [customer : Nat \cup {None}, attribute : Nat \cup {None}]
    /\ named \subseteq Nat /\ early \subseteq named
    /\ \A c, d \in customers : c.id = d.id \/ c.name = d.name => c = d

\* What was answered stays, until a delete names it: the customer, the document
\* of each card and address, and the link between them, however many requests
\* for one customer overlap and whatever fails elsewhere.
AnsweredKept ==
    \A p \in answered :
        p.customer \notin named /\ p.attribute \notin named =>
            /\ p.attribute # None => p.attribute \in Ids(attributes)
            /\ p.customer # None =>
                   \E c \in customers : /\ c.id = p.customer
                                        /\ p.attribute # None => p.attribute \in c.links

\* A customer whose creation was answered refers to a document that is gone only
\* if the customer is being deleted, or the document was deleted before it was
\* linked, or the call that should have pulled the link has failed.
DanglingExplained ==
    \A c \in customers :
        [customer |-> c.id, attribute |-> None] \in answered /\ c.id \notin named =>
            \A a \in c.links \ Ids(attributes) : a \in early \/ (a \in named /\ faults > 0)

\* As long as nothing fails, a card or address that nobody refers to was created
\* for nobody, or for an id that is no customer's, or is being worked on, or its
\* customer has been asked to go: a registration that is refused for its name leaves
\* nothing behind.
NoOrphan ==
    faults = 0 =>
        \A a \in attributes :
            \/ Linked(a.id)
            \/ a.by \in named \cup Outsiders
            \/ \E h \in Handlers : a.id \in handler[h].own

\* Nobody comes back: a customer who is new in the collection has never been heard
\* of, in an answer or in a delete.  A card that is linked late does not revive the
\* customer it was for.
NeverRevived ==
    [][\A c \in customers' :
          c.id \in Ids(customers) \/ c.id \notin named \cup {p.customer : p \in answered}]_vars

-----------------------------------------------------------------------------
(* Why: an id is held by the handler that created it, or linked to the one   *)
(* customer it was created for, or answered, or on its way out.              *)

Creating == {"putCards", "putAddresses", "putCustomer"}
Cleaning == {"cleanAddresses", "cleanCards"}
Unlinking == {"unlink", "removeAttribute"}
Leaving == {"removeAddresses", "removeCards", "removeCustomer"}
Making == Creating \cup {"link"}

\* Every id in use has been given out.
Given == {i \in Nat : i < nextId}

IdsInv ==
    /\ Unknown \in Given
    /\ \A c \in customers : c.id \in Given /\ c.links \subseteq Given
    /\ \A a \in attributes : a.id \in Given
    /\ \A h \in Handlers :
           handler[h].customer \in Given \cup {None} /\ handler[h].own \subseteq Given
    /\ \A p \in answered : {p.customer, p.attribute} \subseteq Given \cup {None}
    /\ named \subseteq Given

\* What a handler has, at the step it is at.
HandlerInv ==
    \A h \in Handlers :
        /\ handler[h].step \in {"idle", "putCards", "putAttribute", "findCustomer"} =>
               handler[h].own = {}
        /\ handler[h].step \in Creating => handler[h].name \in Names
        /\ handler[h].step = "putAttribute" => handler[h].kinds # {}
        /\ handler[h].step \in Unlinking => handler[h].own \subseteq named
        /\ handler[h].step \in Leaving \cup {"findCustomer"} => handler[h].customer \in named
        /\ handler[h].step \in {"link", "putAttribute"} =>
               handler[h].customer \in Ids(customers) \cup named \cup Outsiders

\* The customer a handler is creating is its own, and nobody knows of it.
CreatingInv ==
    \A h \in Handlers :
        /\ handler[h].step \in Creating \cup Cleaning =>
               /\ handler[h].customer # None
               /\ \A p \in answered : p.customer = handler[h].customer => p.attribute # None
               /\ \A g \in Handlers :
                      handler[g].step \in Creating \cup Cleaning
                          /\ handler[g].customer = handler[h].customer => g = h
        /\ handler[h].step \in Creating =>
               /\ handler[h].customer \notin Ids(customers) \cup named \cup Ids(attributes)
               /\ \A p \in answered : p.customer # handler[h].customer

\* So are the attributes it has created, until they are linked.
MakingInv ==
    \A h \in Handlers :
        /\ handler[h].step \in Making \cup Cleaning => \A i \in handler[h].own :
               /\ \A p \in answered : p.attribute # i
               /\ \A g \in Handlers :
                      handler[g].step \in Making \cup Cleaning /\ i \in handler[g].own => g = h
               /\ \A a \in attributes : a.id = i => a.by = handler[h].customer
        /\ handler[h].step \in Making => \A i \in handler[h].own :
               /\ i \in Ids(attributes) \cup early
               /\ \A c \in customers : i \notin c.links
               /\ \A g \in Handlers : handler[g].step \in Leaving => i \notin handler[g].own
        /\ handler[h].step \in Cleaning => \A i \in handler[h].own :
               \A c \in customers : i \in c.links => c.id = handler[h].customer
        /\ handler[h].step = "cleanCards" /\ faults = 0 =>
               \A a \in attributes : a.id \in handler[h].own => a.kind = "cards"

\* One customer links an attribute, the one it was created for.
LinksInv ==
    \A c \in customers : \A i \in c.links :
        /\ \A d \in customers : i \in d.links => d = c
        /\ \A a \in attributes : a.id = i => a.by = c.id
        /\ \A p \in answered : p.attribute = i => p.customer = c.id

\* What the delete of a customer removes was that customer's, and what the delete
\* of an attribute removes is linked no more, or that is explained.
LeavingInv ==
    \A h \in Handlers :
        /\ handler[h].step \in Leaving => \A i \in handler[h].own :
               /\ \A c \in customers : i \in c.links => c.id = handler[h].customer
               /\ \A a \in attributes : a.id = i => a.by = handler[h].customer
               /\ \A p \in answered : p.attribute = i => p.customer = handler[h].customer
        /\ handler[h].step = "removeAttribute" => \A i \in handler[h].own :
               \/ i \in early
               \/ /\ \A g \in Handlers : handler[g].step \in Making => i \notin handler[g].own
                  /\ faults = 0 => \A c \in customers : i \notin c.links

\* A customer that was answered is there until it is named.
KnownInv == \A p \in answered : p.customer \in Ids(customers) \cup named \cup {None}

UsersInv ==
    /\ TypeOK /\ IdsInv /\ HandlerInv /\ CreatingInv
    /\ MakingInv /\ LinksInv /\ LeavingInv /\ KnownInv
    /\ AnsweredKept /\ DanglingExplained /\ NoOrphan
=============================================================================
