------------------------------- MODULE Carts -------------------------------
(***************************************************************************)
(* The carts service: HTTP request handlers over two document collections, *)
(* `cart` and `item`, with no lock and no transaction.  A handler is the   *)
(* list of the steps it still has to take; a step is one call to the       *)
(* database or one decision between two calls, in the order in which the   *)
(* code of CartsController, ItemsController, CartResource and              *)
(* CartContentsResource makes them, the calls made only to build a         *)
(* LOG.debug message included: they too create a missing cart.             *)
(*                                                                         *)
(* Reads go to a replica (readPreference=secondaryPreferred) that shows an *)
(* earlier state of the primary, at most MaxLag writes old.                *)
(*                                                                         *)
(* Unit prices are left out: a stored item keeps the price it was first    *)
(* saved with, whatever the later requests carry.                          *)
(***************************************************************************)
EXTENDS Naturals, Sequences, FiniteSets, SequencesExt

CONSTANTS
    Workers,      \* request threads, over all replicas of the service
    Customers,    \* ids a cart is kept for: customer ids and session ids
    Sessions,     \* the ids that are session ids: only these are merged away
    Items,        \* catalogue item ids
    Quantities,   \* quantities a client may ask for
    Ops,          \* the operations the clients use
    Serial,       \* TRUE: the requests that name one customer never overlap
    MaxRequests,  \* bound: requests received
    MaxAborts,    \* bound: handlers killed, or failed by the database
    MaxLag,       \* bound: writes the replica may be behind
    None

ASSUME CartsAssumption ==
    /\ IsFiniteSet(Workers)
    /\ Sessions \subseteq Customers
    /\ None \notin Customers
    /\ Quantities \subseteq Nat
    /\ Serial \in BOOLEAN
    /\ MaxRequests \in Nat /\ MaxAborts \in Nat /\ MaxLag \in Nat

VARIABLES
    carts,    \* the cart documents: [id, cust, refs]
    items,    \* the item documents: [id, itemId, qty]
    lagging,  \* states of the primary the replica has still to show, oldest first
    worker,   \* what each request thread is doing
    nextId,   \* the next fresh document id
    received, \* requests received so far
    aborted,  \* handlers aborted so far
    torn      \* history: the ids whose carts share items since a merge was aborted

store == <<carts, items, lagging, nextId>>
vars == <<carts, items, lagging, worker, nextId, received, aborted, torn>>

-----------------------------------------------------------------------------
(* Requests and the steps of their handlers *)

CartRequests ==
    [op : Ops \cap {"get", "delete"}, cust : Customers, other : {None},
     itemId : {None}, qty : {1}]
ItemRequests ==
    [op : Ops \cap {"getItem", "add", "remove"}, cust : Customers, other : {None},
     itemId : Items, qty : {1}]
UpdateRequests ==
    [op : Ops \cap {"update"}, cust : Customers, other : {None},
     itemId : Items, qty : Quantities]
MergeRequests ==
    [op : Ops \cap {"merge"}, cust : Customers \ Sessions, other : Sessions,
     itemId : {None}, qty : {1}]
Requests == CartRequests \cup ItemRequests \cup UpdateRequests \cup MergeRequests

ASSUME NoneIsNoRequest == None \notin Requests

GetScript     == <<"value">>
DeleteScript  == <<"value", "deleteCart">>
GetItemScript == <<"value", "foundItem">>
AddScript     == <<"value", "hasItem">>
AbsentScript  == <<"value", "saveItem", "value", "saveItem", "value", "saveItem", "addItem">>
PresentScript == <<"value", "value", "foundItem", "value", "increment">>
UpdateScript  == <<"value", "foundItem", "saveQuantity">>
\* Mutant of RemoveScript: the item is destroyed before the cart lets go of it.
DestroyFirst  == <<"value", "foundItem", "value", "value", "destroyItem", "removeItem">>
RemoveScript  == <<"value", "foundItem", "value", "value", "removeItem", "destroyItem">>
MergeScript   == <<"session", "mergeItems">>
\* Mutant of DropSession: the session's cart is kept.
KeepSession   == <<"session">>
DropSession   == <<"session", "deleteCart">>

Script(op) ==
    CASE op = "get"     -> GetScript
      [] op = "getItem" -> GetItemScript
      [] op = "add"     -> AddScript
      [] op = "remove"  -> RemoveScript
      [] op = "update"  -> UpdateScript
      [] op = "merge"   -> MergeScript
      [] op = "delete"  -> DeleteScript

\* The forEach of CartResource.merge: what is left to do when the items in
\* `hand` have still to be added.
MergeRest(hand) ==
    IF hand = <<>> THEN DropSession ELSE <<"value", "value", "mergeItem">>

NoCart == [id |-> 0, cust |-> None, items |-> <<>>]

Free == [req |-> None, todo |-> <<>>, cart |-> NoCart, hand |-> <<>>, qty |-> 0]

Busy(w) == worker[w].req # None

Does(w, step) == worker[w].todo # <<>> /\ Head(worker[w].todo) = step

\* Mutant of Continue: the thread is not given back.
KeepThread(w, state) == worker' = [worker EXCEPT ![w] = state]

\* w is left with the work of `state`, and answers once there is none.
Continue(w, state) ==
    worker' = [worker EXCEPT ![w] = IF state.todo = <<>> THEN Free ELSE state]

\* The step of w is done, and leaves `cart` and `hand` as its local objects.
Step(w, cart, hand) ==
    Continue(w, [worker[w] EXCEPT !.todo = Tail(@), !.cart = cart, !.hand = hand])

\* An exception ends the request with an error.
Fail(w) == worker' = [worker EXCEPT ![w] = Free]

Named(req) == {req.cust, req.other} \ {None}

-----------------------------------------------------------------------------
(* The database *)

\* What a read sees.
View == IF lagging = <<>> THEN [carts |-> carts, items |-> items] ELSE Head(lagging)

Ids(docs) == {d.id : d \in docs}

CartsOf(c, docs) == {d \in docs : d.cust = c}

ShareItem(d, e) == d # e /\ Range(d.refs) \cap Range(e.refs) # {}

ItemDoc(id, docs) == CHOOSE i \in docs : i.id = id

\* The references whose document is there, in their order.
Live(refs, ids) ==
    LET kept[n \in 0..Len(refs)] ==
            IF n = 0 THEN <<>>
            ELSE IF refs[n] \in ids THEN Append(kept[n - 1], refs[n]) ELSE kept[n - 1]
    IN  kept[Len(refs)]

\* A cart with its references resolved: one whose document is gone is skipped.
Load(d) ==
    LET live == Live(d.refs, Ids(View.items))
    IN  [id |-> d.id, cust |-> d.cust,
         items |-> [k \in 1..Len(live) |-> ItemDoc(live[k], View.items)]]

Refs(cart) == [k \in 1..Len(cart.items) |-> cart.items[k].id]

\* Mutant of Upsert: every save inserts.
InsertOnly(doc, docs) == docs \cup {doc}

\* save(): replace the document with the same id, or insert.
Upsert(doc, docs) == {d \in docs : d.id # doc.id} \cup {doc}

SaveDoc(cart, docs) ==
    Upsert([id |-> cart.id, cust |-> cart.cust, refs |-> Refs(cart)], docs)

\* One write to the primary.
Write(newCarts, newItems) ==
    /\ carts' = newCarts
    /\ items' = newItems
    /\ lagging' = LET l == Append(lagging, [carts |-> carts, items |-> items])
                  IN  IF Len(l) > MaxLag THEN Tail(l) ELSE l

CatchUp ==
    /\ lagging # <<>>
    /\ lagging' = Tail(lagging)
    /\ UNCHANGED <<carts, items, worker, nextId, received, aborted, torn>>

-----------------------------------------------------------------------------
(* The handlers *)

Init ==
    /\ carts = {} /\ items = {} /\ lagging = <<>>
    /\ worker = [w \in Workers |-> Free]
    /\ nextId = 1 /\ received = 0 /\ aborted = 0 /\ torn = {}

Receive(w, req) ==
    /\ ~Busy(w)
    /\ received < MaxRequests
    /\ Serial => \A v \in Workers : Busy(v) => Named(worker[v].req) \cap Named(req) = {}
    /\ received' = received + 1
    /\ worker' = [worker EXCEPT ![w] =
           [req |-> req, todo |-> Script(req.op), cart |-> NoCart, qty |-> req.qty,
            hand |-> IF req.op = "add" THEN <<[id |-> 0, itemId |-> req.itemId, qty |-> 1]>>
                                       ELSE <<>>]]
    /\ UNCHANGED <<store, aborted, torn>>

\* Mutant of Find: a cart may be created where there is one.
FindOrCreate(w) ==
    /\ Does(w, "value") \/ Does(w, "session")
    /\ LET c == IF Does(w, "value") THEN worker[w].req.cust ELSE worker[w].req.other
       IN  \/ \E d \in CartsOf(c, View.carts) : Step(w, Load(d), worker[w].hand)
           \/ Continue(w, [worker[w] EXCEPT
                  !.todo = <<"create">> \o @,
                  !.cart = [id |-> 0, cust |-> c, items |-> <<>>]])
    /\ UNCHANGED <<store, received, aborted, torn>>

\* value(): any cart document of the customer will do as the first result.  The driver
\* reads the items after the cart that refers to them; here both are one read.
Find(w) ==
    /\ Does(w, "value") \/ Does(w, "session")
    /\ LET c == IF Does(w, "value") THEN worker[w].req.cust ELSE worker[w].req.other
       IN  \/ \E d \in CartsOf(c, View.carts) : Step(w, Load(d), worker[w].hand)
           \/ /\ CartsOf(c, View.carts) = {}
              /\ Continue(w, [worker[w] EXCEPT
                     !.todo = <<"create">> \o @,
                     !.cart = [id |-> 0, cust |-> c, items |-> <<>>]])
    /\ UNCHANGED <<store, received, aborted, torn>>

\* Mutant of Create: value() starts again, nothing having been inserted.
CreateNothing(w) ==
    /\ Does(w, "create")
    /\ Step(w, NoCart, worker[w].hand)
    /\ UNCHANGED <<store, received, aborted, torn>>

\* ... and where there is none, one is inserted and value() starts again.
Create(w) ==
    /\ Does(w, "create")
    /\ Write(SaveDoc([worker[w].cart EXCEPT !.id = nextId], carts), items)
    /\ nextId' = nextId + 1
    /\ Step(w, NoCart, worker[w].hand)
    /\ UNCHANGED <<received, aborted, torn>>

Wanted(w) == {k \in 1..Len(worker[w].cart.items) :
                 worker[w].cart.items[k].itemId = worker[w].req.itemId}
FirstWanted(w) == CHOOSE k \in Wanted(w) : \A j \in Wanted(w) : k <= j

\* Mutant of HasItem: the item is never found.
NeverHasItem(w) ==
    /\ Does(w, "hasItem")
    /\ Continue(w, [worker[w] EXCEPT !.todo = AbsentScript])
    /\ UNCHANGED <<store, received, aborted, torn>>

HasItem(w) ==
    /\ Does(w, "hasItem")
    /\ Continue(w, [worker[w] EXCEPT
           !.todo = IF Wanted(w) # {} THEN PresentScript ELSE AbsentScript])
    /\ UNCHANGED <<store, received, aborted, torn>>

FindItem(w) ==
    /\ Does(w, "foundItem")
    /\ IF Wanted(w) = {}
       THEN Fail(w)
       ELSE Step(w, worker[w].cart, <<worker[w].cart.items[FirstWanted(w)]>>)
    /\ UNCHANGED <<store, received, aborted, torn>>

\* new Item(found, found.quantity() + 1), handed on to updateItem.
Increment(w) ==
    /\ Does(w, "increment")
    /\ IF Wanted(w) = {}
       THEN Fail(w)
       ELSE Continue(w, [worker[w] EXCEPT
                !.todo = UpdateScript,
                !.qty = worker[w].cart.items[FirstWanted(w)].qty + 1])
    /\ UNCHANGED <<store, received, aborted, torn>>

\* The first save of a new item gives it its id; the later ones repeat it.
SaveItem(w) ==
    /\ Does(w, "saveItem")
    /\ LET new == worker[w].hand[1].id = 0
           item == [worker[w].hand[1] EXCEPT !.id = IF new THEN nextId ELSE @]
       IN  /\ Write(carts, Upsert(item, items))
           /\ Step(w, worker[w].cart, <<item>>)
           /\ nextId' = IF new THEN nextId + 1 ELSE nextId
    /\ UNCHANGED <<received, aborted, torn>>

\* Mutant of SaveQuantity: the quantity asked for is added to the stored one.
AddQuantity(w) ==
    /\ Does(w, "saveQuantity")
    /\ Write(carts, Upsert([worker[w].hand[1] EXCEPT !.qty = @ + worker[w].qty], items))
    /\ Step(w, worker[w].cart, worker[w].hand)
    /\ UNCHANGED <<nextId, received, aborted, torn>>

SaveQuantity(w) ==
    /\ Does(w, "saveQuantity")
    /\ Write(carts, Upsert([worker[w].hand[1] EXCEPT !.qty = worker[w].qty], items))
    /\ Step(w, worker[w].cart, worker[w].hand)
    /\ UNCHANGED <<nextId, received, aborted, torn>>

\* The whole cart document is saved, as the handler read it and changed it.
SaveWith(w, newItems) ==
    Write(SaveDoc([worker[w].cart EXCEPT !.items = newItems], carts), items)

AddItem(w) ==
    /\ Does(w, "addItem")
    /\ SaveWith(w, Append(worker[w].cart.items, worker[w].hand[1]))
    /\ Step(w, worker[w].cart, <<>>)
    /\ UNCHANGED <<nextId, received, aborted, torn>>

\* save(parentCart().remove(item)): List.remove drops the first equal item.
RemoveItem(w) ==
    /\ Does(w, "removeItem")
    /\ LET cart == worker[w].cart
       IN  SaveWith(w, IF Wanted(w) = {} THEN cart.items
                       ELSE RemoveAt(cart.items, FirstWanted(w)))
    /\ Step(w, worker[w].cart, worker[w].hand)
    /\ UNCHANGED <<nextId, received, aborted, torn>>

DestroyItem(w) ==
    /\ Does(w, "destroyItem")
    /\ Write(carts, {i \in items : i.id # worker[w].hand[1].id})
    /\ Step(w, worker[w].cart, worker[w].hand)
    /\ UNCHANGED <<nextId, received, aborted, torn>>

DeleteCart(w) ==
    /\ Does(w, "deleteCart")
    /\ Write({d \in carts : d.id # worker[w].cart.id}, items)
    /\ Step(w, worker[w].cart, worker[w].hand)
    /\ UNCHANGED <<nextId, received, aborted, torn>>

\* The items read from the session's cart are added to the customer's one by
\* one, then the session's cart is deleted.
MergeItems(w) ==
    /\ Does(w, "mergeItems")
    /\ LET merged == worker[w].cart.items
       IN  Continue(w, [worker[w] EXCEPT !.todo = MergeRest(merged), !.hand = merged])
    /\ torn' = IF Named(worker[w].req) \cap torn = {} THEN torn
               ELSE torn \cup Named(worker[w].req)
    /\ UNCHANGED <<store, received, aborted>>

MergeItem(w) ==
    /\ Does(w, "mergeItem")
    /\ SaveWith(w, Append(worker[w].cart.items, Head(worker[w].hand)))
    /\ LET left == Tail(worker[w].hand)
       IN  Continue(w, [worker[w] EXCEPT !.todo = MergeRest(left), !.hand = left])
    /\ UNCHANGED <<nextId, received, aborted, torn>>

\* The pod is killed, or a database call throws: the work done so far stays.
Abort(w) ==
    /\ Busy(w)
    /\ aborted < MaxAborts
    /\ aborted' = aborted + 1
    /\ torn' = torn \cup {d.cust : d \in {d \in carts :
                          \E e \in carts :
                              ShareItem(d, e) /\ {d.cust, e.cust} = Named(worker[w].req)}}
    /\ Fail(w)
    /\ UNCHANGED <<store, received>>

\* Every request allowed by the bound has been answered.
Quiesce ==
    /\ received = MaxRequests
    /\ \A w \in Workers : ~Busy(w)
    /\ UNCHANGED vars

Handle(w) ==
    \/ Find(w) \/ Create(w) \/ HasItem(w) \/ FindItem(w) \/ Increment(w)
    \/ SaveItem(w) \/ SaveQuantity(w) \/ AddItem(w) \/ RemoveItem(w)
    \/ DestroyItem(w) \/ DeleteCart(w) \/ MergeItems(w) \/ MergeItem(w)

Next ==
    \/ \E w \in Workers :
           \/ \E req \in Requests : Receive(w, req)
           \/ Handle(w)
           \/ Abort(w)
    \/ CatchUp
    \/ Quiesce

Spec == Init /\ [][Next]_vars
FairSpec == Spec /\ \A w \in Workers : WF_vars(Handle(w))

-----------------------------------------------------------------------------
(* Properties *)

CartDoc == [id : Nat \ {0}, cust : Customers, refs : Seq(Nat \ {0})]
Item == [id : Nat, itemId : Items, qty : Nat]
CartObject == [id : Nat, cust : Customers \cup {None}, items : Seq(Item)]
StepNames ==
    {"value", "session", "create", "hasItem", "foundItem", "increment", "saveItem",
     "saveQuantity", "addItem", "removeItem", "destroyItem", "deleteCart", "mergeItems",
     "mergeItem"}
WorkerState ==
    [req : Requests \cup {None}, todo : Seq(StepNames), cart : CartObject,
     hand : Seq(Item), qty : Nat]

\* Every variable keeps its type; a busy handler has work left to do.
TypeOK ==
    /\ carts \subseteq CartDoc
    /\ items \subseteq Item
    /\ lagging \in Seq([carts : SUBSET CartDoc, items : SUBSET Item])
    /\ worker \in [Workers -> WorkerState]
    /\ \A w \in Workers : Busy(w) <=> worker[w].todo # <<>>
    /\ nextId \in Nat /\ received \in 0..MaxRequests /\ aborted \in 0..MaxAborts
    /\ torn \subseteq Customers

\* value() is a check followed by an insert, the check may be answered by a
\* stale replica, and a save() of a cart deleted in the meantime brings it back.
\* Still, the carts one customer can end up with are bounded: one for each
\* request thread and one for each write the replica may be behind.
CartBound ==
    \A c \in Customers :
        Cardinality(CartsOf(c, carts)) <= Cardinality(Workers) + MaxLag

\* The requests of one customer following one another, each reading its own
\* writes, value() never creates a second cart, whatever the other customers
\* do and wherever a handler is killed.
OneCart ==
    \A c \in Customers : Cardinality(CartsOf(c, carts)) <= 1

\* No cart refers to an item document that is gone: removeItem() saves the
\* cart before it destroys the item, addToCart() saves the item first.  Only the
\* other cart of a merge that was aborted may have held the item too.
NoDanglingRef ==
    \A d \in carts : Range(d.refs) \subseteq Ids(items) \/ d.cust \in torn

\* An item document belongs to one cart: only a merge that is still running, and
\* ends by deleting the session's cart, or one that was aborted makes two carts
\* share one.
ItemsNotShared ==
    \A d, e \in carts :
        ShareItem(d, e) =>
            \/ {d.cust, e.cust} \subseteq torn
            \/ \E w \in Workers : Busy(w) /\ worker[w].req.op = "merge"
                                  /\ {d.cust, e.cust} = Named(worker[w].req)

\* An item has one line in a cart no other was merged into: addToCart()
\* increments the quantity of the line it finds.  Not in a torn one: another
\* customer's update may bring back an item document that a third had destroyed,
\* after addToCart() has looked for a line and found none.
OneLinePerItem ==
    \A d \in carts : \A j, k \in 1..Len(d.refs) :
        /\ d.cust \in Sessions \/ Sessions = {}
        /\ d.cust \notin torn
        /\ {d.refs[j], d.refs[k]} \subseteq Ids(items)
        /\ ItemDoc(d.refs[j], items).itemId = ItemDoc(d.refs[k], items).itemId
        => j = k

\* After a delete by the only request in progress for a customer, a look-up of
\* the customer's carts is empty (UnitCartsController.shouldDeleteCart).
DeleteLeavesNoCart ==
    [][\A w \in Workers :
          /\ DeleteCart(w)
          /\ \A v \in Workers \ {w} :
                 Busy(v) => worker[w].cart.cust \notin Named(worker[v].req)
          => CartsOf(worker[w].cart.cust, carts') = {}]_vars

\* value() calls itself until it sees a cart, on a replica that may not show
\* the cart it has just inserted; every handler ends all the same.
Answered == \A w \in Workers : Busy(w) ~> ~Busy(w)

-----------------------------------------------------------------------------
(* Refinement of ShoppingCart: the contents of a customer's only cart, less *)
(* the lines a merge in progress has added to it so far.                    *)

StoredLines(c) ==
    IF CartsOf(c, carts) = {} THEN <<>>
    ELSE LET refs == (CHOOSE d \in CartsOf(c, carts) : TRUE).refs
         IN  [k \in 1..Len(refs) |->
                 [itemId |-> ItemDoc(refs[k], items).itemId,
                  qty    |-> ItemDoc(refs[k], items).qty]]

Merging(w, c) ==
    /\ Busy(w) /\ worker[w].req.op = "merge" /\ worker[w].req.cust = c
    /\ "mergeItems" \notin Range(worker[w].todo)

MergedSoFar(c) ==
    IF \E w \in Workers : Merging(w, c)
    THEN LET w == CHOOSE w \in Workers : Merging(w, c)
         IN  Len(StoredLines(worker[w].req.other)) - Len(worker[w].hand)
    ELSE 0

\* No contents are None: it stands for those of a cart that is torn.
ASSUME NoneIsNoContents == None \notin Seq([itemId : Items, qty : Nat])

Contents ==
    [c \in Customers |->
        IF c \in torn THEN None
        ELSE SubSeq(StoredLines(c), 1, Len(StoredLines(c)) - MergedSoFar(c))]

Promise == INSTANCE ShoppingCart WITH contents <- Contents, Torn <- None

\* The requests of one customer following one another, each handler's many
\* reads and saves look like the one step ShoppingCart says.
PromiseKept == Promise!Spec
=============================================================================
