------------------------- MODULE CartsPromiseProofs -------------------------
(* With the requests of a customer served one after another and current reads,
   the carts service does what ShoppingCart says: each step of a handler is one
   step of ShoppingCart, or changes nothing a client can see.  A step is seen
   when the document is written that makes the difference; the invariant says
   what the handler has learnt until then, and how much of a cart has been
   merged into another. *)
EXTENDS CartsSerialProofs

-----------------------------------------------------------------------------
(* What a handler knows when it writes *)

\* Line k of d is the first one for the item.
FirstLine(d, k, itemId, docs) ==
    /\ k \in 1..Len(d.refs)
    /\ \A i \in docs : i.id = d.refs[k] => i.itemId = itemId
    /\ \A j \in 1..Len(d.refs) : \A i \in docs :
           j < k /\ i.id = d.refs[j] => i.itemId # itemId

\* The items of the cart w uses are what the collection holds.
Current(w) ==
    At(w, LoadedSteps) =>
        \A d \in carts : d.id = worker[w].cart.id /\ d.cust \notin torn =>
            \A k \in 1..Len(worker[w].cart.items) : worker[w].cart.items[k] \in items

\* The new item is one sock, and is stored as it is in the hand.
OneSock(w) ==
    Adding(w) =>
        /\ worker[w].hand[1].qty = 1
        /\ worker[w].hand[1].id # 0 => worker[w].hand[1] \in items

\* The item that gets a quantity is the first one of its kind in the customer's
\* cart, and in no other cart unless that one is torn.
Found(w) ==
    At(w, {"saveQuantity"}) =>
        /\ worker[w].hand[1].itemId = worker[w].req.itemId
        /\ \A e \in carts : InCart(e, worker[w].hand[1].id) =>
               e.cust \in torn \/ e.cust = worker[w].req.cust
        /\ worker[w].req.cust \notin torn =>
               \E d \in carts : \E k \in 1..Len(d.refs) :
                   /\ d.cust = worker[w].req.cust /\ d.refs[k] = worker[w].hand[1].id
                   /\ FirstLine(d, k, worker[w].req.itemId, items)

\* An add that has found a line is about to store one more than it has.
Counting(w) == Busy(w) /\ worker[w].req.op = "add" /\ Goal(worker[w]) = "saveQuantity"
OneMore(w) ==
    Counting(w) /\ worker[w].req.cust \notin torn =>
        \E d \in carts : \E k \in 1..Len(d.refs) : \E i \in items :
            /\ d.cust = worker[w].req.cust /\ FirstLine(d, k, worker[w].req.itemId, items)
            /\ i.id = d.refs[k] /\ worker[w].qty = i.qty + 1

\* An update stores the quantity it was asked for.
AsAsked(w) == Busy(w) /\ worker[w].req.op = "update" => worker[w].qty = worker[w].req.qty

\* The session's cart e is the lines merged so far, which are the last of the
\* customer's cart, and those still in the hand.
Moved(w, e) ==
    LET n == Len(e.refs) - Len(worker[w].hand)
    IN  /\ e.cust = worker[w].req.other
        /\ Len(worker[w].hand) <= Len(e.refs)
        /\ \A k \in 1..Len(worker[w].hand) : worker[w].hand[k].id = e.refs[n + k]
        /\ n > 0 => \E d \in carts :
                        /\ d.cust = worker[w].req.cust /\ n <= Len(d.refs)
                        /\ \A k \in 1..n : d.refs[Len(d.refs) - n + k] = e.refs[k]
HalfMerged(w) ==
    Looping(w) /\ worker[w].req.cust \notin torn => \E e \in carts : Moved(w, e)

\* ... of which nothing is left when the session's cart is to be deleted.
Emptied(w) == Looping(w) /\ Goal(worker[w]) = "deleteCart" => worker[w].hand = <<>>

Learnt(w) ==
    /\ Current(w) /\ OneSock(w) /\ Found(w) /\ OneMore(w)
    /\ AsAsked(w) /\ HalfMerged(w) /\ Emptied(w)

PromiseInv == LineInv /\ \A w \in Workers : Learnt(w)

\* The invariants of the layers below, for one handler.
LEMMA Beneath ==
    ASSUME MaxLag = 0, PromiseInv, NEW w \in Workers
    PROVE  /\ LineInv /\ WholeInv /\ SharingInv /\ ItemIdsInv /\ OneCartInv /\ TypeInv
           /\ Drawn(w) /\ Private(w) /\ TornTogether(w) /\ Exact(w) /\ Removal(w) /\ Absent(w)
           /\ Current(w) /\ OneSock(w) /\ Found(w) /\ OneMore(w)
           /\ AsAsked(w) /\ HalfMerged(w) /\ Emptied(w)
           /\ Handle(w) \/ Abort(w) => GoesOn(w) /\ Frame(w) /\ OwnStep(w)
<1>1. LineInv /\ WholeInv /\ SharingInv
  BY DEF PromiseInv, LineInv, WholeInv
<1>2. /\ ItemIdsInv /\ OneCartInv /\ TypeInv /\ Drawn(w) /\ Private(w) /\ TornTogether(w)
      /\ Handle(w) \/ Abort(w) => GoesOn(w) /\ Frame(w)
  BY <1>1, Below
<1>3. Handle(w) \/ Abort(w) => OwnStep(w)
  BY <1>2, OneThread
<1> QED BY <1>1, <1>2, <1>3 DEF PromiseInv, Learnt, LineInv, WholeInv

\* Only the increment changes the quantity a handler goes on with.
LEMMA QtyKept ==
    ASSUME TypeInv, NEW w \in Workers, Handle(w) \/ Abort(w), ~Increment(w), Busy(w)'
    PROVE  worker'[w].qty = worker[w].qty
<1> DEFINE st == worker[w]
<1>1. st \in WorkerState /\ worker \in [Workers -> WorkerState]
  BY DEF TypeInv, StateOK
<1>2. ~Fail(w)
  BY <1>1 DEF Fail, Busy, Free
<1>3. ASSUME NEW new, new.qty = st.qty, Continue(w, new)
      PROVE  worker'[w].qty = st.qty
  BY <1>3, Continued
<1>4. ASSUME NEW cart, NEW hand, Step(w, cart, hand) PROVE worker'[w].qty = st.qty
  <2>1. PICK new : new = [st EXCEPT !.todo = Tail(@), !.cart = cart, !.hand = hand]
    OBVIOUS
  <2>2. Continue(w, new) /\ new.qty = st.qty
    BY <1>1, <1>4, <2>1 DEF Step, WorkerState
  <2> QED BY <1>3, <2>2
<1>5. CASE Find(w)
  <2>1. PICK c : \/ \E d \in CartsOf(c, View.carts) : Step(w, Load(d), st.hand)
                 \/ Continue(w, [st EXCEPT !.todo = <<"create">> \o @,
                                           !.cart = [id |-> 0, cust |-> c, items |-> <<>>]])
    BY <1>5 DEF Find
  <2>2. PICK new : new = [st EXCEPT !.todo = <<"create">> \o @,
                                    !.cart = [id |-> 0, cust |-> c, items |-> <<>>]]
    OBVIOUS
  <2>3. new.qty = st.qty
    BY <1>1, <2>2 DEF WorkerState
  <2> QED BY <1>3, <1>4, <2>1, <2>2, <2>3
<1>6. CASE HasItem(w)
  <2>1. PICK new : new = [st EXCEPT !.todo = IF Wanted(w) # {} THEN PresentScript
                                                               ELSE AbsentScript]
    OBVIOUS
  <2>2. Continue(w, new) /\ new.qty = st.qty
    BY <1>1, <1>6, <2>1 DEF HasItem, WorkerState
  <2> QED BY <1>3, <2>2
<1>7. CASE MergeItems(w) \/ MergeItem(w)
  <2>1. PICK hand : Continue(w, [st EXCEPT !.todo = MergeRest(hand), !.hand = hand])
    BY <1>7 DEF MergeItems, MergeItem
  <2>2. PICK new : new = [st EXCEPT !.todo = MergeRest(hand), !.hand = hand]
    OBVIOUS
  <2>3. Continue(w, new) /\ new.qty = st.qty
    BY <1>1, <2>1, <2>2 DEF WorkerState
  <2> QED BY <1>3, <2>3
<1>8. CASE FindItem(w)
  BY <1>2, <1>4, <1>8 DEF FindItem
<1>9. CASE SaveItem(w)
  BY <1>4, <1>9 DEF SaveItem
<1>10. CASE \/ Create(w) \/ SaveQuantity(w) \/ AddItem(w) \/ RemoveItem(w) \/ DestroyItem(w)
            \/ DeleteCart(w)
  BY <1>4, <1>10 DEF Create, SaveQuantity, AddItem, RemoveItem, DestroyItem, DeleteCart
<1>11. CASE Abort(w)
  BY <1>2, <1>11 DEF Abort
<1> QED BY <1>5, <1>6, <1>7, <1>8, <1>9, <1>10, <1>11 DEF Handle

-----------------------------------------------------------------------------
(* The lines of a cart change when its customer's handler changes them *)

\* A save of the new item stores it under the next id, or as it is already.
LEMMA SavedItem ==
    ASSUME MaxLag = 0, PromiseInv, NEW w \in Workers, SaveItem(w)
    PROVE  \E item \in StoredItem :
               /\ \/ item.id = nextId /\ items' = Upsert(item, items)
                  \/ item \in items /\ items' = items
               /\ item.itemId = worker[w].hand[1].itemId /\ item.qty = worker[w].hand[1].qty
               /\ item \in items' /\ UNCHANGED <<carts, torn>>
               /\ Becomes(w, Tail(worker[w].todo), worker[w].cart, <<item>>)
<1> DEFINE st == worker[w]
<1>1. /\ OneCartInv /\ TypeInv /\ ItemIdsInv /\ OneSock(w) /\ items \subseteq StoredItem
      /\ st.hand \in Seq(Item)
  BY Beneath, KnownType
<1>2. PICK item \in StoredItem :
               /\ item.itemId = st.hand[1].itemId /\ item.qty = st.hand[1].qty
               /\ IF st.hand[1].id = 0 THEN item.id = nextId ELSE item.id = st.hand[1].id
               /\ items' = Upsert(item, items)
               /\ UNCHANGED <<carts, torn>>
               /\ Becomes(w, Tail(st.todo), st.cart, <<item>>)
  BY <1>1, SaveItemShape
<1>3. Does(w, "saveItem")
  BY DEF SaveItem
<1>4. Adding(w)
  BY <1>1, <1>3, Working DEF PhaseOK, Adding
<1>5. CASE st.hand[1].id # 0
  <2>1. st.hand[1] \in items
    BY <1>1, <1>4, <1>5 DEF OneSock
  <2>2. item = st.hand[1]
    <3>1. PICK h : h = st.hand[1]
      OBVIOUS
    <3>2. h \in Item /\ item \in Item /\ item.id = h.id /\ item.itemId = h.itemId
          /\ item.qty = h.qty
      BY <1>1, <1>2, <1>5, <2>1, <3>1 DEF StoredItem
    <3> QED BY <3>1, <3>2 DEF Item
  <2>3. items' = items
    BY <1>1, <1>2, <2>1, <2>2 DEF Upsert, ItemIdsInv
  <2> QED BY <1>2, <2>1, <2>2, <2>3
<1>6. CASE st.hand[1].id = 0
  <2>1. item \in items'
    BY <1>2 DEF Upsert
  <2> QED BY <1>2, <1>6, <2>1
<1> QED BY <1>5, <1>6

\* The items of a cart that is not torn stay as they are, but for the update of
\* its own customer.
LEMMA ItemsStay ==
    ASSUME MaxLag = 0, PromiseInv, NEW w \in Workers, Handle(w) \/ Abort(w),
           NEW d \in carts, d.cust \notin torn,
           ~SaveQuantity(w) \/ d.cust # worker[w].req.cust,
           NEW id, InCart(d, id)
    PROVE  \A i : i.id = id => (i \in items' <=> i \in items)
<1> DEFINE st == worker[w]
<1>1. /\ OneCartInv /\ TypeInv /\ ItemIdsInv /\ Removal(w) /\ Found(w) /\ nextId \in Nat
      /\ d.refs \in Seq(Nat \ {0})
  BY Beneath, KnownType
<1>2. id \in Nat /\ id < nextId
  <2>1. PICK j \in 1..Len(d.refs) : d.refs[j] = id
    BY DEF InCart
  <2> QED BY <1>1, <2>1 DEF ItemIdsInv
<1>3. CASE SaveItem(w)
  <2>1. PICK item : \/ item.id = nextId /\ items' = Upsert(item, items)
                    \/ items' = items
    BY <1>3, SavedItem
  <2>2. item.id = nextId => item.id # id
    BY <1>1, <1>2
  <2> QED BY <2>1, <2>2 DEF Upsert
<1>4. CASE SaveQuantity(w)
  <2>1. Does(w, "saveQuantity")
    BY <1>4 DEF SaveQuantity
  <2>2. At(w, {"saveQuantity"})
    BY <1>1, <2>1, Working DEF At
  <2>3. id # st.hand[1].id
    BY <1>1, <1>4, <2>2 DEF Found
  <2>4. PICK item : item.id = st.hand[1].id /\ items' = Upsert(item, items)
    BY <1>1, <1>4, SaveQuantityShape
  <2> QED BY <2>3, <2>4 DEF Upsert
<1>5. CASE DestroyItem(w)
  <2>1. Does(w, "destroyItem")
    BY <1>5 DEF DestroyItem
  <2>2. Removing(w) /\ Dropped(w)
    BY <1>1, <1>5, <2>1, Working, DestroyItemShape DEF Removing, Dropped
  <2>3. id # st.hand[1].id
    BY <1>1, <2>2 DEF Removal
  <2>4. items' = {i \in items : i.id # st.hand[1].id}
    BY <1>1, <1>5, DestroyItemShape
  <2> QED BY <2>3, <2>4
<1>6. CASE AddItem(w) \/ RemoveItem(w) \/ MergeItem(w)
  BY <1>1, <1>6, AddItemShape, RemoveItemShape, MergeItemShape DEF Saves
<1>7. CASE Find(w) \/ Create(w) \/ HasItem(w) \/ FindItem(w) \/ Increment(w)
              \/ DeleteCart(w) \/ MergeItems(w) \/ Abort(w)
  BY <1>1, <1>7, FindShape, CreateShape, HasItemShape, FindItemShape, IncrementShape,
     DeleteCartShape, MergeItemsShape, AbortShape
<1> QED BY <1>3, <1>4, <1>5, <1>6, <1>7 DEF Handle

\* The first line for an item stays the first one while its cart stays.
LEMMA FirstStays ==
    ASSUME MaxLag = 0, PromiseInv, NEW w \in Workers, Handle(w) \/ Abort(w),
           NEW d \in carts, d.cust \notin torn, NEW k, NEW itemId, FirstLine(d, k, itemId, items)
    PROVE  FirstLine(d, k, itemId, items')
<1>1. WholeInv
  BY Beneath
<1>2. \A j \in 1..Len(d.refs) : \A i \in items' :
          i.id = d.refs[j] => \E o \in items : o.id = i.id /\ o.itemId = i.itemId
  BY <1>1, RefsStay
<1> QED BY <1>2 DEF FirstLine

-----------------------------------------------------------------------------
(* What a handler has learnt lasts until it writes *)

\* The cart just read, or read before the new item was saved once more, holds
\* what the collection holds.
LEMMA OwnCurrent ==
    ASSUME MaxLag = 0, PromiseInv, NEW w \in Workers, Handle(w) \/ Abort(w)
    PROVE  Current(w)'
<1> DEFINE st == worker[w]
<1>1. OneCartInv /\ TypeInv /\ ItemIdsInv /\ GoesOn(w) /\ Current(w) /\ WholeInv
  BY Beneath
<1>2. SUFFICES ASSUME At(w, LoadedSteps)', NEW d \in carts', d.id = worker'[w].cart.id,
                      d.cust \notin torn'
               PROVE  \A k \in 1..Len(worker'[w].cart.items) : worker'[w].cart.items[k] \in items'
  BY DEF Current
<1>3. Busy(w)'
  BY <1>2 DEF At
<1>4. CASE Find(w)
  <2>1. items' = items /\ carts' = carts
    BY <1>1, <1>4, FindShape
  <2>2. CASE \E e \in carts : Becomes(w, Tail(st.todo), Load(e), st.hand)
    <3>1. PICK e \in carts : Becomes(w, Tail(st.todo), Load(e), st.hand)
      BY <2>2
    <3>2. worker'[w].cart = Load(e)
      BY <1>3, <3>1, Stays
    <3>3. \A k \in 1..Len(Load(e).items) : Load(e).items[k] \in items
      BY <1>1, LoadKnown
    <3> QED BY <2>1, <3>2, <3>3
  <2>3. CASE \E c : Becomes(w, <<"create">> \o st.todo, [id |-> 0, cust |-> c, items |-> <<>>],
                            st.hand)
    <3>1. PICK cart : cart.items = <<>> /\ Becomes(w, <<"create">> \o st.todo, cart, st.hand)
      BY <2>3
    <3>2. worker'[w].cart.items = <<>>
      BY <1>3, <3>1, Stays
    <3> QED BY <3>2
  <2> QED BY <1>1, <1>4, <2>2, <2>3, FindShape
<1>5. CASE SaveItem(w)
  <2>1. PICK item, hand : /\ \/ item.id = nextId /\ items' = Upsert(item, items)
                             \/ item \in items /\ items' = items
                          /\ UNCHANGED <<carts, torn>>
                          /\ Becomes(w, Tail(st.todo), st.cart, hand)
    BY <1>5, SavedItem
  <2>2. worker'[w].cart = st.cart
    BY <1>3, <2>1, Stays
  <2>3. At(w, LoadedSteps)
    <3>1. Does(w, "saveItem")
      BY <1>5 DEF SaveItem
    <3> QED BY <1>1, <3>1, Working DEF LoadedSteps
  <2>4. \A k \in 1..Len(st.cart.items) : st.cart.items[k] \in items
    BY <1>1, <1>2, <2>1, <2>2, <2>3 DEF Current
  <2>5. \A i \in items : i.id # nextId
    BY <1>1, KnownType DEF ItemIdsInv, Known
  <2> QED BY <2>1, <2>2, <2>4, <2>5 DEF Upsert
<1> QED BY <1>1, <1>2, <1>4, <1>5 DEF GoesOn

\* Nobody else changes it.
LEMMA OthersCurrent ==
    ASSUME MaxLag = 0, PromiseInv, OneCartInv', NEW w \in Workers, Handle(w) \/ Abort(w),
           NEW v \in Workers, v # w
    PROVE  Current(v)'
<1> DEFINE st == worker[v]
<1>1. /\ OneCartInv /\ TypeInv /\ WholeInv /\ Frame(w) /\ Current(v)
      /\ worker'[v] = st /\ (Busy(v)' <=> Busy(v))
  BY Beneath DEF Frame, Busy
<1>2. SUFFICES ASSUME At(v, LoadedSteps)', NEW d \in carts', d.id = st.cart.id,
                      d.cust \notin torn', NEW k \in 1..Len(st.cart.items)
               PROVE  st.cart.items[k] \in items'
  BY <1>1 DEF Current
<1>3. At(v, LoadedSteps) /\ Busy(v)
  BY <1>1, <1>2 DEF At
<1>4. PICK e \in carts : e.id = st.cart.id /\ e.cust = Owner(v)
  BY <1>1, <1>3 DEF OneCartInv, HoldsCart
<1>5. /\ e \in carts' /\ (e.cust \in torn' <=> e.cust \in torn)
      /\ e.cust \notin Named(worker[w].req)
  <2>1. e.cust \in Named(st.req)
    BY <1>1, <1>3, <1>4, NamedCustomers
  <2> QED BY <1>1, <1>3, <1>4, <2>1, Untouched
<1>6. d = e
  BY <1>2, <1>4, <1>5 DEF OneCartInv, OneEach
<1>7. st.cart.items[k] \in items
  BY <1>1, <1>2, <1>3, <1>4, <1>5, <1>6 DEF Current
<1>8. e.cust # worker[w].req.cust
  BY <1>1, <1>5, NamedCustomers DEF Frame
<1>9. InCart(e, st.cart.items[k].id)
  <2>1. Len(st.cart.items) = Len(e.refs)
        /\ \A j \in 1..Len(e.refs) : st.cart.items[j].id = e.refs[j]
    BY <1>1, <1>2, <1>3, <1>4, <1>5, <1>6, ReadWhole
  <2> QED BY <1>2, <2>1 DEF InCart
<1> QED BY <1>2, <1>5, <1>6, <1>7, <1>8, <1>9, ItemsStay

\* The new item stays one sock while it gets its id and its place.
LEMMA OwnSock ==
    ASSUME MaxLag = 0, PromiseInv, NEW w \in Workers, Handle(w) \/ Abort(w)
    PROVE  OneSock(w)'
<1> DEFINE st == worker[w]
<1>1. OneCartInv /\ TypeInv /\ GoesOn(w) /\ OneSock(w)
  BY Beneath
<1>2. CASE ~Adding(w)'
  BY <1>2 DEF OneSock
<1>3. CASE Adding(w)' /\ (Find(w) \/ Create(w) \/ HasItem(w))
  <2>1. Adding(w) /\ Busy(w)'
    BY <1>1, <1>3 DEF GoesOn, Adding
  <2>2. worker'[w].hand = st.hand
    <3>1. CASE Find(w) \/ Create(w)
      BY <1>1, <2>1, <3>1, LookGoesOn
    <3>2. CASE HasItem(w)
      BY <1>1, <2>1, <3>2, HasItemShape, Stays
    <3> QED BY <1>3, <3>1, <3>2
  <2>3. items' = items
    BY <1>1, <1>3, FindShape, CreateShape, HasItemShape
  <2> QED BY <1>1, <2>1, <2>2, <2>3 DEF OneSock
<1>4. CASE Adding(w)' /\ SaveItem(w)
  <2>1. Adding(w) /\ Busy(w)'
    BY <1>1, <1>4 DEF GoesOn, Adding
  <2>2. PICK item : /\ item.qty = st.hand[1].qty /\ item \in items'
                    /\ Becomes(w, Tail(st.todo), st.cart, <<item>>)
    BY <1>4, SavedItem
  <2>3. PICK hand : hand = <<item>>
    OBVIOUS
  <2>4. worker'[w].hand = hand /\ hand[1] = item
    BY <2>1, <2>2, <2>3, Stays
  <2> QED BY <1>1, <2>1, <2>2, <2>4 DEF OneSock
<1> QED BY <1>1, <1>2, <1>3, <1>4 DEF GoesOn

\* Nobody else writes the new item.
LEMMA OthersSock ==
    ASSUME MaxLag = 0, PromiseInv, NEW w \in Workers, Handle(w) \/ Abort(w),
           NEW v \in Workers, v # w
    PROVE  OneSock(v)'
<1> DEFINE st == worker[v]
<1>1. /\ OneCartInv /\ TypeInv /\ ItemIdsInv /\ Frame(w) /\ OneSock(v) /\ Private(v)
      /\ worker'[v] = st /\ (Busy(v)' <=> Busy(v)) /\ worker[w].hand \in Seq(Item)
  BY Beneath, KnownType DEF Frame, Busy
<1>2. Adding(v)' <=> Adding(v)
  BY <1>1 DEF Adding
<1>3. SUFFICES ASSUME Adding(v), st.hand[1].id # 0 PROVE st.hand[1] \in items'
  BY <1>1, <1>2 DEF OneSock
<1>4. PICK h : h = st.hand[1]
  OBVIOUS
<1>5. h \in items
  BY <1>1, <1>3, <1>4 DEF OneSock
<1>6. worker[w].hand # <<>> => h.id # worker[w].hand[1].id
  <2>1. ASSUME worker[w].hand # <<>>, h.id = worker[w].hand[1].id PROVE FALSE
    <3>1. 1 \in 1..Len(worker[w].hand)
      BY <1>1, <2>1
    <3> QED BY <1>1, <1>3, <1>4, <2>1, <3>1 DEF Private, InHand
  <2> QED BY <2>1
<1>7. CASE SaveItem(w)
  <2>1. PICK item : \/ item.id = nextId /\ items' = Upsert(item, items)
                    \/ items' = items
    BY <1>7, SavedItem
  <2>2. h.id # nextId
    BY <1>1, <1>5, KnownType DEF ItemIdsInv, Known
  <2> QED BY <1>4, <1>5, <2>1, <2>2 DEF Upsert
<1>8. CASE SaveQuantity(w)
  <2>1. worker[w].hand # <<>> /\ \E item : item.id = worker[w].hand[1].id
                                           /\ items' = Upsert(item, items)
    BY <1>1, <1>8, SaveQuantityShape
  <2> QED BY <1>4, <1>5, <1>6, <2>1 DEF Upsert
<1>9. CASE DestroyItem(w)
  <2>1. worker[w].hand # <<>> /\ items' = {i \in items : i.id # worker[w].hand[1].id}
    BY <1>1, <1>9, DestroyItemShape
  <2> QED BY <1>4, <1>5, <1>6, <2>1
<1>10. CASE AddItem(w) \/ RemoveItem(w) \/ MergeItem(w)
  <2>1. items' = items
    BY <1>1, <1>10, AddItemShape, RemoveItemShape, MergeItemShape DEF Saves
  <2> QED BY <1>4, <1>5, <2>1
<1>11. CASE Find(w) \/ Create(w) \/ HasItem(w) \/ FindItem(w) \/ Increment(w)
              \/ DeleteCart(w) \/ MergeItems(w) \/ Abort(w)
  <2>1. items' = items
    BY <1>1, <1>11, FindShape, CreateShape, HasItemShape, FindItemShape, IncrementShape,
       DeleteCartShape, MergeItemsShape, AbortShape
  <2> QED BY <1>4, <1>5, <2>1
<1> QED BY <1>7, <1>8, <1>9, <1>10, <1>11 DEF Handle

\* The line a handler takes for the wanted one is the first of its kind in the
\* collection.
LEMMA WantedFirst ==
    ASSUME MaxLag = 0, PromiseInv, NEW w \in Workers, At(w, LoadedSteps), Wanted(w) # {},
           NEW d \in carts, d.id = worker[w].cart.id, d.cust \notin torn,
           NEW n, n = FirstWanted(w)
    PROVE  /\ n \in 1..Len(d.refs) /\ FirstLine(d, n, worker[w].req.itemId, items)
           /\ worker[w].cart.items[n] \in items /\ worker[w].cart.items[n].id = d.refs[n]
           /\ worker[w].cart.items[n].itemId = worker[w].req.itemId
<1> DEFINE st == worker[w]
<1>1. OneCartInv /\ TypeInv /\ ItemIdsInv /\ WholeInv /\ Current(w) /\ items \subseteq StoredItem
  BY Beneath, KnownType
<1>2. PICK its : its = st.cart.items
  OBVIOUS
<1>3. /\ Len(its) = Len(d.refs) /\ Len(d.refs) \in Nat
      /\ \A k \in 1..Len(d.refs) :
             /\ its[k].id = d.refs[k]
             /\ \A i \in StoredItem : Known(i) /\ i.id = d.refs[k] => i.itemId = its[k].itemId
  BY <1>1, <1>2, ReadWhole, KnownType
<1>4. /\ n \in 1..Len(its) /\ \A j \in Wanted(w) : n <= j
      /\ its[n].itemId = st.req.itemId
  BY <1>1, <1>2, KnownType, FirstWantedIn
<1>5. \A i \in items : i \in StoredItem /\ Known(i)
  BY <1>1 DEF Known
<1>6. ASSUME NEW j \in 1..Len(d.refs), NEW i \in items, j < n, i.id = d.refs[j]
      PROVE  i.itemId # st.req.itemId
  <2>1. j \notin Wanted(w)
    BY <1>3, <1>4, <1>6
  <2>2. its[j].itemId # st.req.itemId
    BY <1>2, <1>3, <2>1 DEF Wanted
  <2> QED BY <1>3, <1>5, <1>6, <2>2
<1>7. \A i \in items : i.id = d.refs[n] => i.itemId = st.req.itemId
  BY <1>3, <1>4, <1>5
<1>8. its[n] \in items
  BY <1>1, <1>2, <1>4 DEF Current
<1> QED BY <1>2, <1>3, <1>4, <1>6, <1>7, <1>8 DEF FirstLine

\* Only the item found is updated, and right after it was found.
LEMMA ReadyToSave ==
    ASSUME MaxLag = 0, OneCartInv, NEW w \in Workers, Handle(w) \/ Abort(w),
           At(w, {"saveQuantity"})'
    PROVE  FindItem(w)
<1> DEFINE st == worker[w]
<1>1. Busy(w)' /\ Head(worker'[w].todo) = "saveQuantity"
  BY DEF At
<1>2. ~Ends(w)
  BY <1>1 DEF Ends, Busy, Free
<1>3. ASSUME NEW todo, NEW cart, NEW hand, Becomes(w, todo, cart, hand)
      PROVE  todo # <<>> /\ Head(todo) = "saveQuantity"
  BY <1>1, <1>3, Stays
<1>4. CASE Find(w)
  <2>1. PICK step \in {"value", "session"} : Does(w, step)
    BY <1>4 DEF Find
  <2>2. /\ st.todo \in Seq(StepNames) /\ st.todo # <<>>
        /\ PhaseOK(step, st.req.op, Tail(st.todo), Goal(st), st.hand)
    BY <2>1, Working
  <2>3. Head(<<"create">> \o st.todo) = "create"
    BY <2>2, SameGoal
  <2>4. Tail(st.todo) # <<>> => Head(Tail(st.todo)) # "saveQuantity"
    BY <2>1, <2>2 DEF PhaseOK, Unread
  <2>5. PICK todo, cart : /\ Becomes(w, todo, cart, st.hand)
                          /\ todo = Tail(st.todo) \/ todo = <<"create">> \o st.todo
    BY <1>4, FindShape
  <2> QED BY <1>3, <2>3, <2>4, <2>5
<1>5. CASE Create(w)
  <2>1. \E todo, cart : Becomes(w, todo, cart, st.hand) /\ Head(todo) \in {"value", "session"}
    BY <1>5, CreateShape
  <2> QED BY <1>3, <2>1
<1>6. CASE HasItem(w) \/ Increment(w)
  <2>1. Head(PresentScript) = "value" /\ Head(AbsentScript) = "value"
        /\ Head(UpdateScript) = "value"
    BY Spelled
  <2>2. \E todo \in {PresentScript, AbsentScript, UpdateScript} : Becomes(w, todo, st.cart, st.hand)
    BY <1>2, <1>6, HasItemShape, IncrementShape
  <2> QED BY <1>3, <2>1, <2>2
<1>7. CASE SaveItem(w)
  <2>1. Does(w, "saveItem")
    BY <1>7 DEF SaveItem
  <2>2. Head(Tail(st.todo)) \in {"value", "addItem"}
    BY <2>1, Working DEF PhaseOK
  <2>3. \E hand : Becomes(w, Tail(st.todo), st.cart, hand)
    BY <1>7, SaveItemShape
  <2> QED BY <1>3, <2>2, <2>3
<1>8. CASE RemoveItem(w)
  <2>1. Does(w, "removeItem")
    BY <1>8 DEF RemoveItem
  <2>2. Head(Tail(st.todo)) = "destroyItem"
    BY <2>1, Working DEF PhaseOK
  <2> QED BY <1>3, <1>8, <2>2, RemoveItemShape
<1>9. CASE MergeItems(w) \/ MergeItem(w)
  <2>1. \E hand : Becomes(w, MergeRest(hand), st.cart, hand)
    BY <1>9, MergeItemsShape, MergeItemShape
  <2>2. \A hand : Head(MergeRest(hand)) \in {"session", "value"}
    BY MergeRestHead
  <2> QED BY <1>3, <2>1, <2>2
<1>10. CASE SaveQuantity(w) \/ AddItem(w) \/ DestroyItem(w) \/ DeleteCart(w) \/ Abort(w)
  BY <1>2, <1>10, SaveQuantityShape, AddItemShape, DestroyItemShape, DeleteCartShape, AbortShape
<1> QED BY <1>4, <1>5, <1>6, <1>7, <1>8, <1>9, <1>10 DEF Handle

\* The item an update writes is the first line of its kind in the customer's
\* cart when it is found.
LEMMA OwnFound ==
    ASSUME MaxLag = 0, PromiseInv, NEW w \in Workers, Handle(w) \/ Abort(w)
    PROVE  Found(w)'
<1> DEFINE st == worker[w]
<1>1. SUFFICES ASSUME At(w, {"saveQuantity"})' PROVE Found(w)'
  BY DEF Found
<1>2. /\ OneCartInv /\ TypeInv /\ ItemIdsInv /\ Drawn(w) /\ SharingInv /\ Busy(w)'
  BY <1>1, Beneath DEF At
<1>3. FindItem(w)
  BY <1>1, <1>2, ReadyToSave
<1>4. Does(w, "foundItem")
  BY <1>3 DEF FindItem
<1>5. Busy(w) /\ At(w, LoadedSteps) /\ Head(st.todo) = "foundItem" /\ st.req.op # "merge"
  BY <1>2, <1>4, Working DEF LoadedSteps, PhaseOK
<1>6. PICK its, n : its = st.cart.items /\ n = FirstWanted(w)
  OBVIOUS
<1>7. PICK found : found = its[n]
  OBVIOUS
<1>8. PICK hand : hand = <<found>>
  OBVIOUS
<1>9. /\ Wanted(w) # {} /\ Becomes(w, Tail(st.todo), st.cart, hand)
      /\ UNCHANGED <<carts, items, nextId, torn>>
  <2>1. ~Ends(w)
    BY <1>2 DEF Ends, Busy, Free
  <2> QED BY <1>2, <1>3, <1>6, <1>7, <1>8, <2>1, FindItemShape
<1>10. worker'[w].hand = hand /\ hand[1] = found /\ worker'[w].req = st.req
  BY <1>2, <1>8, <1>9, Stays
<1>11. PICK d \in carts : d.id = st.cart.id /\ d.cust = st.req.cust
  BY <1>2, <1>5 DEF OneCartInv, HoldsCart, Owner
<1>12. n \in 1..Len(its) /\ found.itemId = st.req.itemId
  BY <1>2, <1>6, <1>7, <1>9, KnownType, FirstWantedIn
<1>13. InCart(d, found.id)
  BY <1>2, <1>5, <1>6, <1>7, <1>11, <1>12 DEF Drawn
<1>14. ASSUME NEW e \in carts, InCart(e, found.id)
       PROVE  e.cust \in torn \/ e.cust = st.req.cust
  <2>1. CASE e = d
    BY <1>11, <2>1
  <2>2. CASE e # d
    <3>1. Shares(d, e)
      BY <1>13, <1>14, <2>2 DEF Shares
    <3>2. Excused(d.cust, e.cust)
      BY <1>2, <3>1 DEF SharingInv
    <3>3. ASSUME NEW v \in Workers, Looping(v), {d.cust, e.cust} = Named(worker[v].req)
          PROVE  FALSE
      <4>1. v # w /\ Busy(v)
        BY <1>5, <3>3 DEF Looping
      <4>2. d.cust \in Named(st.req) /\ d.cust \in Named(worker[v].req)
        BY <1>2, <1>5, <1>11, <3>3, NamedCustomers
      <4> QED BY <1>2, <1>5, <4>1, <4>2 DEF OneCartInv, Separate
    <3> QED BY <3>2, <3>3 DEF Excused
  <2> QED BY <2>1, <2>2
<1>15. st.req.cust \notin torn => /\ n \in 1..Len(d.refs) /\ FirstLine(d, n, st.req.itemId, items)
                                  /\ found.id = d.refs[n]
  BY <1>5, <1>6, <1>7, <1>9, <1>11, WantedFirst
<1> QED BY <1>9, <1>10, <1>11, <1>12, <1>14, <1>15 DEF Found, FirstLine

\* An update is made with the item in the hand.
LEMMA UpdateHand ==
    ASSUME TypeInv, NEW w \in Workers, Does(w, "saveQuantity")
    PROVE  worker[w].hand # <<>> /\ worker[w].hand \in Seq(StoredItem)
<1> DEFINE st == worker[w]
<1>1. StateOK(st) /\ st.req # None /\ Head(st.todo) = "saveQuantity" /\ Head(st.todo) # "create"
  BY BusyStep
<1>2. PICK s \in Scripts(st.req.op) : \E m \in 1..Len(s) :
          /\ s \in AllScripts /\ HandOK(st.hand, st.req.op, s, Len(st.todo))
          /\ s[m] = "saveQuantity" /\ Len(st.todo) = Len(s) - m + 1
  BY <1>1, ScriptStep
<1>3. s = UpdateScript /\ Len(st.todo) = 1
  BY <1>2, Where
<1> QED BY <1>2, <1>3 DEF HandOK

\* A step of another thread leaves it the first one, in no cart but this.
LEMMA OthersFound ==
    ASSUME MaxLag = 0, PromiseInv, NEW w \in Workers, Handle(w) \/ Abort(w),
           NEW v \in Workers, v # w
    PROVE  Found(v)'
<1> DEFINE st == worker[v]
<1>1. /\ OneCartInv /\ TypeInv /\ WholeInv /\ Frame(w) /\ Found(v)
      /\ worker'[v] = st /\ (Busy(v)' <=> Busy(v)) /\ torn \subseteq torn'
  BY Beneath DEF Frame, Busy
<1>2. At(v, {"saveQuantity"})' <=> At(v, {"saveQuantity"})
  BY <1>1 DEF At
<1>3. SUFFICES ASSUME At(v, {"saveQuantity"}) PROVE Found(v)'
  BY <1>2 DEF Found
<1>4. PICK h : h = st.hand[1]
  OBVIOUS
<1>5. Busy(v) /\ st.req.cust \in Named(st.req) /\ InHand(v, h.id)
  <2>1. Busy(v) /\ st.req.cust \in Named(st.req) /\ st.todo # <<>> /\ st.hand \in Seq(Item)
    BY <1>1, <1>3, NamedCustomers, AtStep, KnownType DEF At, TypeInv, Busy
  <2>2. Does(v, "saveQuantity")
    BY <1>3, <2>1 DEF At, Does
  <2>3. st.hand # <<>>
    BY <1>1, <2>2, UpdateHand
  <2>4. 1 \in 1..Len(st.hand)
    BY <2>1, <2>3
  <2> QED BY <1>4, <2>1, <2>4 DEF InHand
<1>6. /\ h.itemId = st.req.itemId
      /\ \A e \in carts : InCart(e, h.id) => e.cust \in torn \/ e.cust = st.req.cust
      /\ st.req.cust \notin torn =>
             \E d \in carts : \E k \in 1..Len(d.refs) :
                 /\ d.cust = st.req.cust /\ d.refs[k] = h.id
                 /\ FirstLine(d, k, st.req.itemId, items)
  BY <1>1, <1>3, <1>4 DEF Found
<1>7. \A e \in carts' : InCart(e, h.id) => e.cust \in torn' \/ e.cust = st.req.cust
  <2>1. PICK own, id : own = {st.req.cust} /\ id = h.id
    OBVIOUS
  <2>2. own \in SUBSET Named(st.req) /\ InHand(v, id) /\ Busy(v)
    BY <1>5, <2>1
  <2>3. \A e \in carts : InCart(e, id) => e.cust \in torn \cup own
    BY <1>6, <2>1
  <2>4. \A e \in carts' : InCart(e, id) => e.cust \in torn' \cup own
    BY <1>1, <2>2, <2>3, HeldApart
  <2> QED BY <2>1, <2>4
<1>8. ASSUME st.req.cust \notin torn'
      PROVE  \E d \in carts' : \E k \in 1..Len(d.refs) :
                 /\ d.cust = st.req.cust /\ d.refs[k] = h.id
                 /\ FirstLine(d, k, st.req.itemId, items')
  <2>1. st.req.cust \notin torn
    BY <1>1, <1>8
  <2>2. PICK d \in carts : \E k \in 1..Len(d.refs) :
                 /\ d.cust = st.req.cust /\ d.refs[k] = h.id
                 /\ FirstLine(d, k, st.req.itemId, items)
    BY <1>6, <2>1
  <2>3. PICK k \in 1..Len(d.refs) :
                 /\ d.cust = st.req.cust /\ d.refs[k] = h.id
                 /\ FirstLine(d, k, st.req.itemId, items)
    BY <2>2
  <2>4. d \in carts'
    BY <1>1, <1>5, <2>3, Untouched
  <2>5. FirstLine(d, k, st.req.itemId, items')
    <3>1. d.cust \notin torn
      BY <2>1, <2>3
    <3> QED BY <2>3, <3>1, FirstStays
  <2> QED BY <2>3, <2>4, <2>5
<1> QED BY <1>1, <1>4, <1>6, <1>7, <1>8 DEF Found, FirstLine

\* An add goes over to counting at the increment, and counts until its update.
LEMMA CountsOn ==
    ASSUME MaxLag = 0, OneCartInv, NEW w \in Workers, Handle(w) \/ Abort(w), Counting(w)'
    PROVE  (Counting(w) /\ (Find(w) \/ Create(w) \/ FindItem(w))) \/ Increment(w)
<1> DEFINE st == worker[w]
<1>1. TypeInv /\ Busy(w) /\ Busy(w)' /\ worker'[w].req = st.req /\ st.req.op = "add"
      /\ Goal(worker'[w]) = "saveQuantity" /\ ~Ends(w)
  <2>1. TypeInv /\ Busy(w)'
    BY DEF OneCartInv, Counting
  <2> QED BY <2>1, OneThread DEF OwnStep, Counting, Ends, Busy, Free
<1>2. CASE Find(w) \/ Create(w)
  <2>1. Goal(st) = "saveQuantity"
    BY <1>1, <1>2, LookGoesOn
  <2> QED BY <1>1, <1>2, <2>1 DEF Counting
<1>3. CASE FindItem(w)
  <2>1. Does(w, "foundItem")
    BY <1>3 DEF FindItem
  <2>2. PICK hand : Becomes(w, Tail(st.todo), st.cart, hand)
    BY <1>1, <1>3, FindItemShape
  <2>3. Tail(st.todo) # <<>> /\ worker'[w].todo = Tail(st.todo)
    BY <1>1, <2>2, Stays
  <2>4. Goal(st) = Goal(worker'[w])
    BY <2>1, <2>3, Working DEF PhaseOK, Goal
  <2> QED BY <1>1, <1>3, <2>4 DEF Counting
<1>4. CASE HasItem(w)
  <2>1. PICK todo \in {PresentScript, AbsentScript} : Becomes(w, todo, st.cart, st.hand)
    BY <1>4, HasItemShape
  <2>2. worker'[w].todo = todo
    BY <1>1, <2>1, Stays
  <2>3. todo[Len(todo)] \in {"increment", "addItem"}
    <3>1. CASE todo = PresentScript
      BY <3>1, Spelled
    <3>2. CASE todo = AbsentScript
      BY <3>2, Spelled
    <3> QED BY <3>1, <3>2
  <2> QED BY <1>1, <2>2, <2>3 DEF Goal
<1>5. CASE SaveItem(w)
  <2>1. Does(w, "saveItem")
    BY <1>5 DEF SaveItem
  <2>2. PICK hand : Becomes(w, Tail(st.todo), st.cart, hand)
    BY <1>5, SaveItemShape
  <2>3. Tail(st.todo) # <<>> /\ worker'[w].todo = Tail(st.todo)
    BY <1>1, <2>2, Stays
  <2>4. Goal(worker'[w]) = "addItem"
    BY <2>1, <2>3, Working DEF PhaseOK, Goal
  <2> QED BY <1>1, <2>4
<1>6. CASE RemoveItem(w) \/ MergeItems(w) \/ MergeItem(w)
  <2>1. PICK step \in {"removeItem", "mergeItems", "mergeItem"} : Does(w, step)
    BY <1>6 DEF RemoveItem, MergeItems, MergeItem
  <2> QED BY <1>1, <2>1, Working DEF PhaseOK
<1>7. CASE SaveQuantity(w) \/ AddItem(w) \/ DestroyItem(w) \/ DeleteCart(w) \/ Abort(w)
  BY <1>1, <1>7, SaveQuantityShape, AddItemShape, DestroyItemShape, DeleteCartShape, AbortShape
<1> QED BY <1>2, <1>3, <1>4, <1>5, <1>6, <1>7 DEF Handle

\* The count is one more than the line the handler has found.
LEMMA OwnMore ==
    ASSUME MaxLag = 0, PromiseInv, NEW w \in Workers, Handle(w) \/ Abort(w)
    PROVE  OneMore(w)'
<1> DEFINE st == worker[w]
<1>1. OneCartInv /\ TypeInv /\ OneMore(w) /\ OwnStep(w) /\ Frame(w)
  BY Beneath
<1>2. SUFFICES ASSUME Counting(w)', worker'[w].req.cust \notin torn' PROVE OneMore(w)'
  BY DEF OneMore
<1>3. Busy(w)' /\ worker'[w].req = st.req /\ st.req.cust \notin torn
  BY <1>1, <1>2 DEF Counting, OwnStep, Frame
<1>4. CASE Counting(w) /\ (Find(w) \/ Create(w) \/ FindItem(w))
  <2>1. worker'[w].qty = st.qty
    <3>1. ~Increment(w)
      BY <1>4 DEF Find, Create, FindItem, Increment, Does
    <3> QED BY <1>1, <1>3, <3>1, QtyKept
  <2>2. items' = items /\ carts \subseteq carts'
    BY <1>1, <1>4, FindShape, CreateShape, FindItemShape
  <2>3. PICK d \in carts : \E k \in 1..Len(d.refs) : \E i \in items :
            /\ d.cust = st.req.cust /\ FirstLine(d, k, st.req.itemId, items)
            /\ i.id = d.refs[k] /\ st.qty = i.qty + 1
    BY <1>1, <1>3, <1>4 DEF OneMore
  <2>4. \A k : FirstLine(d, k, st.req.itemId, items) => FirstLine(d, k, st.req.itemId, items')
    BY <2>2 DEF FirstLine
  <2> QED BY <1>3, <2>1, <2>2, <2>3, <2>4 DEF OneMore, FirstLine
<1>5. CASE Increment(w)
  <2>1. Does(w, "increment")
    BY <1>5 DEF Increment
  <2>2. Busy(w) /\ At(w, LoadedSteps) /\ Head(st.todo) = "increment" /\ st.req.op = "add"
    BY <1>1, <2>1, Working DEF LoadedSteps, PhaseOK
  <2>3. ~Ends(w)
    BY <1>3 DEF Ends, Busy, Free
  <2>4. PICK n : n = FirstWanted(w)
    OBVIOUS
  <2>5. PICK i : i = st.cart.items[n]
    OBVIOUS
  <2>6. /\ Wanted(w) # {} /\ UNCHANGED <<carts, items, nextId, torn>>
        /\ worker'[w].qty = i.qty + 1
    BY <1>1, <1>5, <2>3, <2>4, <2>5, IncrementShape
  <2>7. PICK d \in carts : d.id = st.cart.id /\ d.cust = st.req.cust
    BY <1>1, <2>2 DEF OneCartInv, HoldsCart, Owner
  <2>8. /\ n \in 1..Len(d.refs) /\ FirstLine(d, n, st.req.itemId, items)
        /\ i \in items /\ i.id = d.refs[n]
    BY <1>3, <2>2, <2>4, <2>5, <2>6, <2>7, WantedFirst
  <2> QED BY <1>3, <2>6, <2>7, <2>8 DEF OneMore, FirstLine
<1> QED BY <1>1, <1>2, <1>4, <1>5, CountsOn

\* A step of another thread leaves that line as it is.
LEMMA OthersMore ==
    ASSUME MaxLag = 0, PromiseInv, NEW w \in Workers, Handle(w) \/ Abort(w),
           NEW v \in Workers, v # w
    PROVE  OneMore(v)'
<1> DEFINE st == worker[v]
<1>1. /\ OneCartInv /\ TypeInv /\ Frame(w) /\ OneMore(v) /\ Busy(w)
      /\ worker'[v] = st /\ (Busy(v)' <=> Busy(v)) /\ torn \subseteq torn'
  BY Beneath DEF Frame, Busy
<1>2. SUFFICES ASSUME Counting(v), st.req.cust \notin torn
               PROVE  \E d \in carts' : \E k \in 1..Len(d.refs) : \E i \in items' :
                          /\ d.cust = st.req.cust /\ FirstLine(d, k, st.req.itemId, items')
                          /\ i.id = d.refs[k] /\ st.qty = i.qty + 1
  BY <1>1 DEF OneMore, Counting
<1>3. PICK d \in carts : \E k \in 1..Len(d.refs) : \E i \in items :
            /\ d.cust = st.req.cust /\ FirstLine(d, k, st.req.itemId, items)
            /\ i.id = d.refs[k] /\ st.qty = i.qty + 1
  BY <1>1, <1>2 DEF OneMore
<1>4. PICK k \in 1..Len(d.refs), i \in items :
            /\ d.cust = st.req.cust /\ FirstLine(d, k, st.req.itemId, items)
            /\ i.id = d.refs[k] /\ st.qty = i.qty + 1
  BY <1>3
<1>5. Busy(v) /\ st.req.cust \in Named(st.req)
  BY <1>1, <1>2, NamedCustomers DEF Counting
<1>6. d \in carts' /\ d.cust # worker[w].req.cust
  <2>1. d.cust \notin Named(worker[w].req) /\ d \in carts'
    BY <1>1, <1>4, <1>5, Untouched
  <2> QED BY <1>1, <2>1, NamedCustomers
<1>7. i \in items'
  <2>1. InCart(d, i.id)
    BY <1>4 DEF InCart
  <2> QED BY <1>2, <1>4, <1>6, <2>1, ItemsStay
<1>8. FirstLine(d, k, st.req.itemId, items')
  <2>1. d.cust \notin torn
    BY <1>2, <1>4
  <2> QED BY <1>4, <2>1, FirstStays
<1> QED BY <1>4, <1>6, <1>7, <1>8

\* The quantity an update goes on with is the one of its request.
LEMMA OwnAsked ==
    ASSUME MaxLag = 0, PromiseInv, NEW w \in Workers, Handle(w) \/ Abort(w)
    PROVE  AsAsked(w)'
<1> DEFINE st == worker[w]
<1>1. OneCartInv /\ TypeInv /\ AsAsked(w) /\ OwnStep(w) /\ Frame(w)
  BY Beneath
<1>2. SUFFICES ASSUME Busy(w)', worker'[w].req.op = "update"
               PROVE  worker'[w].qty = worker'[w].req.qty
  BY DEF AsAsked
<1>3. Busy(w) /\ worker'[w].req = st.req
  BY <1>1, <1>2 DEF OwnStep, Frame
<1>4. ~Increment(w)
  <2>1. ASSUME Increment(w) PROVE FALSE
    <3>1. Does(w, "increment")
      BY <2>1 DEF Increment
    <3> QED BY <1>1, <1>2, <1>3, <3>1, Working DEF PhaseOK
  <2> QED BY <2>1
<1>5. worker'[w].qty = st.qty
  BY <1>1, <1>2, <1>4, QtyKept
<1> QED BY <1>1, <1>2, <1>3, <1>5 DEF AsAsked

-----------------------------------------------------------------------------
(* How far a merge has got *)

\* What is left of a cart that is being merged: nothing is moved yet when the
\* session's cart is read.
LEMMA BegunMerge ==
    ASSUME MaxLag = 0, PromiseInv, NEW w \in Workers, MergeItems(w), Looping(w)'
    PROVE  worker'[w].req.cust \notin torn' =>
               \E e \in carts' : Moved(w, e)' /\ Len(worker'[w].hand) = Len(e.refs)
<1> DEFINE st == worker[w]
<1>1. OneCartInv /\ TypeInv /\ WholeInv /\ Busy(w)'
  BY Beneath DEF Looping
<1>2. PICK its : its = st.cart.items
  OBVIOUS
<1>3. /\ UNCHANGED <<carts, items>> /\ st.req.op = "merge"
      /\ torn' = IF Named(st.req) \cap torn = {} THEN torn ELSE torn \cup Named(st.req)
      /\ worker'[w].hand = its /\ worker'[w].req = st.req
  BY <1>1, <1>2, MergeItemsShape, Stays
<1>4. SUFFICES ASSUME st.req.cust \notin torn'
               PROVE  \E e \in carts' : Moved(w, e)' /\ Len(worker'[w].hand) = Len(e.refs)
  BY <1>3
<1>5. Does(w, "mergeItems")
  BY DEF MergeItems
<1>6. Busy(w) /\ Head(st.todo) = "mergeItems" /\ At(w, LoadedSteps)
  BY <1>1, <1>5, Working DEF LoadedSteps
<1>7. st.req.cust \in Named(st.req) /\ st.req.other \in Named(st.req)
  BY <1>1, <1>3, <1>6, NamedCustomers
<1>8. st.req.other \notin torn
  BY <1>3, <1>4, <1>7
<1>9. PICK e \in carts : e.id = st.cart.id /\ e.cust = st.req.other
  <2>1. \E e \in carts : e.id = st.cart.id /\ e.cust = Owner(w)
    BY <1>1, <1>6 DEF OneCartInv, HoldsCart
  <2> QED BY <1>3, <1>6, <2>1 DEF Owner
<1>10. Len(its) = Len(e.refs) /\ Len(e.refs) \in Nat
        /\ \A k \in 1..Len(e.refs) : its[k].id = e.refs[k]
  BY <1>1, <1>2, <1>6, <1>8, <1>9, ReadWhole, KnownType
<1>11. Moved(w, e)'
  BY <1>3, <1>9, <1>10 DEF Moved
<1> QED BY <1>3, <1>9, <1>10, <1>11

\* Each item is appended to the customer's cart.
LEMMA MergedOn ==
    ASSUME MaxLag = 0, PromiseInv, NEW w \in Workers, MergeItem(w), Looping(w), Looping(w)'
    PROVE  /\ torn' = torn /\ items' = items /\ worker'[w].req = worker[w].req
           /\ worker[w].req.cust \notin torn =>
                \E old, e \in carts : \E doc :
                    /\ doc.cust = old.cust /\ old.cust = worker[w].req.cust
                    /\ carts' = (carts \ {old}) \cup {doc} /\ Added(w, old, doc)
                    /\ Moved(w, e) /\ e \in carts' /\ Moved(w, e)'
                    /\ Len(worker[w].hand) = Len(worker'[w].hand) + 1
                    /\ Len(worker'[w].hand) \in Nat
<1> DEFINE st == worker[w]
<1>1. OneCartInv /\ TypeInv /\ WholeInv /\ Exact(w) /\ HalfMerged(w) /\ Busy(w)' /\ Busy(w)
  BY Beneath DEF Looping
<1>2. PICK hand : hand = st.hand
  OBVIOUS
<1>3. PICK left : left = Tail(hand)
  OBVIOUS
<1>4. /\ worker'[w].hand = left /\ worker'[w].req = st.req
      /\ hand # <<>> /\ hand \in Seq(StoredItem)
  BY <1>1, <1>2, <1>3, MergeItemShape, Stays
<1>5. /\ Len(left) \in Nat /\ Len(hand) = Len(left) + 1
      /\ \A k \in 1..Len(left) : left[k] = hand[k + 1] /\ k + 1 \in 1..Len(hand)
      /\ 1 \in 1..Len(hand)
  BY <1>3, <1>4
<1>6. PICK old \in carts : \E new :
               /\ new.cust = old.cust /\ old.cust = st.req.cust
               /\ carts' = (carts \ {old}) \cup {new} /\ torn' = torn /\ items' = items
               /\ old.cust \notin torn => Added(w, old, new) \/ Removed(w, old, new)
  BY <1>1, SavedWhole
<1>7. PICK doc :
               /\ doc.cust = old.cust /\ old.cust = st.req.cust
               /\ carts' = (carts \ {old}) \cup {doc} /\ torn' = torn /\ items' = items
               /\ old.cust \notin torn => Added(w, old, doc) \/ Removed(w, old, doc)
  BY <1>6
<1>8. SUFFICES ASSUME st.req.cust \notin torn
               PROVE  \E e \in carts : /\ Added(w, old, doc)
                                       /\ Moved(w, e) /\ e \in carts' /\ Moved(w, e)'
                                       /\ Len(hand) = Len(left) + 1 /\ Len(left) \in Nat
  BY <1>2, <1>4, <1>7
<1>9. PICK e \in carts : Moved(w, e)
  BY <1>1, <1>8 DEF HalfMerged
<1>10. PICK n : n = Len(e.refs) - Len(hand)
  OBVIOUS
<1>11. /\ e.cust = st.req.other /\ Len(hand) <= Len(e.refs) /\ Len(e.refs) \in Nat
       /\ \A k \in 1..Len(hand) : hand[k].id = e.refs[n + k]
       /\ n > 0 => \E d \in carts : /\ d.cust = st.req.cust /\ n <= Len(d.refs)
                                    /\ \A k \in 1..n : d.refs[Len(d.refs) - n + k] = e.refs[k]
  <2>1. Len(e.refs) \in Nat
    BY <1>1, KnownType
  <2> QED BY <1>2, <1>9, <1>10, <2>1 DEF Moved
<1>12. st.req.cust # st.req.other
  BY <1>1, NamedCustomers, MergeNames DEF Looping
<1>13. e \in carts'
  BY <1>7, <1>11, <1>12
<1>14. /\ Len(doc.refs) = Len(old.refs) + 1 /\ Len(old.refs) \in Nat
       /\ \A k \in 1..Len(old.refs) : doc.refs[k] = old.refs[k]
       /\ doc.refs[Len(old.refs) + 1] = hand[1].id
       /\ Added(w, old, doc)
  <2>1. ~RemoveItem(w)
    BY DEF MergeItem, RemoveItem, Does
  <2> QED BY <1>1, <1>2, <1>7, <1>8, <2>1, KnownType DEF Removed, Added
<1>15. n \in Nat /\ n + 1 = Len(e.refs) - Len(left)
  BY <1>5, <1>10, <1>11
<1>16. n > 0 => n <= Len(old.refs) /\ \A k \in 1..n : old.refs[Len(old.refs) - n + k] = e.refs[k]
  BY <1>1, <1>7, <1>11 DEF OneCartInv, OneEach
<1>17. ASSUME NEW k \in 1..(n + 1) PROVE doc.refs[Len(doc.refs) - (n + 1) + k] = e.refs[k]
  <2>1. CASE k = n + 1
    <3>1. Len(doc.refs) - (n + 1) + k = Len(old.refs) + 1
      <4>1. PICK m, l : m = n + 1 /\ l = Len(doc.refs)
        OBVIOUS
      <4>2. m \in Nat /\ l \in Nat /\ k = m /\ l = Len(old.refs) + 1
        BY <1>14, <1>15, <2>1, <4>1
      <4>3. (l - m) + k = l
        BY <4>2
      <4> QED BY <4>1, <4>2, <4>3
    <3>2. hand[1].id = e.refs[n + 1]
      BY <1>5, <1>11
    <3> QED BY <1>14, <2>1, <3>1, <3>2
  <2>2. CASE k # n + 1
    <3>1. k \in 1..n /\ n > 0 /\ n <= Len(old.refs)
      BY <1>15, <1>16, <2>2
    <3>2. PICK j : j = Len(old.refs) - n + k
      OBVIOUS
    <3>3. j \in 1..Len(old.refs) /\ j = Len(doc.refs) - (n + 1) + k
      <4>1. PICK l : l = Len(old.refs)
        OBVIOUS
      <4>2. l \in Nat /\ Len(doc.refs) = l + 1 /\ j = l - n + k /\ n <= l
        BY <1>14, <3>1, <3>2, <4>1
      <4>3. n \in Nat /\ k \in 1..n
        BY <1>15, <3>1
      <4>4. j \in 1..l /\ j = (l + 1) - (n + 1) + k
        BY <4>2, <4>3
      <4> QED BY <4>1, <4>2, <4>4
    <3> QED BY <1>14, <1>16, <3>1, <3>2, <3>3
  <2> QED BY <2>1, <2>2
<1>18. ASSUME NEW k \in 1..Len(left) PROVE left[k].id = e.refs[(n + 1) + k]
  <2>1. left[k].id = e.refs[n + (k + 1)]
    BY <1>5, <1>11
  <2>2. n + (k + 1) = (n + 1) + k
    BY <1>15
  <2> QED BY <2>1, <2>2
<1>19. n + 1 <= Len(doc.refs) /\ Len(left) <= Len(e.refs) /\ doc \in carts'
  BY <1>5, <1>7, <1>11, <1>14, <1>15, <1>16
<1>20. PICK m : m = n + 1 /\ m = Len(e.refs) - Len(left)
  BY <1>15
<1>21. Moved(w, e)'
  <2>1. \A k \in 1..Len(left) : left[k].id = e.refs[m + k]
    BY <1>18, <1>20
  <2>2. \E d \in carts' : /\ d.cust = st.req.cust /\ m <= Len(d.refs)
                          /\ \A k \in 1..m : d.refs[Len(d.refs) - m + k] = e.refs[k]
    BY <1>7, <1>17, <1>19, <1>20
  <2> QED BY <1>4, <1>11, <1>19, <1>20, <2>1, <2>2 DEF Moved
<1> QED BY <1>5, <1>9, <1>13, <1>14, <1>21

\* A look-up changes neither cart.
LEMMA LookedOn ==
    ASSUME MaxLag = 0, PromiseInv, NEW w \in Workers, Find(w) \/ Create(w), Looping(w), Looping(w)'
    PROVE  /\ worker'[w].hand = worker[w].hand /\ worker'[w].req = worker[w].req
           /\ carts \subseteq carts' /\ torn' = torn
           /\ \A e : Moved(w, e) => Moved(w, e)'
<1>1. OneCartInv /\ TypeInv /\ OwnStep(w) /\ Busy(w)'
  BY Beneath DEF Looping, Handle
<1>2. worker'[w].hand = worker[w].hand /\ worker'[w].req = worker[w].req
  BY <1>1, LookGoesOn DEF OwnStep
<1>3. carts \subseteq carts' /\ torn' = torn
  BY <1>1, FindShape, CreateShape
<1>4. ASSUME NEW e, Moved(w, e) PROVE Moved(w, e)'
  <2>1. PICK n : n = Len(e.refs) - Len(worker[w].hand)
    OBVIOUS
  <2> QED BY <1>2, <1>3, <1>4, <2>1 DEF Moved
<1> QED BY <1>2, <1>3, <1>4

\* What a merge knows of the two carts, after a step of its own handler ...
LEMMA OwnMerge ==
    ASSUME MaxLag = 0, PromiseInv, NEW w \in Workers, Handle(w) \/ Abort(w)
    PROVE  HalfMerged(w)'
<1>1. GoesOn(w) /\ HalfMerged(w)
  BY Beneath
<1>2. SUFFICES ASSUME Looping(w)', worker'[w].req.cust \notin torn'
               PROVE  \E e \in carts' : Moved(w, e)'
  BY DEF HalfMerged
<1>3. CASE MergeItems(w)
  BY <1>2, <1>3, BegunMerge
<1>4. CASE Looping(w) /\ MergeItem(w)
  BY <1>2, <1>4, MergedOn
<1>5. CASE Looping(w) /\ (Find(w) \/ Create(w))
  <2>1. PICK e \in carts : Moved(w, e)
    BY <1>1, <1>2, <1>5, LookedOn DEF HalfMerged
  <2> QED BY <1>2, <1>5, <2>1, LookedOn
<1> QED BY <1>1, <1>2, <1>3, <1>4, <1>5 DEF GoesOn

\* Nobody else changes the two carts of a merge.
LEMMA OthersMoved ==
    ASSUME MaxLag = 0, PromiseInv, NEW w \in Workers, Handle(w) \/ Abort(w),
           NEW v \in Workers, v # w, Looping(v), NEW e \in carts, Moved(v, e)
    PROVE  e \in carts' /\ Moved(v, e)' /\ worker'[v] = worker[v]
           /\ (worker[v].req.cust \in torn' => worker[v].req.cust \in torn)
<1> DEFINE st == worker[v]
<1>1. /\ OneCartInv /\ TypeInv /\ Frame(w) /\ worker'[v] = st
  BY Beneath DEF Frame, Busy
<1>2. Busy(v) /\ st.req.cust \in Named(st.req) /\ st.req.other \in Named(st.req)
  BY <1>1, NamedCustomers DEF Looping
<1>3. \A d : d.cust \in {st.req.cust, st.req.other} => (d \in carts' <=> d \in carts)
  BY <1>1, <1>2, Untouched
<1>4. PICK n : n = Len(e.refs) - Len(st.hand)
  OBVIOUS
<1>5. /\ e.cust = st.req.other /\ Len(st.hand) <= Len(e.refs)
      /\ \A k \in 1..Len(st.hand) : st.hand[k].id = e.refs[n + k]
      /\ n > 0 => \E d \in carts : /\ d.cust = st.req.cust /\ n <= Len(d.refs)
                                   /\ \A k \in 1..n : d.refs[Len(d.refs) - n + k] = e.refs[k]
  BY <1>4 DEF Moved
<1>6. n > 0 => \E d \in carts' : /\ d.cust = st.req.cust /\ n <= Len(d.refs)
                                 /\ \A k \in 1..n : d.refs[Len(d.refs) - n + k] = e.refs[k]
  BY <1>3, <1>5
<1>7. Moved(v, e)'
  <2>1. PICK m : m = Len(e.refs) - Len(worker'[v].hand)
    OBVIOUS
  <2>2. m = n
    BY <1>1, <1>4, <2>1
  <2>3. e.cust = worker'[v].req.other /\ Len(worker'[v].hand) <= Len(e.refs)
    BY <1>1, <1>5
  <2>4. \A k \in 1..Len(worker'[v].hand) : worker'[v].hand[k].id = e.refs[m + k]
    BY <1>1, <1>5, <2>2
  <2>5. m > 0 => \E d \in carts' :
                     /\ d.cust = worker'[v].req.cust /\ m <= Len(d.refs)
                     /\ \A k \in 1..m : d.refs[Len(d.refs) - m + k] = e.refs[k]
    BY <1>1, <1>6, <2>2
  <2> QED BY <2>1, <2>3, <2>4, <2>5, Zenon DEF Moved
<1> QED BY <1>1, <1>2, <1>3, <1>5, <1>7, Untouched

\* ... and after a step of any other.
LEMMA OthersMerge ==
    ASSUME MaxLag = 0, PromiseInv, NEW w \in Workers, Handle(w) \/ Abort(w),
           NEW v \in Workers, v # w
    PROVE  HalfMerged(v)'
<1>1. Frame(w) /\ HalfMerged(v) /\ worker'[v] = worker[v]
  BY Beneath DEF Frame
<1>2. SUFFICES ASSUME Looping(v), worker[v].req.cust \notin torn'
               PROVE  \E e \in carts' : Moved(v, e)'
  BY <1>1 DEF HalfMerged, Looping, Busy
<1>3. PICK e \in carts : Moved(v, e)
  BY <1>1, <1>2 DEF HalfMerged, Frame
<1> QED BY <1>2, <1>3, OthersMoved

\* When the session's cart is to be deleted, the list of its items has been
\* worked off.
LEMMA OwnEmptied ==
    ASSUME MaxLag = 0, PromiseInv, NEW w \in Workers, Handle(w) \/ Abort(w)
    PROVE  Emptied(w)'
<1>1. OneCartInv /\ GoesOn(w) /\ Emptied(w)
  BY Beneath
<1>2. SUFFICES ASSUME Looping(w)', Goal(worker'[w]) = "deleteCart" PROVE worker'[w].hand = <<>>
  BY DEF Emptied
<1>3. Busy(w)'
  BY <1>2 DEF Looping
<1>4. CASE Looping(w) /\ (Find(w) \/ Create(w))
  BY <1>1, <1>2, <1>3, <1>4, LookGoesOn DEF Emptied
<1>5. CASE MergeItem(w) \/ MergeItems(w)
  <2>1. PICK hand : Becomes(w, MergeRest(hand), worker[w].cart, hand)
    BY <1>1, <1>5, MergeItemShape, MergeItemsShape
  <2>2. worker'[w].hand = hand /\ worker'[w].todo = MergeRest(hand)
    BY <1>3, <2>1, Stays
  <2> QED BY <1>2, <2>2, MergeRestHead DEF Goal
<1> QED BY <1>1, <1>2, <1>4, <1>5 DEF GoesOn

-----------------------------------------------------------------------------
(* The invariant *)

\* A step that leaves a handler and what it has read alone.
LEMMA LearntStays ==
    ASSUME UNCHANGED <<carts, items, torn>>, NEW v \in Workers, worker'[v] = worker[v], Learnt(v)
    PROVE  Learnt(v)'
<1>1. /\ At(v, LoadedSteps)' <=> At(v, LoadedSteps)
      /\ At(v, {"saveQuantity"})' <=> At(v, {"saveQuantity"})
      /\ Adding(v)' <=> Adding(v)
      /\ Counting(v)' <=> Counting(v)
      /\ Looping(v)' <=> Looping(v)
      /\ Busy(v)' <=> Busy(v)
  BY DEF At, Adding, Counting, Looping, Busy
<1>2. Current(v)' /\ OneSock(v)'
  BY <1>1 DEF Learnt, Current, OneSock
<1>3. Found(v)'
  <2>1. Found(v)
    BY DEF Learnt
  <2> QED BY <1>1, <2>1 DEF Found
<1>4. OneMore(v)'
  <2>1. OneMore(v)
    BY DEF Learnt
  <2> QED BY <1>1, <2>1 DEF OneMore
<1>5. AsAsked(v)' /\ Emptied(v)'
  BY <1>1 DEF Learnt, AsAsked, Emptied
<1>6. HalfMerged(v)'
  <2>1. \A e : Moved(v, e)' <=> Moved(v, e)
    BY DEF Moved
  <2> QED BY <1>1, <2>1 DEF Learnt, HalfMerged
<1> QED BY <1>2, <1>3, <1>4, <1>5, <1>6 DEF Learnt

\* A handler that has just begun knows its request.
LEMMA ReceiveLearnt ==
    ASSUME OneCartInv, NEW w \in Workers, NEW req \in Requests, Receive(w, req)
    PROVE  Learnt(w)'
<1>1. /\ worker'[w].req = req /\ worker'[w].todo = Script(req.op)
      /\ req.op = "add" => worker'[w].hand = <<[id |-> 0, itemId |-> req.itemId, qty |-> 1]>>
  BY ReceiveShape
<1>2. Head(Script(req.op)) \in {"value", "session"}
  BY RequestOps, Spelled DEF Script, OpNames
<1>3. Current(w)' /\ Found(w)'
  BY <1>1, <1>2 DEF Current, Found, At, LoadedSteps
<1>4. OneSock(w)'
  <2>1. CASE req.op = "add"
    <3>1. PICK hand : hand = <<[id |-> 0, itemId |-> req.itemId, qty |-> 1]>>
      OBVIOUS
    <3>2. worker'[w].hand = hand /\ hand[1].id = 0 /\ hand[1].qty = 1
      BY <1>1, <2>1, <3>1
    <3> QED BY <3>2 DEF OneSock
  <2>2. CASE req.op # "add"
    BY <1>1, <2>2 DEF OneSock, Adding
  <2> QED BY <2>1, <2>2
<1>5. OneMore(w)'
  <2>1. req.op = "add" => Goal(worker'[w]) = "hasItem"
    BY <1>1, Spelled DEF Script, Goal
  <2> QED BY <1>1, <2>1 DEF OneMore, Counting
<1>6. AsAsked(w)'
  <2>1. worker'[w].qty = req.qty
    BY DEF Receive, OneCartInv, TypeInv
  <2> QED BY <1>1, <2>1 DEF AsAsked
<1>7. HalfMerged(w)' /\ Emptied(w)'
  <2>1. req.op = "merge" => Goal(worker'[w]) = "mergeItems"
    BY <1>1, Spelled DEF Script, Goal
  <2>2. ~Looping(w)'
    BY <1>1, <2>1 DEF Looping
  <2> QED BY <2>2 DEF HalfMerged, Emptied
<1> QED BY <1>3, <1>4, <1>5, <1>6, <1>7 DEF Learnt

\* What the handlers have learnt is kept by every step.
LEMMA PromiseInvStep ==
    ASSUME Serial, MaxLag = 0, PromiseInv, [Next]_vars
    PROVE  PromiseInv'
<1>1. LineInv' /\ OneCartInv' /\ OneCartInv
  <2>1. LineInv'
    BY LineStep DEF PromiseInv
  <2> QED BY <2>1 DEF PromiseInv, LineInv, WholeInv, SharingInv, DrawnInv, ItemIdsInv
<1>2. ASSUME NEW w \in Workers, Handle(w) \/ Abort(w) PROVE PromiseInv'
  <2>1. Learnt(w)'
    <3>1. Current(w)' /\ OneSock(w)' /\ Found(w)' /\ OneMore(w)'
      BY <1>2, OwnCurrent, OwnSock, OwnFound, OwnMore
    <3>2. AsAsked(w)' /\ HalfMerged(w)' /\ Emptied(w)'
      BY <1>2, OwnAsked, OwnMerge, OwnEmptied
    <3> QED BY <3>1, <3>2 DEF Learnt
  <2>2. ASSUME NEW v \in Workers, v # w PROVE Learnt(v)'
    <3>1. Current(v)' /\ OneSock(v)' /\ Found(v)' /\ OneMore(v)' /\ HalfMerged(v)'
      BY <1>1, <1>2, <2>2, OthersCurrent, OthersSock, OthersFound, OthersMore, OthersMerge
    <3>2. AsAsked(v)' /\ Emptied(v)'
      <4>1. worker'[v] = worker[v] /\ AsAsked(v) /\ Emptied(v)
        BY <1>2, <2>2, Beneath DEF Frame
      <4> QED BY <4>1 DEF AsAsked, Emptied, Looping, Busy
    <3> QED BY <3>1, <3>2 DEF Learnt
  <2> QED BY <1>1, <2>1, <2>2 DEF PromiseInv
<1>3. ASSUME NEW w \in Workers, NEW req \in Requests, Receive(w, req) PROVE PromiseInv'
  <2>1. UNCHANGED <<carts, items, torn>> /\ \A v \in Workers \ {w} : worker'[v] = worker[v]
    BY <1>1, <1>3, ReceiveShape
  <2>2. \A v \in Workers : Learnt(v)'
    BY <1>1, <1>3, <2>1, ReceiveLearnt, LearntStays DEF PromiseInv
  <2> QED BY <1>1, <2>2 DEF PromiseInv
<1>4. CASE UNCHANGED vars \/ Quiesce
  <2>1. UNCHANGED <<carts, items, worker, torn>>
    BY <1>4 DEF Quiesce, vars
  <2>2. \A v \in Workers : Learnt(v)'
    BY <2>1, LearntStays DEF PromiseInv
  <2> QED BY <1>1, <2>2 DEF PromiseInv
<1>5. CASE CatchUp
  BY <1>1, <1>5 DEF CatchUp, OneCartInv
<1> QED BY <1>2, <1>3, <1>4, <1>5 DEF Next

\* Nobody handles a request at first: nothing has been learnt.
LEMMA PromiseInvInit ==
    ASSUME Init
    PROVE  PromiseInv
<1>1. \A w \in Workers : ~Busy(w)
  BY DEF Init, Busy, Free
<1>2. \A w \in Workers : Learnt(w)
  BY <1>1 DEF Learnt, Current, OneSock, Found, OneMore, AsAsked, HalfMerged, Emptied, At, Adding,
     Counting, Looping
<1> QED BY <1>2, LineInit DEF PromiseInv

-----------------------------------------------------------------------------
(* What a client can see *)

LineOf(id, docs) == [itemId |-> ItemDoc(id, docs).itemId, qty |-> ItemDoc(id, docs).qty]

\* The first n lines of a cart with these references.
LinesOf(refs, n, docs) == [k \in 1..n |-> LineOf(refs[k], docs)]

\* The last n lines of c's cart have been merged into it so far.
Pending(c, n) ==
    \/ n = 0 /\ \A w \in Workers : ~(Looping(w) /\ worker[w].req.cust = c)
    \/ \E w \in Workers : \E e \in carts :
           /\ Looping(w) /\ worker[w].req.cust = c /\ Moved(w, e)
           /\ n = Len(e.refs) - Len(worker[w].hand)

\* What the collections and the threads say of the contents of the carts.
SeenFacts ==
    PromiseInv => \A c \in Customers :
        /\ c \in torn => Contents[c] = None
        /\ c \notin torn =>
             /\ \E n : Pending(c, n)
             /\ (\A d \in carts : d.cust # c) => Contents[c] = <<>>
             /\ \A d \in carts : \A n : d.cust = c /\ Pending(c, n) =>
                    /\ n \in 0..Len(d.refs)
                    /\ Contents[c] = LinesOf(d.refs, Len(d.refs) - n, items)

\* A line is the item document its reference names.
LEMMA LineIs ==
    ASSUME NEW docs, \A i, j \in docs : i.id = j.id => i = j, NEW i \in docs
    PROVE  LineOf(i.id, docs) = [itemId |-> i.itemId, qty |-> i.qty]
<1>1. i.id \in Ids(docs)
  BY DEF Ids
<1>2. ItemDoc(i.id, docs) = i
  BY <1>1, DocOfId
<1> QED BY <1>2 DEF LineOf

\* The only cart of a customer is the one that is shown.
LEMMA StoredAre ==
    ASSUME OneCartInv, NEW d \in carts
    PROVE  StoredLines(d.cust) = LinesOf(d.refs, Len(d.refs), items)
<1>1. CartsOf(d.cust, carts) = {d}
  BY DEF CartsOf, OneCartInv, OneEach
<1>2. (CHOOSE e \in CartsOf(d.cust, carts) : TRUE) = d
  BY <1>1
<1>3. StoredLines(d.cust) = [k \in 1..Len(d.refs) |->
          [itemId |-> ItemDoc(d.refs[k], items).itemId, qty |-> ItemDoc(d.refs[k], items).qty]]
  BY <1>1, <1>2 DEF StoredLines
<1> QED BY <1>3 DEF LinesOf, LineOf

\* A merge that has read the session's cart is one that loops.
LEMMA MergingLoops ==
    ASSUME TypeInv, NEW w \in Workers, NEW c
    PROVE  Merging(w, c) <=> Looping(w) /\ worker[w].req.cust = c
<1> DEFINE st == worker[w]
<1>1. SUFFICES ASSUME Busy(w), st.req.op = "merge"
               PROVE  "mergeItems" \in Range(st.todo) <=> Goal(st) = "mergeItems"
  BY DEF Merging, Looping
<1>2. st.todo \in Seq(StepNames) /\ st.todo # <<>> /\ st.req \in Requests
  BY <1>1 DEF TypeInv, StateOK, WorkerState, Busy
<1>3. Range(st.todo) = {st.todo[k] : k \in 1..Len(st.todo)} /\ Len(st.todo) \in 1..Len(st.todo)
  BY <1>2 DEF Range
<1>4. PICK s \in Scripts(st.req.op) : Follows(st, s)
  BY <1>1 DEF TypeInv, StateOK, Busy
<1>5. s \in AllScripts /\ s \in Seq(StepNames)
  BY <1>2, <1>4, RequestOps, ScriptsAll, ScriptType
<1>6. PICK t : t = Remaining(st.todo)
  OBVIOUS
<1>7. t # <<>> /\ IsRest(t, s)
  BY <1>4, <1>6 DEF Follows
<1>8. t \in Seq(StepNames) /\ t[Len(t)] = Goal(st)
      /\ \A j \in 1..Len(st.todo) : st.todo[j] = "mergeItems" =>
             \E k \in 1..Len(t) : t[k] = "mergeItems"
  <2>1. CASE Head(st.todo) = "create"
    <3>1. t = Tail(st.todo)
      BY <1>6, <2>1 DEF Remaining
    <3>2. t \in Seq(StepNames) /\ Len(t) = Len(st.todo) - 1
          /\ \A k \in 1..Len(t) : t[k] = st.todo[k + 1]
      BY <1>2, <3>1
    <3>3. t[Len(t)] = Goal(st)
      BY <1>2, <1>7, <3>2 DEF Goal
    <3>4. ASSUME NEW j \in 1..Len(st.todo), st.todo[j] = "mergeItems"
          PROVE  j - 1 \in 1..Len(t) /\ t[j - 1] = "mergeItems"
      <4>1. j # 1
        BY <1>2, <2>1, <3>4
      <4>2. j - 1 \in 1..Len(t) /\ (j - 1) + 1 = j
        BY <1>2, <3>2, <4>1
      <4> QED BY <3>2, <3>4, <4>2
    <3> QED BY <3>2, <3>3, <3>4
  <2>2. CASE Head(st.todo) # "create"
    BY <1>2, <1>6, <2>2 DEF Remaining, Goal
  <2> QED BY <2>1, <2>2
<1>9. ASSUME NEW k \in 1..Len(t), t[k] = "mergeItems" PROVE k = Len(t)
  <2>1. Len(s) - Len(t) + k \in 1..Len(s) /\ s[Len(s) - Len(t) + k] = "mergeItems"
    BY <1>5, <1>7, <1>8, <1>9 DEF IsRest
  <2>2. Len(s) - Len(t) + k = 2 /\ Len(s) = 2
    BY <1>5, <2>1, Where
  <2> QED BY <1>8, <2>2
<1> QED BY <1>3, <1>8, <1>9 DEF Goal

\* How many lines a merge in progress has added so far.
LEMMA PendingIs ==
    ASSUME PromiseInv, NEW c, NEW n, Pending(c, n)
    PROVE  MergedSoFar(c) = n
<1>1. OneCartInv /\ TypeInv
  BY DEF PromiseInv, LineInv, WholeInv, SharingInv, DrawnInv, ItemIdsInv, OneCartInv
<1>2. \A w \in Workers : Merging(w, c) <=> Looping(w) /\ worker[w].req.cust = c
  BY <1>1, MergingLoops
<1>3. CASE n = 0 /\ \A w \in Workers : ~(Looping(w) /\ worker[w].req.cust = c)
  BY <1>2, <1>3 DEF MergedSoFar
<1>4. CASE \E w \in Workers : \E e \in carts :
               /\ Looping(w) /\ worker[w].req.cust = c /\ Moved(w, e)
               /\ n = Len(e.refs) - Len(worker[w].hand)
  <2>1. PICK w \in Workers, e \in carts :
               /\ Looping(w) /\ worker[w].req.cust = c /\ Moved(w, e)
               /\ n = Len(e.refs) - Len(worker[w].hand)
    BY <1>4
  <2>2. \A v \in Workers : Merging(v, c) => v = w
    <3>1. \A v \in Workers : Merging(v, c) => Busy(v) /\ c \in Named(worker[v].req)
      BY <1>1, <1>2, NamedCustomers DEF Looping
    <3> QED BY <1>1, <1>2, <2>1, <3>1 DEF OneCartInv, Separate
  <2>3. (CHOOSE v \in Workers : Merging(v, c)) = w
    BY <1>2, <2>1, <2>2
  <2>4. MergedSoFar(c) = Len(StoredLines(worker[w].req.other)) - Len(worker[w].hand)
    BY <1>2, <2>1, <2>3 DEF MergedSoFar
  <2>5. Len(StoredLines(worker[w].req.other)) = Len(e.refs)
    <3>1. StoredLines(worker[w].req.other) = LinesOf(e.refs, Len(e.refs), items)
      BY <1>1, <2>1, StoredAre DEF Moved
    <3>2. Len(e.refs) \in Nat
      BY <1>1, KnownType
    <3> QED BY <3>1, <3>2 DEF LinesOf
  <2> QED BY <2>1, <2>4, <2>5
<1> QED BY <1>3, <1>4 DEF Pending

\* The contents of a cart are its lines, less those a merge has added so far.
LEMMA SeenOne ==
    ASSUME PromiseInv, NEW c \in Customers
    PROVE  /\ c \in torn => Contents[c] = None
           /\ c \notin torn =>
                /\ \E n : Pending(c, n)
                /\ (\A d \in carts : d.cust # c) => Contents[c] = <<>>
                /\ \A d \in carts : \A n : d.cust = c /\ Pending(c, n) =>
                       /\ n \in 0..Len(d.refs)
                       /\ Contents[c] = LinesOf(d.refs, Len(d.refs) - n, items)
<1>2. OneCartInv /\ TypeInv
  BY DEF PromiseInv, LineInv, WholeInv, SharingInv, DrawnInv, ItemIdsInv, OneCartInv
<1>3. Contents[c] = IF c \in torn THEN None
                    ELSE SubSeq(StoredLines(c), 1, Len(StoredLines(c)) - MergedSoFar(c))
  BY DEF Contents
<1>4. SUFFICES ASSUME c \notin torn
               PROVE  /\ \E n : Pending(c, n)
                      /\ (\A d \in carts : d.cust # c) => Contents[c] = <<>>
                      /\ \A d \in carts : \A n : d.cust = c /\ Pending(c, n) =>
                             /\ n \in 0..Len(d.refs)
                             /\ Contents[c] = LinesOf(d.refs, Len(d.refs) - n, items)
  BY <1>3
<1>5. \A w \in Workers : Looping(w) /\ worker[w].req.cust = c => \E e \in carts : Moved(w, e)
  BY <1>4 DEF PromiseInv, Learnt, HalfMerged
<1>6. \E n : Pending(c, n)
  BY <1>5 DEF Pending
<1>7. ASSUME NEW n, Pending(c, n)
      PROVE  n \in Nat /\ (n > 0 => \E d \in carts : d.cust = c /\ n <= Len(d.refs))
  <2>1. CASE n = 0
    BY <2>1
  <2>2. CASE n # 0
    <3>1. PICK w \in Workers, e \in carts :
               /\ Looping(w) /\ worker[w].req.cust = c /\ Moved(w, e)
               /\ n = Len(e.refs) - Len(worker[w].hand)
      BY <1>7, <2>2 DEF Pending
    <3>2. Len(e.refs) \in Nat /\ Len(worker[w].hand) \in Nat
      BY <1>2, KnownType
    <3>3. /\ Len(worker[w].hand) <= Len(e.refs)
          /\ n > 0 => \E d \in carts : d.cust = worker[w].req.cust /\ n <= Len(d.refs)
      BY <3>1 DEF Moved
    <3>4. PICK l, h : l = Len(e.refs) /\ h = Len(worker[w].hand)
      OBVIOUS
    <3>5. l \in Nat /\ h \in Nat /\ h <= l /\ n = l - h
      BY <3>1, <3>2, <3>3, <3>4
    <3>6. n \in Nat
      BY <3>5
    <3> QED BY <3>1, <3>3, <3>6
  <2> QED BY <2>1, <2>2
<1>8. ASSUME \A d \in carts : d.cust # c PROVE Contents[c] = <<>>
  <2>1. PICK n : Pending(c, n)
    BY <1>6
  <2>2. n = 0
    BY <1>7, <1>8, <2>1
  <2>3. StoredLines(c) = <<>>
    BY <1>8 DEF StoredLines, CartsOf
  <2>4. MergedSoFar(c) = 0
    BY <2>1, <2>2, PendingIs
  <2> QED BY <1>3, <1>4, <2>3, <2>4
<1>9. ASSUME NEW d \in carts, NEW n, d.cust = c, Pending(c, n)
      PROVE  /\ n \in 0..Len(d.refs)
             /\ Contents[c] = LinesOf(d.refs, Len(d.refs) - n, items)
  <2>1. Len(d.refs) \in Nat
    BY <1>2, KnownType
  <2>2. n \in 0..Len(d.refs)
    BY <1>2, <1>7, <1>9, <2>1 DEF OneCartInv, OneEach
  <2>3. PICK lines : lines = LinesOf(d.refs, Len(d.refs), items)
    OBVIOUS
  <2>4. StoredLines(c) = lines /\ Len(lines) = Len(d.refs)
    BY <1>2, <1>9, <2>1, <2>3, StoredAre DEF LinesOf
  <2>5. MergedSoFar(c) = n
    BY <1>9, PendingIs
  <2>6. PICK m : m = Len(d.refs) - n
    OBVIOUS
  <2>7. m \in 0..Len(d.refs)
    BY <2>1, <2>2, <2>6
  <2>8. Contents[c] = SubSeq(lines, 1, m)
    BY <1>3, <1>4, <2>4, <2>5, <2>6
  <2>9. SubSeq(lines, 1, m) = [k \in 1..m |-> lines[k]]
    BY <2>1, <2>3, <2>4, <2>7 DEF LinesOf
  <2>10. \A k \in 1..m : lines[k] = LineOf(d.refs[k], items)
    BY <2>1, <2>3, <2>7 DEF LinesOf
  <2>11. [k \in 1..m |-> lines[k]] = LinesOf(d.refs, m, items)
    BY <2>10 DEF LinesOf
  <2> QED BY <2>2, <2>6, <2>8, <2>9, <2>11
<1> QED BY <1>6, <1>8, <1>9

\* So it is in the next state.
LEMMA SeenNext == SeenFacts'
<1>1. SeenFacts
  BY SeenOne DEF SeenFacts
<1> QED BY <1>1, PTL

-----------------------------------------------------------------------------
(* A step leaves the carts of other customers as they are seen *)

\* The layers below hold in the next state as well.
LEMMA Above ==
    ASSUME PromiseInv'
    PROVE  ItemIdsInv' /\ OneCartInv' /\ TypeInv' /\ WholeInv'
  BY DEF PromiseInv, LineInv, WholeInv, SharingInv, DrawnInv, ItemIdsInv, OneCartInv

\* Nothing is pending for a customer of w that w does not merge into, ...
LEMMA IdleNow ==
    ASSUME MaxLag = 0, PromiseInv, NEW w \in Workers, Busy(w), NEW c \in Named(worker[w].req),
           ~(Looping(w) /\ worker[w].req.cust = c)
    PROVE  \A n : Pending(c, n) => n = 0
<1>1. OneCartInv /\ TypeInv
  BY Beneath
<1>2. ASSUME NEW v \in Workers, Looping(v), worker[v].req.cust = c PROVE FALSE
  <2>1. v # w /\ Busy(v) /\ c \in Named(worker[v].req)
    BY <1>1, <1>2, NamedCustomers DEF Looping
  <2> QED BY <1>1, <2>1 DEF OneCartInv, Separate
<1> QED BY <1>2 DEF Pending

\* ... nor in the next state.
LEMMA IdleNext ==
    ASSUME MaxLag = 0, PromiseInv, NEW w \in Workers, Handle(w) \/ Abort(w),
           NEW c \in Named(worker[w].req), ~(Looping(w)' /\ worker'[w].req.cust = c)
    PROVE  Pending(c, 0)'
<1>1. OneCartInv /\ TypeInv /\ Frame(w) /\ Busy(w)
  BY Beneath DEF Frame
<1>2. ASSUME NEW v \in Workers, Looping(v)', worker'[v].req.cust = c PROVE FALSE
  <2>1. v # w
    BY <1>2
  <2>2. worker'[v] = worker[v]
    BY <1>1, <2>1 DEF Frame
  <2>3. Busy(v) /\ c \in Named(worker[v].req)
    BY <1>1, <1>2, <2>2, NamedCustomers DEF Looping, Busy
  <2> QED BY <1>1, <2>1, <2>3 DEF OneCartInv, Separate
<1> QED BY <1>2 DEF Pending

\* The merges of other customers get no further.
LEMMA PendingStays ==
    ASSUME MaxLag = 0, PromiseInv, NEW w \in Workers, Handle(w) \/ Abort(w),
           NEW c, c \notin Named(worker[w].req), NEW n, Pending(c, n)
    PROVE  Pending(c, n)'
<1>1. OneCartInv /\ TypeInv /\ Frame(w) /\ OwnStep(w) /\ Busy(w)
  BY Beneath DEF Frame
<1>2. ~(Looping(w) /\ worker[w].req.cust = c) /\ ~(Looping(w)' /\ worker'[w].req.cust = c)
  BY <1>1, NamedCustomers DEF Looping, OwnStep
<1>3. CASE n = 0 /\ \A v \in Workers : ~(Looping(v) /\ worker[v].req.cust = c)
  <2>1. ASSUME NEW v \in Workers, v # w PROVE ~(Looping(v)' /\ worker'[v].req.cust = c)
    BY <1>1, <1>3, <2>1 DEF Frame, Looping, Busy
  <2> QED BY <1>2, <1>3, <2>1 DEF Pending
<1>4. CASE \E v \in Workers : \E e \in carts :
               /\ Looping(v) /\ worker[v].req.cust = c /\ Moved(v, e)
               /\ n = Len(e.refs) - Len(worker[v].hand)
  <2>1. PICK v \in Workers, e \in carts :
               /\ Looping(v) /\ worker[v].req.cust = c /\ Moved(v, e)
               /\ n = Len(e.refs) - Len(worker[v].hand)
    BY <1>4
  <2>2. v # w
    BY <1>2, <2>1
  <2>3. e \in carts' /\ Moved(v, e)' /\ worker'[v] = worker[v]
    BY <2>1, <2>2, OthersMoved
  <2>4. Looping(v)'
    BY <2>1, <2>3 DEF Looping, Busy
  <2> QED BY <2>1, <2>3, <2>4 DEF Pending
<1> QED BY <1>3, <1>4 DEF Pending

\* The lines of a cart stay as they are, but for the update of its customer.
LEMMA LinesStay ==
    ASSUME MaxLag = 0, PromiseInv, PromiseInv', NEW w \in Workers, Handle(w) \/ Abort(w),
           NEW d \in carts, d.cust \notin torn,
           ~SaveQuantity(w) \/ d.cust # worker[w].req.cust,
           NEW m \in 0..Len(d.refs)
    PROVE  LinesOf(d.refs, m, items') = LinesOf(d.refs, m, items)
<1>1. /\ \A i, j \in items : i.id = j.id => i = j
      /\ \A i, j \in items' : i.id = j.id => i = j
      /\ WholeInv /\ TypeInv
  BY Beneath, Above DEF ItemIdsInv
<1>2. ASSUME NEW k \in 1..m PROVE LineOf(d.refs[k], items') = LineOf(d.refs[k], items)
  <2>1. k \in 1..Len(d.refs)
    BY <1>1, KnownType
  <2>2. PICK i \in items : i.id = d.refs[k]
    BY <1>1, <2>1 DEF WholeInv, Ids
  <2>3. InCart(d, i.id)
    BY <2>1, <2>2 DEF InCart
  <2>4. i \in items'
    BY <2>3, ItemsStay
  <2>5. LineOf(i.id, items) = [itemId |-> i.itemId, qty |-> i.qty]
    BY <1>1, LineIs
  <2>6. LineOf(i.id, items') = [itemId |-> i.itemId, qty |-> i.qty]
    BY <1>1, <2>4, LineIs
  <2> QED BY <2>2, <2>5, <2>6
<1> QED BY <1>2 DEF LinesOf

\* A cart is seen as before when neither it nor what is pending has changed.
LEMMA SeenSame ==
    ASSUME MaxLag = 0, PromiseInv, PromiseInv', NEW w \in Workers, Handle(w) \/ Abort(w),
           NEW c \in Customers, c \notin torn, c \notin torn',
           \A d : d.cust = c => (d \in carts' <=> d \in carts),
           ~SaveQuantity(w) \/ c # worker[w].req.cust,
           NEW n, Pending(c, n), Pending(c, n)'
    PROVE  Contents'[c] = Contents[c]
<1>1. CASE \A d \in carts : d.cust # c
  <2>1. \A d \in carts' : d.cust # c
    BY <1>1
  <2> QED BY <1>1, <2>1, SeenOne, SeenNext DEF SeenFacts
<1>2. CASE \E d \in carts : d.cust = c
  <2>1. PICK d \in carts : d.cust = c
    BY <1>2
  <2>2. n \in 0..Len(d.refs) /\ Contents[c] = LinesOf(d.refs, Len(d.refs) - n, items)
    BY <2>1, SeenOne
  <2>3. Contents'[c] = LinesOf(d.refs, Len(d.refs) - n, items')
    BY <2>1, SeenNext DEF SeenFacts
  <2>4. Len(d.refs) - n \in 0..Len(d.refs)
    <3>1. Len(d.refs) \in Nat
      BY Beneath, KnownType
    <3> QED BY <2>2, <3>1
  <2> QED BY <2>1, <2>2, <2>3, <2>4, LinesStay
<1> QED BY <1>1, <1>2

\* A customer no request of w names sees no change.
LEMMA OthersSeen ==
    ASSUME MaxLag = 0, PromiseInv, PromiseInv', NEW w \in Workers, Handle(w) \/ Abort(w),
           NEW c \in Customers, c \notin Named(worker[w].req)
    PROVE  Contents'[c] = Contents[c]
<1>1. Frame(w) /\ TypeInv /\ Busy(w)
  BY Beneath DEF Frame
<1>2. c \in torn' <=> c \in torn
  BY <1>1 DEF Frame
<1>3. CASE c \in torn
  BY <1>2, <1>3, SeenOne, SeenNext DEF SeenFacts
<1>4. CASE c \notin torn
  <2>1. PICK n : Pending(c, n)
    BY <1>4, SeenOne
  <2>2. Pending(c, n)'
    BY <2>1, PendingStays
  <2>3. c # worker[w].req.cust
    BY <1>1, NamedCustomers
  <2> QED BY <1>1, <1>2, <1>4, <2>1, <2>2, <2>3, SeenSame DEF Frame
<1> QED BY <1>3, <1>4

-----------------------------------------------------------------------------
(* Steps of a handler that change nothing a client can see *)

\* A merge goes on after a look-up and after each item.
LEMMA LoopsOn ==
    ASSUME MaxLag = 0, PromiseInv, NEW w \in Workers, Looping(w),
           Find(w) \/ Create(w) \/ MergeItem(w)
    PROVE  Looping(w)'
<1>1. GoesOn(w) /\ TypeInv
  BY Beneath DEF Handle
<1>2. ~DeleteCart(w)
  BY DEF Find, Create, MergeItem, DeleteCart, Does
<1>3. ~Abort(w)
  BY <1>1 DEF Find, Create, MergeItem, Abort, TypeInv
<1> QED BY <1>1, <1>2, <1>3 DEF GoesOn

\* No other handler starts to loop or stops it.
LEMMA LoopsNot ==
    ASSUME MaxLag = 0, PromiseInv, NEW w \in Workers, Handle(w) \/ Abort(w), ~MergeItems(w),
           NEW c, ~(Looping(w) /\ worker[w].req.cust = c)
    PROVE  ~(Looping(w)' /\ worker'[w].req.cust = c)
<1>1. GoesOn(w) /\ OwnStep(w)
  BY Beneath
<1> QED BY <1>1 DEF GoesOn, OwnStep, Looping

\* A torn cart is not seen.
LEMMA TornSeen ==
    ASSUME PromiseInv, PromiseInv', NEW c \in Customers, c \in torn, c \in torn'
    PROVE  Contents'[c] = Contents[c]
  BY SeenOne, SeenNext DEF SeenFacts

\* A customer w does not merge into sees no change while the customer's cart
\* stays.
LEMMA IdleSeen ==
    ASSUME MaxLag = 0, PromiseInv, PromiseInv', NEW w \in Workers, Handle(w) \/ Abort(w),
           NEW c \in Named(worker[w].req), c \notin torn, c \notin torn',
           \A d : d.cust = c => (d \in carts' <=> d \in carts), ~SaveQuantity(w),
           ~(Looping(w) /\ worker[w].req.cust = c), ~(Looping(w)' /\ worker'[w].req.cust = c)
    PROVE  Contents'[c] = Contents[c]
<1>1. TypeInv /\ Busy(w) /\ Frame(w) /\ c \in Customers
  BY Beneath, NamedCustomers DEF Frame
<1>2. PICK n : Pending(c, n)
  BY <1>1, SeenOne
<1>3. n = 0 /\ Pending(c, 0)'
  BY <1>1, <1>2, IdleNow, IdleNext
<1> QED BY <1>1, <1>2, <1>3, SeenSame

\* Looking for an item, counting, and writing items no cart that is whole refers
\* to.
LEMMA ItemSeen ==
    ASSUME MaxLag = 0, PromiseInv, PromiseInv', NEW w \in Workers,
           HasItem(w) \/ FindItem(w) \/ Increment(w) \/ SaveItem(w) \/ DestroyItem(w),
           NEW c \in Named(worker[w].req)
    PROVE  Contents'[c] = Contents[c]
<1>1. /\ OneCartInv /\ TypeInv /\ Busy(w) /\ c \in Customers
      /\ Handle(w) \/ Abort(w)
  BY Beneath, NamedCustomers DEF Handle, Frame
<1>2. UNCHANGED <<carts, torn>>
  BY <1>1, HasItemShape, FindItemShape, IncrementShape, SaveItemShape, DestroyItemShape
<1>3. worker[w].req.op # "merge"
  <2>1. PICK step \in {"hasItem", "foundItem", "increment", "saveItem", "destroyItem"} :
            Does(w, step)
    BY DEF HasItem, FindItem, Increment, SaveItem, DestroyItem
  <2> QED BY <1>1, <2>1, Working DEF PhaseOK
<1>4. ~Looping(w) /\ ~MergeItems(w) /\ ~SaveQuantity(w)
  <2>1. ~MergeItems(w) /\ ~SaveQuantity(w)
    BY DEF HasItem, FindItem, Increment, SaveItem, DestroyItem, MergeItems, SaveQuantity, Does
  <2> QED BY <1>3, <2>1 DEF Looping
<1>5. ~(Looping(w)' /\ worker'[w].req.cust = c)
  BY <1>1, <1>4, LoopsNot
<1>6. CASE c \in torn
  BY <1>1, <1>2, <1>6, TornSeen
<1>7. CASE c \notin torn
  BY <1>1, <1>2, <1>4, <1>5, <1>7, IdleSeen
<1> QED BY <1>6, <1>7

\* A cart that does not exist and an empty one are seen alike.
LEMMA LookSeen ==
    ASSUME MaxLag = 0, PromiseInv, PromiseInv', NEW w \in Workers, Find(w) \/ Create(w),
           NEW c \in Named(worker[w].req)
    PROVE  Contents'[c] = Contents[c]
<1>1. /\ OneCartInv /\ TypeInv /\ Busy(w) /\ c \in Customers /\ HalfMerged(w)
      /\ Handle(w) \/ Abort(w)
  BY Beneath, NamedCustomers DEF Handle, Frame
<1>2. torn' = torn
  BY <1>1, FindShape, CreateShape
<1>3. ~MergeItems(w) /\ ~SaveQuantity(w)
  BY DEF Find, Create, MergeItems, SaveQuantity, Does
<1>4. CASE c \in torn
  BY <1>1, <1>2, <1>4, TornSeen
<1>5. CASE c \notin torn /\ \A d : d.cust = c => (d \in carts' <=> d \in carts)
  <2>1. CASE Looping(w) /\ worker[w].req.cust = c
    <3>1. PICK e \in carts : Moved(w, e)
      BY <1>1, <1>5, <2>1 DEF HalfMerged
    <3>2. PICK n : n = Len(e.refs) - Len(worker[w].hand)
      OBVIOUS
    <3>3. Looping(w)'
      BY <2>1, LoopsOn
    <3>4. Pending(c, n)
      BY <2>1, <3>1, <3>2 DEF Pending
    <3>5. Pending(c, n)'
      BY <2>1, <3>1, <3>2, <3>3, LookedOn DEF Pending
    <3> QED BY <1>1, <1>2, <1>3, <1>5, <3>4, <3>5, SeenSame
  <2>2. CASE ~(Looping(w) /\ worker[w].req.cust = c)
    <3>1. ~(Looping(w)' /\ worker'[w].req.cust = c)
      BY <1>1, <1>3, <2>2, LoopsNot
    <3> QED BY <1>1, <1>2, <1>3, <1>5, <2>2, <3>1, IdleSeen
  <2> QED BY <2>1, <2>2
<1>6. CASE c \notin torn /\ ~(\A d : d.cust = c => (d \in carts' <=> d \in carts))
  <2>1. Create(w)
    BY <1>1, <1>6, FindShape
  <2>2. PICK doc : doc = [id |-> nextId, cust |-> worker[w].cart.cust, refs |-> <<>>]
    OBVIOUS
  <2>3. carts' = carts \cup {doc} /\ \A d \in carts : d.cust # doc.cust
    BY <1>1, <2>1, <2>2, CreateShape
  <2>4. doc.cust = c /\ doc.refs = <<>>
    BY <1>6, <2>2, <2>3
  <2>5. Contents[c] = <<>>
    BY <1>1, <1>6, <2>3, <2>4, SeenOne
  <2>6. PICK n : /\ n \in 0..Len(doc.refs)
                 /\ Contents'[c] = LinesOf(doc.refs, Len(doc.refs) - n, items')
    BY <1>1, <1>2, <1>6, <2>3, <2>4, SeenNext DEF SeenFacts
  <2>7. Len(doc.refs) - n = 0
    BY <2>4, <2>6
  <2>8. Contents'[c] = <<>>
    BY <2>6, <2>7 DEF LinesOf
  <2> QED BY <2>5, <2>8
<1> QED BY <1>4, <1>5, <1>6

\* An item that is merged is not seen before all are.
LEMMA MergeSeen ==
    ASSUME MaxLag = 0, PromiseInv, PromiseInv', NEW w \in Workers, MergeItem(w),
           NEW c \in Named(worker[w].req)
    PROVE  Contents'[c] = Contents[c]
<1> DEFINE st == worker[w]
<1>1. /\ OneCartInv /\ TypeInv /\ Busy(w) /\ c \in Customers
      /\ Handle(w) \/ Abort(w)
  BY Beneath, NamedCustomers DEF Handle, Frame
<1>2. ~MergeItems(w) /\ ~SaveQuantity(w)
  BY DEF MergeItem, MergeItems, SaveQuantity, Does
<1>3. Looping(w) /\ st.req \in Requests /\ st.req.op = "merge"
  BY <1>1, MergeItemShape, NamedCustomers DEF Looping
<1>4. Looping(w)'
  BY <1>3, LoopsOn
<1>5. torn' = torn /\ items' = items
  BY <1>3, <1>4, MergedOn
<1>6. CASE c \in torn
  BY <1>1, <1>5, <1>6, TornSeen
<1>7. CASE c \notin torn /\ c # st.req.cust
  <2>1. \A d : d.cust = c => (d \in carts' <=> d \in carts)
    <3>1. PICK old \in carts : \E doc : /\ doc.cust = old.cust /\ old.cust = st.req.cust
                                        /\ carts' = (carts \ {old}) \cup {doc}
      <4>1. Drawn(w)
        BY Beneath
      <4> QED BY <1>1, <4>1, SavedRefs
    <3> QED BY <1>7, <3>1
  <2>2. ~(Looping(w)' /\ worker'[w].req.cust = c)
    BY <1>1, <1>2, <1>7, LoopsNot
  <2> QED BY <1>1, <1>2, <1>5, <1>7, <2>1, <2>2, IdleSeen
<1>8. CASE c \notin torn /\ c = st.req.cust
  <2>1. PICK old \in carts, e \in carts : \E new :
                    /\ new.cust = old.cust /\ old.cust = st.req.cust
                    /\ carts' = (carts \ {old}) \cup {new} /\ Added(w, old, new)
                    /\ Moved(w, e) /\ e \in carts' /\ Moved(w, e)'
                    /\ Len(st.hand) = Len(worker'[w].hand) + 1
                    /\ Len(worker'[w].hand) \in Nat
    BY <1>3, <1>4, <1>8, MergedOn
  <2>2. PICK doc :  /\ doc.cust = old.cust /\ old.cust = st.req.cust
                    /\ carts' = (carts \ {old}) \cup {doc} /\ Added(w, old, doc)
    BY <2>1
  <2>3. PICK n, m : n = Len(e.refs) - Len(st.hand) /\ m = Len(e.refs) - Len(worker'[w].hand)
    OBVIOUS
  <2>4. worker'[w].req = st.req
    BY <1>3, <1>4, MergedOn
  <2>5. Pending(c, n) /\ Pending(c, m)'
    BY <1>3, <1>4, <1>8, <2>1, <2>3, <2>4 DEF Pending
  <2>6. /\ n \in 0..Len(old.refs)
        /\ Contents[c] = LinesOf(old.refs, Len(old.refs) - n, items)
    BY <1>1, <1>8, <2>2, <2>5, SeenOne
  <2>7. Contents'[c] = LinesOf(doc.refs, Len(doc.refs) - m, items)
    BY <1>1, <1>5, <1>8, <2>2, <2>5, SeenNext DEF SeenFacts
  <2>8. PICK l : l = Len(old.refs) - n
    OBVIOUS
  <2>9. Len(old.refs) \in Nat /\ Len(e.refs) \in Nat
    BY <1>1, KnownType
  <2>10. l \in 0..Len(old.refs) /\ Len(doc.refs) - m = l
    <3>1. PICK h, r, o : h = Len(worker'[w].hand) /\ r = Len(e.refs) /\ o = Len(old.refs)
      OBVIOUS
    <3>2. h \in Nat /\ r \in Nat /\ o \in Nat /\ n = r - (h + 1) /\ m = r - h
          /\ Len(doc.refs) = o + 1 /\ n \in 0..o /\ l = o - n
      BY <2>1, <2>2, <2>3, <2>6, <2>8, <2>9, <3>1 DEF Added
    <3>3. l \in 0..o /\ (o + 1) - m = l
      BY <3>2
    <3> QED BY <3>1, <3>2, <3>3
  <2>11. \A k \in 1..l : doc.refs[k] = old.refs[k]
    BY <2>2, <2>9, <2>10 DEF Added
  <2> QED BY <2>6, <2>7, <2>8, <2>10, <2>11 DEF LinesOf
<1> QED BY <1>6, <1>7, <1>8

-----------------------------------------------------------------------------
(* Steps of a handler that a client sees *)

\* Contents is a function on the customers, ...
ContentsAre == Contents = [c \in Customers |-> Contents[c]]

\* ... in the next state too.
LEMMA ContentsNext == ContentsAre /\ ContentsAre'
<1>1. ContentsAre
  BY DEF ContentsAre, Contents
<1> QED BY <1>1, PTL

\* What changes is the carts that are seen to change.
LEMMA Changes ==
    ASSUME NEW c \in Customers, NEW s \in Customers, NEW a, NEW b,
           Contents'[c] = a, Contents'[s] = b, c = s => a = b,
           \A o \in Customers \ {c, s} : Contents'[o] = Contents[o]
    PROVE  Contents' = [Contents EXCEPT ![c] = a, ![s] = b]
<1>1. PICK f, g : f = Contents /\ g = Contents'
  OBVIOUS
<1>2. f = [o \in Customers |-> f[o]] /\ g = [o \in Customers |-> g[o]]
  BY <1>1, ContentsNext DEF ContentsAre
<1>3. PICK h : h = [f EXCEPT ![c] = a, ![s] = b]
  OBVIOUS
<1>4. h = [o \in Customers |-> h[o]]
  BY <1>2, <1>3
<1>5. \A o \in Customers : h[o] = g[o]
  BY <1>1, <1>2, <1>3
<1>6. h = g
  BY <1>2, <1>4, <1>5
<1> QED BY <1>1, <1>3, <1>6

\* Contents that differ for one customer only are an EXCEPT of the contents before.
LEMMA OneChange ==
    ASSUME NEW c \in Customers, NEW a, Contents'[c] = a,
           \A o \in Customers \ {c} : Contents'[o] = Contents[o]
    PROVE  Contents' = [Contents EXCEPT ![c] = a]
<1>1. Contents' = [Contents EXCEPT ![c] = a, ![c] = a]
  BY Changes
<1>2. PICK f : f = Contents
  OBVIOUS
<1>3. [f EXCEPT ![c] = a, ![c] = a] = [f EXCEPT ![c] = a]
  BY ContentsNext, <1>2 DEF ContentsAre
<1> QED BY <1>1, <1>2, <1>3

\* Contents that are the same for every customer are the same.
LEMMA NoChange ==
    ASSUME \A c \in Customers : Contents'[c] = Contents[c]
    PROVE  Contents' = Contents
<1>1. PICK f, g : f = Contents /\ g = Contents'
  OBVIOUS
<1>2. f = [o \in Customers |-> f[o]] /\ g = [o \in Customers |-> g[o]]
  BY <1>1, ContentsNext DEF ContentsAre
<1>3. \A o \in Customers : g[o] = f[o]
  BY <1>1
<1>4. f = g
  BY <1>2, <1>3
<1> QED BY <1>1, <1>4

\* The cart of a customer w does not merge into is seen as it is.
LEMMA CartSeen ==
    ASSUME MaxLag = 0, PromiseInv, NEW w \in Workers, Busy(w), NEW c \in Named(worker[w].req),
           ~(Looping(w) /\ worker[w].req.cust = c), NEW d \in carts, d.cust = c, c \notin torn
    PROVE  Contents[c] = LinesOf(d.refs, Len(d.refs), items) /\ Len(d.refs) \in Nat
<1>1. TypeInv /\ c \in Customers
  BY Beneath, NamedCustomers
<1>2. Pending(c, 0)
  <2>1. PICK n : Pending(c, n)
    BY <1>1, SeenOne
  <2>2. n = 0
    BY <2>1, IdleNow
  <2> QED BY <2>1, <2>2
<1>3. Contents[c] = LinesOf(d.refs, Len(d.refs) - 0, items)
  BY <1>1, <1>2, SeenOne
<1>4. Len(d.refs) \in Nat
  BY <1>1, KnownType
<1> QED BY <1>3, <1>4

\* ... and so is the one it has then.
LEMMA CartSeenNext ==
    ASSUME MaxLag = 0, PromiseInv, PromiseInv', NEW w \in Workers, Handle(w) \/ Abort(w),
           NEW c \in Named(worker[w].req), ~(Looping(w)' /\ worker'[w].req.cust = c),
           NEW d \in carts', d.cust = c, c \notin torn', d.refs \in Seq(Nat)
    PROVE  Contents'[c] = LinesOf(d.refs, Len(d.refs), items')
<1>1. c \in Customers
  BY Beneath, NamedCustomers DEF Frame
<1>2. Pending(c, 0)'
  BY IdleNext
<1>3. Contents'[c] = LinesOf(d.refs, Len(d.refs) - 0, items')
  BY <1>1, <1>2, SeenNext DEF SeenFacts
<1> QED BY <1>3

\* What is seen of a cart that is not torn is lines.
LEMMA LinesSeen ==
    ASSUME PromiseInv, NEW c \in Customers, c \notin torn
    PROVE  Contents[c] \in Seq([itemId : Items, qty : Nat]) /\ Contents[c] # None
<1>1. WholeInv /\ TypeInv /\ \A i, j \in items : i.id = j.id => i = j
  BY DEF PromiseInv, LineInv, WholeInv, SharingInv, DrawnInv, ItemIdsInv, OneCartInv
<1>2. ASSUME \A d \in carts : d.cust # c
      PROVE  Contents[c] \in Seq([itemId : Items, qty : Nat])
  <2>1. Contents[c] = <<>>
    BY <1>2, SeenOne
  <2> QED BY <2>1
<1>3. ASSUME NEW d \in carts, d.cust = c
      PROVE  Contents[c] \in Seq([itemId : Items, qty : Nat])
  <2>1. PICK n : n \in 0..Len(d.refs) /\ Contents[c] = LinesOf(d.refs, Len(d.refs) - n, items)
    BY <1>3, SeenOne
  <2>2. PICK m : m = Len(d.refs) - n
    OBVIOUS
  <2>3. m \in 0..Len(d.refs) /\ Len(d.refs) \in Nat
    <3>1. Len(d.refs) \in Nat
      BY <1>1, KnownType
    <3> QED BY <2>1, <2>2, <3>1
  <2>4. ASSUME NEW k \in 1..m PROVE LineOf(d.refs[k], items) \in [itemId : Items, qty : Nat]
    <3>1. k \in 1..Len(d.refs)
      BY <2>3
    <3>2. PICK i \in items : i.id = d.refs[k]
      BY <1>1, <1>3, <3>1 DEF WholeInv, Ids
    <3>3. i.itemId \in Items /\ i.qty \in Nat
      BY <1>1, KnownType DEF StoredItem, Item
    <3>4. LineOf(i.id, items) = [itemId |-> i.itemId, qty |-> i.qty]
      BY <1>1, LineIs
    <3> QED BY <3>2, <3>3, <3>4
  <2>5. PICK f : f = LinesOf(d.refs, m, items)
    OBVIOUS
  <2>6. m \in Nat
    BY <2>3
  <2>7. f \in Seq([itemId : Items, qty : Nat])
    BY <2>4, <2>5, <2>6 DEF LinesOf
  <2> QED BY <2>1, <2>2, <2>5, <2>7
<1>4. Contents[c] \in Seq([itemId : Items, qty : Nat])
  BY <1>2, <1>3
<1> QED BY <1>4, NoneIsNoContents

\* Each line of a whole cart is an item of the collection.
LEMMA EachLine ==
    ASSUME PromiseInv, NEW d \in carts, d.cust \notin torn, NEW k \in 1..Len(d.refs)
    PROVE  \E i \in items : /\ i.id = d.refs[k]
                            /\ LineOf(d.refs[k], items) = [itemId |-> i.itemId, qty |-> i.qty]
<1>1. WholeInv /\ \A i, j \in items : i.id = j.id => i = j
  BY DEF PromiseInv, LineInv, WholeInv, SharingInv, DrawnInv, ItemIdsInv
<1>2. PICK i \in items : i.id = d.refs[k]
  BY <1>1 DEF WholeInv, Ids
<1>3. LineOf(i.id, items) = [itemId |-> i.itemId, qty |-> i.qty]
  BY <1>1, LineIs
<1> QED BY <1>2, <1>3

\* The first line for an item is the one ShoppingCart means.
LEMMA FirstSeen ==
    ASSUME PromiseInv, NEW d \in carts, d.cust \notin torn,
           Contents[d.cust] = LinesOf(d.refs, Len(d.refs), items), Len(d.refs) \in Nat,
           NEW k, NEW i, FirstLine(d, k, i, items)
    PROVE  Promise!Lines(d.cust, i) # {} /\ Promise!First(d.cust, i) = k
<1>1. PICK lines : lines = LinesOf(d.refs, Len(d.refs), items)
  OBVIOUS
<1>2. Len(lines) = Len(d.refs) /\ \A j \in 1..Len(d.refs) : lines[j] = LineOf(d.refs[j], items)
  BY <1>1 DEF LinesOf
<1>3. k \in 1..Len(d.refs) /\ lines[k].itemId = i
  <2>1. k \in 1..Len(d.refs)
    BY DEF FirstLine
  <2>2. PICK it \in items : /\ it.id = d.refs[k]
                            /\ LineOf(d.refs[k], items) = [itemId |-> it.itemId, qty |-> it.qty]
    BY <2>1, EachLine
  <2>3. it.itemId = i
    BY <2>2 DEF FirstLine
  <2> QED BY <1>2, <2>1, <2>2, <2>3
<1>4. ASSUME NEW j \in 1..Len(d.refs), lines[j].itemId = i PROVE k <= j
  <2>1. PICK it \in items : /\ it.id = d.refs[j]
                            /\ LineOf(d.refs[j], items) = [itemId |-> it.itemId, qty |-> it.qty]
    BY EachLine
  <2>2. it.itemId = i
    BY <1>2, <1>4, <2>1
  <2>3. ~(j < k)
    BY <2>1, <2>2 DEF FirstLine
  <2> QED BY <1>3, <2>3
<1>5. PICK S : S = Promise!Lines(d.cust, i)
  OBVIOUS
<1>6. S = {j \in 1..Len(lines) : lines[j].itemId = i}
  BY <1>1, <1>5 DEF Promise!Lines
<1>7. k \in S /\ \A j \in S : k <= j
  BY <1>2, <1>3, <1>4, <1>6
<1>8. \A m \in S : (\A j \in S : m <= j) => m = k
  BY <1>2, <1>6, <1>7
<1>9. (CHOOSE m \in S : \A j \in S : m <= j) = k
  BY <1>7, <1>8
<1> QED BY <1>5, <1>7, <1>9 DEF Promise!First

\* Saving a quantity changes one line.
LEMMA EditedLine ==
    ASSUME NEW refs, NEW n \in Nat, NEW k \in 1..n, NEW q, NEW old, NEW new,
           \A j \in 1..n : j # k => LineOf(refs[j], new) = LineOf(refs[j], old),
           LineOf(refs[k], new) = [itemId |-> LineOf(refs[k], old).itemId, qty |-> q]
    PROVE  LinesOf(refs, n, new) = [LinesOf(refs, n, old) EXCEPT ![k].qty = q]
<1>1. PICK f, g : f = LinesOf(refs, n, old) /\ g = LinesOf(refs, n, new)
  OBVIOUS
<1>2. f = [j \in 1..n |-> LineOf(refs[j], old)] /\ g = [j \in 1..n |-> LineOf(refs[j], new)]
  BY <1>1 DEF LinesOf
<1>3. PICK a, b : LineOf(refs[k], old) = [itemId |-> a, qty |-> b]
  BY DEF LineOf
<1>4. [f[k] EXCEPT !.qty = q] = [itemId |-> a, qty |-> q]
  BY <1>2, <1>3
<1>5. g[k] = [f[k] EXCEPT !.qty = q]
  BY <1>2, <1>3, <1>4
<1>6. g = [f EXCEPT ![k].qty = q]
  BY <1>2, <1>5
<1> QED BY <1>1, <1>6

\* A request that is not a merge names one customer and merges nothing.
LEMMA NamedOnce ==
    ASSUME TypeInv, NEW w \in Workers, Busy(w), worker[w].req.op # "merge"
    PROVE  /\ Named(worker[w].req) = {worker[w].req.cust} /\ worker[w].req.cust \in Customers
           /\ ~Looping(w)
<1>1. worker[w].req \in Requests /\ worker[w].req.cust \in Customers
  BY NamedCustomers
<1>2. worker[w].req.other = None /\ worker[w].req.cust # None
  BY <1>1, RequestOps, CartsAssumption
<1> QED BY <1>1, <1>2 DEF Named, Looping

\* The line a handler saves the quantity of is the first one for its item.
LEMMA QuantitySeen ==
    ASSUME MaxLag = 0, PromiseInv, PromiseInv', NEW w \in Workers, SaveQuantity(w),
           worker[w].req.cust \notin torn
    PROVE  \E d \in carts : \E k \in 1..Len(d.refs) :
               /\ d.cust = worker[w].req.cust /\ FirstLine(d, k, worker[w].req.itemId, items)
               /\ Len(d.refs) \in Nat
               /\ Contents[d.cust] = LinesOf(d.refs, Len(d.refs), items)
               /\ Contents'[d.cust] = [Contents[d.cust] EXCEPT ![k].qty = worker[w].qty]
<1> DEFINE st == worker[w]
<1>1. Does(w, "saveQuantity")
  BY DEF SaveQuantity
<1>2. /\ OneCartInv /\ TypeInv /\ WholeInv /\ Found(w)
      /\ Handle(w) \/ Abort(w)
      /\ \A i, j \in items : i.id = j.id => i = j
      /\ \A i, j \in items' : i.id = j.id => i = j
  BY Beneath, Above DEF Handle, ItemIdsInv
<1>3. Busy(w) /\ At(w, {"saveQuantity"}) /\ st.req.op # "merge"
  BY <1>1, <1>2, Working DEF At, PhaseOK
<1>4. PICK d \in carts : \E k \in 1..Len(d.refs) :
             /\ d.cust = st.req.cust /\ d.refs[k] = st.hand[1].id
             /\ st.hand[1].itemId = st.req.itemId /\ FirstLine(d, k, st.req.itemId, items)
  BY <1>2, <1>3 DEF Found
<1>5. PICK k \in 1..Len(d.refs) :
             /\ d.cust = st.req.cust /\ d.refs[k] = st.hand[1].id
             /\ st.hand[1].itemId = st.req.itemId /\ FirstLine(d, k, st.req.itemId, items)
  BY <1>4
<1>6. PICK item \in StoredItem :
             /\ item.id = st.hand[1].id /\ item.itemId = st.hand[1].itemId
             /\ item.qty = st.qty /\ items' = Upsert(item, items)
             /\ UNCHANGED <<carts, torn>> /\ Ends(w)
  BY <1>2, SaveQuantityShape
<1>7. d.cust \in Named(st.req) /\ ~Looping(w) /\ ~Looping(w)'
  <2>1. ~Busy(w)'
    BY <1>6 DEF Ends, Busy, Free
  <2> QED BY <1>2, <1>3, <1>5, <2>1, NamedOnce DEF Looping
<1>8. Contents[d.cust] = LinesOf(d.refs, Len(d.refs), items) /\ Len(d.refs) \in Nat
  BY <1>3, <1>5, <1>7, CartSeen
<1>9. Contents'[d.cust] = LinesOf(d.refs, Len(d.refs), items')
  <2>1. d.refs \in Seq(Nat)
    BY <1>2, KnownType
  <2> QED BY <1>2, <1>5, <1>6, <1>7, <2>1, CartSeenNext
<1>10. ASSUME NEW j \in 1..Len(d.refs), j # k
      PROVE  LineOf(d.refs[j], items') = LineOf(d.refs[j], items)
  <2>1. PICK i \in items : i.id = d.refs[j]
    BY <1>2, <1>5 DEF WholeInv, Ids
  <2>2. d.refs[j] # d.refs[k]
    BY <1>2, <1>5, <1>10 DEF WholeInv
  <2>3. i \in items'
    BY <1>5, <1>6, <2>1, <2>2 DEF Upsert
  <2>4. LineOf(i.id, items) = [itemId |-> i.itemId, qty |-> i.qty]
    BY <1>2, LineIs
  <2>5. LineOf(i.id, items') = [itemId |-> i.itemId, qty |-> i.qty]
    BY <1>2, <2>3, LineIs
  <2> QED BY <2>1, <2>4, <2>5
<1>11. LineOf(d.refs[k], items') = [itemId |-> LineOf(d.refs[k], items).itemId, qty |-> st.qty]
  <2>1. PICK i \in items : i.id = d.refs[k]
    BY <1>2, <1>5 DEF WholeInv, Ids
  <2>2. LineOf(i.id, items) = [itemId |-> i.itemId, qty |-> i.qty]
    BY <1>2, LineIs
  <2>3. i.itemId = st.req.itemId
    BY <1>5, <2>1 DEF FirstLine
  <2>4. item \in items'
    BY <1>6 DEF Upsert
  <2>5. LineOf(item.id, items') = [itemId |-> item.itemId, qty |-> item.qty]
    BY <1>2, <2>4, LineIs
  <2> QED BY <1>5, <1>6, <2>1, <2>2, <2>3, <2>5
<1>12. LinesOf(d.refs, Len(d.refs), items')
           = [LinesOf(d.refs, Len(d.refs), items) EXCEPT ![k].qty = st.qty]
  <2>1. PICK refs, n, q, old, new : /\ refs = d.refs /\ n = Len(d.refs) /\ q = st.qty
                                    /\ old = items /\ new = items'
    OBVIOUS
  <2>2. n \in Nat /\ k \in 1..n
    BY <1>8, <2>1
  <2>3. \A j \in 1..n : j # k => LineOf(refs[j], new) = LineOf(refs[j], old)
    BY <1>10, <2>1
  <2>4. LineOf(refs[k], new) = [itemId |-> LineOf(refs[k], old).itemId, qty |-> q]
    BY <1>11, <2>1
  <2>5. LinesOf(refs, n, new) = [LinesOf(refs, n, old) EXCEPT ![k].qty = q]
    BY <2>2, <2>3, <2>4, EditedLine
  <2> QED BY <2>1, <2>5
<1> QED BY <1>5, <1>8, <1>9, <1>12

\* What OthersSeen leaves of a step: the customers its request names.
LEMMA OthersLeft ==
    ASSUME MaxLag = 0, PromiseInv, PromiseInv', NEW w \in Workers, Handle(w) \/ Abort(w),
           worker[w].req.op # "merge"
    PROVE  /\ \A c \in Customers \ {worker[w].req.cust} : Contents'[c] = Contents[c]
           /\ worker[w].req.cust \in Customers /\ worker[w].req.cust \in Named(worker[w].req)
           /\ worker[w].req \in Requests /\ ~Looping(w)
           /\ worker[w].req.cust \in torn =>
                  worker[w].req.cust \in torn' /\ Contents' = Contents
<1> DEFINE st == worker[w]
<1>1. TypeInv /\ Busy(w) /\ torn \subseteq torn'
  BY Beneath DEF Frame
<1>2. /\ Named(st.req) = {st.req.cust} /\ st.req.cust \in Customers
      /\ st.req \in Requests /\ ~Looping(w)
  BY <1>1, NamedOnce, NamedCustomers
<1>3. \A c \in Customers \ {st.req.cust} : Contents'[c] = Contents[c]
  BY <1>2, OthersSeen
<1>4. ASSUME st.req.cust \in torn PROVE Contents' = Contents
  <2>1. Contents'[st.req.cust] = Contents[st.req.cust]
    BY <1>1, <1>2, <1>4, TornSeen
  <2> QED BY <1>3, <2>1, NoChange
<1> QED BY <1>1, <1>2, <1>3, <1>4

\* PATCH and the second half of a POST for an item in the cart: updateItem()
\* saves the quantity of the first line.
LEMMA UpdateSeen ==
    ASSUME MaxLag = 0, PromiseInv, PromiseInv', NEW w \in Workers, SaveQuantity(w)
    PROVE  Promise!Next \/ Contents' = Contents
<1> DEFINE st == worker[w]
           c == st.req.cust
           i == st.req.itemId
<1>1. Does(w, "saveQuantity")
  BY DEF SaveQuantity
<1>2. /\ OneCartInv /\ OneEach /\ OneMore(w) /\ AsAsked(w)
      /\ \A a, b \in items : a.id = b.id => a = b
  BY Beneath DEF ItemIdsInv, OneCartInv
<1>3. Handle(w) \/ Abort(w)
  BY DEF Handle
<1>4. Busy(w) /\ st.req.op \in {"add", "update"} /\ Goal(st) = "saveQuantity"
  BY <1>1, <1>2, Working DEF PhaseOK
<1>5. /\ \A o \in Customers \ {c} : Contents'[o] = Contents[o]
      /\ c \in Customers /\ st.req \in Requests
      /\ c \in torn => Contents' = Contents
  BY <1>3, <1>4, OthersLeft
<1>6. CASE c \in torn
  BY <1>5, <1>6
<1>7. CASE c \notin torn
  <2>1. PICK d \in carts : \E k \in 1..Len(d.refs) :
               /\ d.cust = c /\ FirstLine(d, k, i, items) /\ Len(d.refs) \in Nat
               /\ Contents[d.cust] = LinesOf(d.refs, Len(d.refs), items)
               /\ Contents'[d.cust] = [Contents[d.cust] EXCEPT ![k].qty = st.qty]
    BY <1>7, QuantitySeen
  <2>2. PICK k \in 1..Len(d.refs) :
               /\ d.cust = c /\ FirstLine(d, k, i, items) /\ Len(d.refs) \in Nat
               /\ Contents[c] = LinesOf(d.refs, Len(d.refs), items)
               /\ Contents'[c] = [Contents[c] EXCEPT ![k].qty = st.qty]
    BY <2>1
  <2>3. \A n : FirstLine(d, n, i, items) =>
                   Promise!Lines(c, i) # {} /\ Promise!First(c, i) = n
    BY <1>7, <2>2, FirstSeen
  <2>4. Promise!Whole(c)
    BY <1>5, <1>7, LinesSeen DEF Promise!Whole
  <2>5. PICK new : new = [Contents[c] EXCEPT ![k].qty = st.qty]
    OBVIOUS
  <2>6. Contents' = [Contents EXCEPT ![c] = new]
    BY <1>5, <2>2, <2>5, OneChange
  <2>7. i \in Items
    BY <1>4, <1>5, RequestOps
  <2>8. CASE st.req.op = "update"
    <3>1. st.qty = st.req.qty /\ st.req.qty \in Quantities
      <4>1. st.req \in UpdateRequests
        BY <1>5, <2>8 DEF Requests, CartRequests, ItemRequests, MergeRequests
      <4> QED BY <1>2, <1>4, <2>8, <4>1 DEF AsAsked, UpdateRequests
    <3>2. Promise!UpdateItem(c, i, st.req.qty)
      BY <2>2, <2>3, <2>4, <2>5, <2>6, <3>1 DEF Promise!UpdateItem, Promise!Becomes
    <3> QED BY <1>5, <2>7, <3>1, <3>2 DEF Promise!Next
  <2>9. CASE st.req.op = "add"
    <3>1. Counting(w)
      BY <1>4, <2>9 DEF Counting
    <3>2. PICK e \in carts : \E m \in 1..Len(e.refs) : \E it \in items :
                 /\ e.cust = c /\ FirstLine(e, m, i, items)
                 /\ it.id = e.refs[m] /\ st.qty = it.qty + 1
      BY <1>2, <1>7, <3>1 DEF OneMore
    <3>3. e = d
      BY <1>2, <2>2, <3>2 DEF OneEach
    <3>4. PICK it \in items : it.id = d.refs[k] /\ st.qty = it.qty + 1
      BY <2>2, <2>3, <3>2, <3>3
    <3>5. LineOf(it.id, items) = [itemId |-> it.itemId, qty |-> it.qty]
      BY <1>2, LineIs
    <3>6. Contents[c][k] = [itemId |-> it.itemId, qty |-> it.qty]
      BY <2>2, <3>4, <3>5 DEF LinesOf
    <3>7. new = [Contents[c] EXCEPT ![k].qty = @ + 1]
      BY <2>5, <3>4, <3>6
    <3>8. Promise!AddToCart(c, i)
      BY <2>2, <2>3, <2>4, <2>6, <3>7 DEF Promise!AddToCart, Promise!Becomes
    <3> QED BY <1>5, <2>7, <3>8 DEF Promise!Next
  <2> QED BY <1>4, <2>8, <2>9
<1> QED BY <1>6, <1>7

\* One reference more is one line more.
LEMMA LineAppended ==
    ASSUME NEW w, NEW old, NEW doc, Added(w, old, doc), Len(old.refs) \in Nat, NEW line,
           LineOf(doc.refs[Len(old.refs) + 1], items) = line
    PROVE  LinesOf(doc.refs, Len(old.refs) + 1, items)
               = Append(LinesOf(old.refs, Len(old.refs), items), line)
<1>1. PICK f, g : /\ f = LinesOf(old.refs, Len(old.refs), items)
                  /\ g = LinesOf(doc.refs, Len(old.refs) + 1, items)
  OBVIOUS
<1>2. PICK a, b, n : a = old.refs /\ b = doc.refs /\ n = Len(old.refs)
  OBVIOUS
<1>3. /\ n \in Nat /\ LineOf(b[n + 1], items) = line
      /\ \A k \in 1..n : b[k] = a[k]
  BY <1>2 DEF Added
<1>4. /\ f = [k \in 1..n |-> LineOf(a[k], items)]
      /\ g = [k \in 1..n + 1 |-> LineOf(b[k], items)]
  BY <1>1, <1>2 DEF LinesOf
<1>5. g = [k \in 1..n + 1 |-> IF k <= n THEN f[k] ELSE line]
  BY <1>3, <1>4
<1>6. Len(f) = n
  BY <1>3, <1>4
<1>7. Append(f, line) = [k \in 1..n + 1 |-> IF k <= n THEN f[k] ELSE line]
  BY <1>3, <1>4, <1>6
<1> QED BY <1>1, <1>5, <1>7

\* POST of an item that is not in the cart: its cart is saved with one more
\* line at the end.
LEMMA AddSeen ==
    ASSUME MaxLag = 0, PromiseInv, PromiseInv', NEW w \in Workers, AddItem(w)
    PROVE  Promise!Next \/ Contents' = Contents
<1> DEFINE st == worker[w]
           c == st.req.cust
           i == st.req.itemId
<1>1. Does(w, "addItem")
  BY DEF AddItem
<1>2. /\ OneCartInv /\ TypeInv /\ OneEach /\ Exact(w) /\ Private(w) /\ OneSock(w) /\ Absent(w)
      /\ \A a, b \in items : a.id = b.id => a = b
  BY Beneath DEF ItemIdsInv, OneCartInv
<1>3. Handle(w) \/ Abort(w)
  BY DEF Handle
<1>4. Busy(w) /\ st.req.op = "add" /\ Goal(st) = "addItem" /\ Adding(w)
  BY <1>1, <1>2, Working DEF PhaseOK, Adding
<1>5. /\ \A o \in Customers \ {c} : Contents'[o] = Contents[o]
      /\ c \in Customers /\ st.req \in Requests /\ c \in Named(st.req) /\ ~Looping(w)
      /\ c \in torn => Contents' = Contents
  BY <1>3, <1>4, OthersLeft
<1>6. CASE c \in torn
  BY <1>5, <1>6
<1>7. CASE c \notin torn
  <2>1. PICK old \in carts : \E doc : /\ doc.cust = old.cust /\ old.cust = c
                                      /\ carts' = (carts \ {old}) \cup {doc}
                                      /\ UNCHANGED <<items, torn>> /\ Added(w, old, doc)
    <3>1. ~RemoveItem(w)
      BY <1>1 DEF RemoveItem, Does
    <3> QED BY <1>2, <1>7, <3>1, SavedWhole DEF Removed
  <2>2. PICK doc : /\ doc.cust = old.cust /\ old.cust = c
                   /\ carts' = (carts \ {old}) \cup {doc}
                   /\ UNCHANGED <<items, torn>> /\ Added(w, old, doc)
    BY <2>1
  <2>3. Contents[c] = LinesOf(old.refs, Len(old.refs), items) /\ Len(old.refs) \in Nat
    BY <1>4, <1>5, <1>7, <2>2, CartSeen
  <2>4. Contents'[c] = LinesOf(doc.refs, Len(old.refs) + 1, items)
    <3>1. doc \in carts' /\ doc.refs \in Seq(Nat)
      BY <2>2, Above DEF TypeInv, StoreInv, CartDoc
    <3>2. ~Looping(w)'
      BY <1>2, AddItemShape DEF Ends, Free, Looping, Busy
    <3>3. Contents'[c] = LinesOf(doc.refs, Len(doc.refs), items')
      BY <1>3, <1>5, <1>7, <2>2, <3>1, <3>2, CartSeenNext
    <3>4. Len(doc.refs) = Len(old.refs) + 1
      BY <2>2 DEF Added
    <3> QED BY <2>2, <3>3, <3>4
  <2>5. PICK line : line = [itemId |-> i, qty |-> 1]
    OBVIOUS
  <2>6. LineOf(doc.refs[Len(old.refs) + 1], items) = line
    <3>1. st.hand[1] \in StoredItem /\ st.hand[1].id # 0
      BY <1>2, AddItemShape DEF StoredItem
    <3>2. st.hand[1] \in items /\ st.hand[1].qty = 1 /\ st.hand[1].itemId = i
      BY <1>2, <1>4, <3>1 DEF OneSock, Private
    <3>3. LineOf(st.hand[1].id, items) = line
      BY <1>2, <2>5, <3>2, LineIs
    <3> QED BY <2>2, <3>3 DEF Added
  <2>7. Contents'[c] = Append(Contents[c], line)
    <3>1. Added(w, old, doc) /\ Len(old.refs) \in Nat
      BY <2>2, <2>3
    <3>2. LinesOf(doc.refs, Len(old.refs) + 1, items)
              = Append(LinesOf(old.refs, Len(old.refs), items), line)
      BY <2>6, <3>1, LineAppended
    <3> QED BY <2>3, <2>4, <3>2
  <2>8. Promise!Lines(c, i) = {}
    <3>1. PICK n, lines : n = Len(old.refs) /\ lines = Contents[c]
      OBVIOUS
    <3>2. Len(lines) = n
      BY <2>3, <3>1 DEF LinesOf
    <3>3. ASSUME NEW j \in 1..n, lines[j].itemId = i PROVE FALSE
      <4>1. PICK it \in items : /\ it.id = old.refs[j]
                                /\ LineOf(old.refs[j], items)
                                       = [itemId |-> it.itemId, qty |-> it.qty]
        BY <1>7, <2>2, <3>1, EachLine
      <4>2. it.itemId = i
        BY <2>3, <3>1, <3>3, <4>1 DEF LinesOf
      <4> QED BY <1>2, <1>4, <1>7, <2>2, <3>1, <4>1, <4>2 DEF Absent
    <3> QED BY <3>1, <3>2, <3>3 DEF Promise!Lines
  <2>9. Promise!Whole(c)
    BY <1>5, <1>7, LinesSeen DEF Promise!Whole
  <2>10. PICK new : new = Append(Contents[c], line)
    OBVIOUS
  <2>11. Contents' = [Contents EXCEPT ![c] = new]
    BY <1>5, <2>7, <2>10, OneChange
  <2>12. Promise!AddToCart(c, i)
    BY <2>5, <2>8, <2>9, <2>10, <2>11 DEF Promise!AddToCart, Promise!Becomes
  <2>13. i \in Items
    BY <1>4, <1>5, RequestOps
  <2> QED BY <1>5, <2>12, <2>13 DEF Promise!Next
<1> QED BY <1>6, <1>7

\* One reference less is one line less.
LEMMA DropLine ==
    ASSUME NEW old, NEW doc, NEW k, Without(old, doc, k),
           old.refs \in Seq(Nat \ {0})
    PROVE  LinesOf(doc.refs, Len(doc.refs), items)
               = RemoveAt(LinesOf(old.refs, Len(old.refs), items), k)
<1>0. PICK n : n = Len(old.refs)
  OBVIOUS
<1>1. PICK f, g : f = LinesOf(old.refs, n, items) /\ g = LinesOf(doc.refs, Len(doc.refs), items)
  OBVIOUS
<1>2. /\ n \in Nat /\ k \in 1..n /\ Len(doc.refs) = n - 1
      /\ \A j \in 1..n - 1 : doc.refs[j] = IF j < k THEN old.refs[j] ELSE old.refs[j + 1]
      /\ f = [j \in 1..n |-> LineOf(old.refs[j], items)]
      /\ g = [j \in 1..n - 1 |-> LineOf(doc.refs[j], items)]
  BY <1>0, <1>1 DEF LinesOf, Without
<1>3. PICK S : S = {f[j] : j \in 1..n}
  OBVIOUS
<1>4. f \in Seq(S) /\ Len(f) = n /\ k \in 1..Len(f)
  <2>1. f = [j \in 1..n |-> f[j]] /\ n \in Nat
    BY <1>2
  <2>2. f \in Seq(S)
    BY <1>3, <2>1
  <2> QED BY <1>2, <2>1, <2>2
<1>5. PICK h : h = RemoveAt(f, k)
  OBVIOUS
<1>6. /\ h \in Seq(S) /\ Len(h) = n - 1
      /\ \A j \in 1..n - 1 : h[j] = IF j < k THEN f[j] ELSE f[j + 1]
  BY <1>4, <1>5, RemoveAtFacts
<1>7. \A j \in 1..n - 1 : g[j] = IF j < k THEN f[j] ELSE f[j + 1]
  BY <1>2
<1>8. h = [j \in 1..n - 1 |-> h[j]]
  BY <1>6
<1>9. g = h
  BY <1>2, <1>6, <1>7, <1>8
<1> QED BY <1>0, <1>1, <1>5, <1>9

\* DELETE of an item: its cart is saved without the first line for it.
LEMMA RemoveSeen ==
    ASSUME MaxLag = 0, PromiseInv, PromiseInv', NEW w \in Workers, RemoveItem(w)
    PROVE  Promise!Next \/ Contents' = Contents
<1> DEFINE st == worker[w]
           c == st.req.cust
           i == st.req.itemId
<1>1. Does(w, "removeItem")
  BY DEF RemoveItem
<1>2. OneCartInv /\ TypeInv /\ Exact(w)
  BY Beneath
<1>3. Handle(w) \/ Abort(w)
  BY DEF Handle
<1>4. Busy(w) /\ st.req.op = "remove"
  BY <1>1, <1>2, Working DEF PhaseOK
<1>5. /\ \A o \in Customers \ {c} : Contents'[o] = Contents[o]
      /\ c \in Customers /\ st.req \in Requests /\ c \in Named(st.req) /\ ~Looping(w)
      /\ c \in torn => Contents' = Contents
  BY <1>3, <1>4, OthersLeft
<1>6. CASE c \in torn
  BY <1>5, <1>6
<1>7. CASE c \notin torn
  <2>1. PICK old \in carts : \E doc : /\ doc.cust = old.cust /\ old.cust = c
                                      /\ carts' = (carts \ {old}) \cup {doc}
                                      /\ UNCHANGED <<items, torn>> /\ At(w, LoadedSteps)
                                      /\ old.id = st.cart.id /\ Removed(w, old, doc)
    <3>1. ~AddItem(w) /\ ~MergeItem(w)
      BY <1>1 DEF AddItem, MergeItem, Does
    <3> QED BY <1>2, <1>7, <3>1, SavedWhole DEF Added
  <2>2. PICK doc : /\ doc.cust = old.cust /\ old.cust = c
                   /\ carts' = (carts \ {old}) \cup {doc}
                   /\ UNCHANGED <<items, torn>> /\ At(w, LoadedSteps)
                   /\ old.id = st.cart.id /\ Removed(w, old, doc)
    BY <2>1
  <2>3. Contents[c] = LinesOf(old.refs, Len(old.refs), items) /\ Len(old.refs) \in Nat
    BY <1>4, <1>5, <1>7, <2>2, CartSeen
  <2>4. Contents'[c] = LinesOf(doc.refs, Len(doc.refs), items)
    <3>1. doc \in carts' /\ doc.refs \in Seq(Nat)
      BY <2>2, Above DEF TypeInv, StoreInv, CartDoc
    <3>2. ~Looping(w)'
      <4>1. GoesOn(w) /\ ~Find(w) /\ ~Create(w) /\ ~MergeItem(w) /\ ~MergeItems(w)
        BY <1>1, <1>3, Beneath DEF Find, Create, MergeItem, MergeItems, Does
      <4> QED BY <4>1 DEF GoesOn
    <3> QED BY <1>3, <1>5, <1>7, <2>2, <3>1, <3>2, CartSeenNext
  <2>5. CASE Wanted(w) = {}
    <3>1. Contents'[c] = Contents[c]
      BY <2>2, <2>3, <2>4, <2>5 DEF Removed
    <3>2. Contents' = Contents
      BY <1>5, <3>1, NoChange
    <3> QED BY <3>2
  <2>6. CASE Wanted(w) # {}
    <3>1. PICK k : k = FirstWanted(w)
      OBVIOUS
    <3>2. k \in 1..Len(old.refs) /\ FirstLine(old, k, i, items)
      BY <1>7, <2>2, <2>6, <3>1, WantedFirst
    <3>3. Without(old, doc, k)
      BY <2>2, <2>6, <3>1 DEF Removed
    <3>4. Promise!Lines(c, i) # {} /\ Promise!First(c, i) = k
      BY <1>7, <2>2, <2>3, <3>2, FirstSeen
    <3>5. Contents'[c] = RemoveAt(Contents[c], k)
      <4>1. LinesOf(doc.refs, Len(doc.refs), items)
                = RemoveAt(LinesOf(old.refs, Len(old.refs), items), k)
        <5>1. old.refs \in Seq(Nat \ {0})
          BY <1>2, KnownType
        <5> QED BY <3>3, <5>1, DropLine
      <4> QED BY <2>3, <2>4, <4>1
    <3>6. Promise!Whole(c)
      BY <1>5, <1>7, LinesSeen DEF Promise!Whole
    <3>7. PICK new : new = RemoveAt(Contents[c], k)
      OBVIOUS
    <3>8. Contents' = [Contents EXCEPT ![c] = new]
      BY <1>5, <3>5, <3>7, OneChange
    <3>9. new = Promise!RemoveAt(Contents[c], k)
      BY <3>7 DEF RemoveAt, Promise!RemoveAt
    <3>10. Promise!RemoveItem(c, i)
      BY <3>4, <3>6, <3>8, <3>9 DEF Promise!RemoveItem, Promise!Becomes
    <3>11. i \in Items
      BY <1>4, <1>5, RequestOps
    <3> QED BY <1>5, <3>10, <3>11 DEF Promise!Next
  <2> QED BY <2>5, <2>6
<1> QED BY <1>6, <1>7

\* The lines of a cart and those moved to its end.
LEMMA JoinLines ==
    ASSUME NEW a, NEW b, NEW p \in Nat, NEW n \in Nat, \A k \in 1..n : a[p + k] = b[k]
    PROVE  LinesOf(a, p + n, items) = LinesOf(a, p, items) \o LinesOf(b, n, items)
<1>1. PICK f, g, h : /\ f = LinesOf(a, p, items) /\ g = LinesOf(b, n, items)
                     /\ h = LinesOf(a, p + n, items)
  OBVIOUS
<1>2. /\ f = [k \in 1..p |-> LineOf(a[k], items)]
      /\ g = [k \in 1..n |-> LineOf(b[k], items)]
      /\ h = [k \in 1..p + n |-> LineOf(a[k], items)]
  BY <1>1 DEF LinesOf
<1>3. Len(f) = p /\ Len(g) = n
  BY <1>2
<1>4. f \o g = [k \in 1..p + n |-> IF k <= p THEN f[k] ELSE g[k - p]]
  BY <1>2, <1>3
<1>5. ASSUME NEW k \in 1..p + n PROVE h[k] = IF k <= p THEN f[k] ELSE g[k - p]
  <2>1. CASE k <= p
    <3>1. k \in 1..p
      BY <2>1
    <3> QED BY <1>2, <2>1, <3>1
  <2>2. CASE ~(k <= p)
    <3>1. k - p \in 1..n /\ p + (k - p) = k
      BY <2>2
    <3>2. a[k] = b[k - p]
      BY <3>1
    <3> QED BY <1>2, <2>2, <3>1, <3>2
  <2> QED BY <2>1, <2>2
<1>6. h = [k \in 1..p + n |-> IF k <= p THEN f[k] ELSE g[k - p]]
  BY <1>2, <1>5
<1> QED BY <1>1, <1>4, <1>6

\* DELETE of a cart.
LEMMA DropSeen ==
    ASSUME MaxLag = 0, PromiseInv, PromiseInv', NEW w \in Workers, DeleteCart(w),
           worker[w].req.op # "merge"
    PROVE  Promise!Next \/ Contents' = Contents
<1> DEFINE c == worker[w].req.cust
<1>1. OneCartInv /\ OneEach
  BY Beneath DEF OneCartInv
<1>2. Handle(w) \/ Abort(w)
  BY DEF Handle
<1>3. /\ \A o \in Customers \ {c} : Contents'[o] = Contents[o]
      /\ c \in Customers
      /\ c \in torn => Contents' = Contents
  BY <1>2, OthersLeft
<1>4. CASE c \in torn
  BY <1>3, <1>4
<1>5. CASE c \notin torn
  <2>1. PICK old \in carts : old.cust = c /\ carts' = carts \ {old} /\ torn' = torn
    BY <1>1, DeleteCartShape
  <2>2. \A d \in carts' : d.cust # c
    BY <1>1, <2>1 DEF OneEach
  <2>3. Contents'[c] = <<>>
    BY <1>3, <1>5, <2>1, <2>2, SeenNext DEF SeenFacts
  <2>4. Contents' = [Contents EXCEPT ![c] = <<>>]
    BY <1>3, <2>3, OneChange
  <2>5. Promise!Whole(c)
    BY <1>3, <1>5, LinesSeen DEF Promise!Whole
  <2>6. Promise!DeleteCart(c)
    BY <2>4, <2>5 DEF Promise!DeleteCart, Promise!Becomes
  <2> QED BY <1>3, <2>6 DEF Promise!Next
<1> QED BY <1>4, <1>5

\* The last step of a merge, the DELETE of the session's cart, is what a client
\* sees of it: all lines are the customer's now.
LEMMA MergedSeen ==
    ASSUME MaxLag = 0, PromiseInv, PromiseInv', NEW w \in Workers, DeleteCart(w),
           worker[w].req.op = "merge"
    PROVE  Promise!Next \/ Contents' = Contents
<1> DEFINE st == worker[w]
           c == st.req.cust
           s == st.req.other
<1>1. /\ OneCartInv /\ OneEach /\ TypeInv /\ Busy(w) /\ TornTogether(w) /\ HalfMerged(w)
      /\ Emptied(w)
  <2>1. Handle(w)
    BY DEF Handle
  <2> QED BY <2>1, Beneath DEF OneCartInv, Frame
<1>2. Handle(w) \/ Abort(w)
  BY DEF Handle
<1>3. /\ c \in Customers \ Sessions /\ s \in Sessions /\ c # s /\ s \in Customers
      /\ Named(st.req) = {c, s} /\ c \in Customers
      /\ c \in Named(st.req) /\ s \in Named(st.req)
  BY <1>1, NamedCustomers, MergeNames, CartsAssumption
<1>4. \A o \in Customers \ {c, s} : Contents'[o] = Contents[o]
  BY <1>2, <1>3, OthersSeen
<1>5. PICK old \in carts : old.cust = s /\ carts' = carts \ {old}
  BY <1>1, DeleteCartShape
<1>6. /\ Goal(st) = "deleteCart" /\ UNCHANGED <<items, torn>> /\ ~Busy(w)'
  BY <1>1, DeleteCartShape DEF Ends, Busy, Free
<1>7. Looping(w) /\ st.hand = <<>> /\ ~Looping(w)'
  BY <1>1, <1>6 DEF Looping, Emptied
<1>8. c \in torn <=> s \in torn
  BY <1>1, <1>7 DEF TornTogether
<1>9. CASE c \in torn
  <2>1. Contents'[c] = Contents[c] /\ Contents'[s] = Contents[s]
    BY <1>3, <1>6, <1>8, <1>9, TornSeen
  <2>2. Contents' = Contents
    BY <1>4, <2>1, NoChange
  <2> QED BY <2>2
<1>10. CASE c \notin torn
  <2>1. PICK e \in carts : Moved(w, e)
    BY <1>1, <1>7, <1>10 DEF HalfMerged
  <2>2. e = old
    BY <1>1, <1>5, <2>1 DEF Moved, OneEach
  <2>3. PICK n : n = Len(e.refs)
    OBVIOUS
  <2>4. n \in Nat /\ (n = 0 \/ n > 0)
    <3>1. n \in Nat
      BY <1>1, <2>3, KnownType
    <3> QED BY <3>1
  <2>5. n = Len(e.refs) - Len(st.hand)
    <3>1. Len(st.hand) = 0
      BY <1>7
    <3> QED BY <2>3, <2>4, <3>1
  <2>6. Pending(c, n)
    BY <1>7, <2>1, <2>5 DEF Pending
  <2>7. Contents[s] = LinesOf(e.refs, n, items)
    BY <1>1, <1>3, <1>5, <1>8, <1>10, <2>2, <2>3, CartSeen
  <2>8. Contents'[s] = <<>>
    <3>1. \A d \in carts' : d.cust # s
      BY <1>1, <1>5 DEF OneEach
    <3> QED BY <1>3, <1>6, <1>8, <1>10, <3>1, SeenNext DEF SeenFacts
  <2>9. Contents[c] \in Seq([itemId : Items, qty : Nat])
    BY <1>3, <1>10, LinesSeen
  <2>10. Contents'[c] = Contents[c] \o Contents[s]
    <3>1. CASE n = 0
      <4>1. Contents[s] = <<>>
        BY <2>7, <3>1 DEF LinesOf
      <4>2. PICK o : o = c
        OBVIOUS
      <4>3. o \in Customers /\ o \in Named(st.req) /\ o \notin torn /\ o \notin torn'
        BY <1>3, <1>6, <1>10, <4>2
      <4>4. Pending(o, 0)
        BY <2>6, <3>1, <4>2
      <4>5. Pending(o, 0)'
        BY <1>2, <1>7, <4>3, IdleNext
      <4>6. \A d : d.cust = o => (d \in carts' <=> d \in carts)
        BY <1>3, <1>5, <4>2
      <4>7. ~SaveQuantity(w)
        BY DEF DeleteCart, SaveQuantity, Does
      <4>8. Contents'[o] = Contents[o]
        BY <1>2, <4>3, <4>4, <4>5, <4>6, <4>7, SeenSame
      <4> QED BY <2>9, <4>1, <4>2, <4>8
    <3>2. CASE n > 0
      <4>1. PICK d \in carts : /\ d.cust = c /\ n <= Len(d.refs)
                               /\ \A k \in 1..n : d.refs[Len(d.refs) - n + k] = e.refs[k]
        BY <2>1, <2>5, <3>2 DEF Moved
      <4>2. d.refs \in Seq(Nat) /\ Len(d.refs) \in Nat
        BY <1>1, KnownType
      <4>3. Contents[c] = LinesOf(d.refs, Len(d.refs) - n, items)
        BY <1>3, <1>10, <2>6, <4>1, SeenOne
      <4>4. Contents'[c] = LinesOf(d.refs, Len(d.refs), items)
        <5>1. d \in carts'
          BY <1>3, <1>5, <4>1
        <5> QED BY <1>2, <1>3, <1>6, <1>7, <1>10, <4>1, <4>2, <5>1, CartSeenNext
      <4>5. PICK p : p = Len(d.refs) - n
        OBVIOUS
      <4>6. p \in Nat /\ Len(d.refs) = p + n /\ \A k \in 1..n : d.refs[p + k] = e.refs[k]
        <5>1. PICK l : l = Len(d.refs)
          OBVIOUS
        <5>2. p \in Nat /\ l = p + n
          BY <2>4, <4>1, <4>2, <4>5, <5>1
        <5> QED BY <4>1, <4>5, <5>1, <5>2
      <4>7. LinesOf(d.refs, p + n, items) = LinesOf(d.refs, p, items) \o LinesOf(e.refs, n, items)
        <5>1. PICK a, b : a = d.refs /\ b = e.refs
          OBVIOUS
        <5>2. p \in Nat /\ n \in Nat /\ \A k \in 1..n : a[p + k] = b[k]
          BY <2>4, <4>6, <5>1
        <5>3. LinesOf(a, p + n, items) = LinesOf(a, p, items) \o LinesOf(b, n, items)
          BY <5>2, JoinLines
        <5> QED BY <5>1, <5>3
      <4> QED BY <2>7, <4>3, <4>4, <4>5, <4>6, <4>7
    <3> QED BY <2>4, <3>1, <3>2
  <2>11. PICK all : all = Contents[c] \o Contents[s]
    OBVIOUS
  <2>12. Contents' = [Contents EXCEPT ![c] = all, ![s] = <<>>]
    <3>1. Contents'[c] = all
      BY <2>10, <2>11
    <3> QED BY <1>3, <1>4, <2>8, <3>1, Changes
  <2>13. Promise!Whole(c) /\ Promise!Whole(s)
    BY <1>3, <1>8, <1>10, LinesSeen DEF Promise!Whole
  <2>14. Promise!MergeCarts(c, s)
    BY <2>11, <2>12, <2>13 DEF Promise!MergeCarts
  <2> QED BY <1>3, <2>14 DEF Promise!Next
<1> QED BY <1>9, <1>10

\* A merge that leaves its carts torn is one that tears them.
LEMMA TearSeen ==
    ASSUME MaxLag = 0, PromiseInv, PromiseInv', NEW w \in Workers, Handle(w) \/ Abort(w),
           worker[w].req.op = "merge", Named(worker[w].req) \subseteq torn'
    PROVE  Promise!Next
<1> DEFINE st == worker[w]
<1>1. TypeInv /\ Busy(w)
  BY Beneath DEF Frame
<1>2. PICK c, s : c = st.req.cust /\ s = st.req.other
  OBVIOUS
<1>3. /\ c \in Customers \ Sessions /\ s \in Sessions /\ s \in Customers
      /\ Named(st.req) = {c, s}
  BY <1>1, <1>2, NamedCustomers, MergeNames, CartsAssumption
<1>4. \A o \in Customers \ {c, s} : Contents'[o] = Contents[o]
  BY <1>3, OthersSeen
<1>5. Contents'[c] = None /\ Contents'[s] = None
  BY <1>3, SeenNext DEF SeenFacts
<1>6. Contents' = [Contents EXCEPT ![c] = None, ![s] = None]
  BY <1>3, <1>4, <1>5, Changes
<1>7. Promise!TearCarts(c, s)
  BY <1>6 DEF Promise!TearCarts
<1> QED BY <1>3, <1>7 DEF Promise!Next

\* A merge that has read the session's cart has moved nothing yet.
LEMMA BeginSeen ==
    ASSUME MaxLag = 0, PromiseInv, PromiseInv', NEW w \in Workers, MergeItems(w)
    PROVE  Promise!Next \/ Contents' = Contents
<1> DEFINE st == worker[w]
<1>1. /\ OneCartInv /\ TypeInv /\ Busy(w) /\ OwnStep(w)
      /\ Handle(w) \/ Abort(w)
  BY Beneath DEF Handle, Frame
<1>2. /\ UNCHANGED <<carts, items>> /\ st.req.op = "merge"
      /\ torn' = IF Named(st.req) \cap torn = {} THEN torn ELSE torn \cup Named(st.req)
  BY <1>1, MergeItemsShape
<1>3. CASE Named(st.req) \cap torn # {}
  <2>1. Named(st.req) \subseteq torn'
    BY <1>2, <1>3
  <2> QED BY <1>1, <1>2, <2>1, TearSeen
<1>4. CASE Named(st.req) \cap torn = {}
  <2>1. torn' = torn
    BY <1>2, <1>4
  <2>2. ~Looping(w)
    <3>1. Does(w, "mergeItems")
      BY DEF MergeItems
    <3>2. Goal(st) = "mergeItems"
      BY <1>1, <3>1, Working DEF PhaseOK
    <3> QED BY <3>2 DEF Looping
  <2>3. ~SaveQuantity(w)
    BY DEF MergeItems, SaveQuantity, Does
  <2>4. ASSUME NEW c \in Named(st.req) PROVE Contents'[c] = Contents[c]
    <3>1. c \in Customers /\ c \notin torn /\ c \notin torn'
      BY <1>1, <1>4, <2>1, <2>4, NamedCustomers
    <3>2. \A d : d.cust = c => (d \in carts' <=> d \in carts)
      BY <1>2
    <3>3. CASE ~(Looping(w)' /\ worker'[w].req.cust = c)
      BY <1>1, <2>2, <2>3, <2>4, <3>1, <3>2, <3>3, IdleSeen
    <3>4. CASE Looping(w)' /\ worker'[w].req.cust = c
      <4>1. PICK e \in carts' : Moved(w, e)' /\ Len(worker'[w].hand) = Len(e.refs)
        BY <3>1, <3>4, BegunMerge
      <4>2. Len(e.refs) \in Nat
        <5>1. e \in CartDoc
          BY <4>1, Above DEF TypeInv, StoreInv
        <5> QED BY <5>1 DEF CartDoc
      <4>3. Len(e.refs) - Len(worker'[w].hand) = 0
        BY <4>1, <4>2
      <4>4. Pending(c, 0)'
        BY <3>4, <4>1, <4>3 DEF Pending
      <4>5. Pending(c, 0)
        <5>1. PICK n : Pending(c, n)
          BY <3>1, SeenOne
        <5>2. n = 0
          BY <1>1, <2>2, <2>4, <5>1, IdleNow
        <5> QED BY <5>1, <5>2
      <4> QED BY <1>1, <2>3, <3>1, <3>2, <4>4, <4>5, SeenSame
    <3> QED BY <3>3, <3>4
  <2>5. Contents' = Contents
    BY <1>1, <2>4, OthersSeen, NoChange
  <2> QED BY <2>5
<1> QED BY <1>3, <1>4

\* Only a merge tears carts, and both that it names.
LEMMA AbortTears ==
    ASSUME MaxLag = 0, PromiseInv, NEW w \in Workers, Abort(w), torn' # torn
    PROVE  worker[w].req.op = "merge" /\ Named(worker[w].req) \subseteq torn'
<1> DEFINE st == worker[w]
<1>1. OneCartInv /\ OneEach /\ TypeInv
  BY Beneath DEF OneCartInv
<1>2. PICK d \in carts : \E e \in carts :
             ShareItem(d, e) /\ {d.cust, e.cust} = Named(st.req)
  BY DEF Abort
<1>3. PICK e \in carts : ShareItem(d, e) /\ {d.cust, e.cust} = Named(st.req)
  BY <1>2
<1>4. {d.cust, e.cust} \subseteq torn' /\ Busy(w)
  BY <1>1, <1>3, AbortShape
<1>5. d.cust # e.cust
  BY <1>1, <1>3 DEF ShareItem, OneEach
<1>6. st.req.op = "merge"
  <2>1. st.req.op # "merge" => Named(st.req) = {st.req.cust}
    BY <1>1, <1>4, NamedOnce
  <2> QED BY <1>3, <1>5, <2>1
<1> QED BY <1>3, <1>4, <1>6

\* A request that ends in the middle is not seen, or has torn its carts.
LEMMA AbortSeen ==
    ASSUME MaxLag = 0, PromiseInv, PromiseInv', NEW w \in Workers, Abort(w)
    PROVE  Promise!Next \/ Contents' = Contents
<1> DEFINE st == worker[w]
<1>1. OneCartInv /\ TypeInv /\ HalfMerged(w)
  BY Beneath
<1>2. /\ UNCHANGED <<carts, items>> /\ Busy(w) /\ ~Busy(w)'
      /\ \A d, e \in carts : ShareItem(d, e) /\ {d.cust, e.cust} = Named(st.req) =>
                                 {d.cust, e.cust} \subseteq torn'
  BY <1>1, AbortShape DEF Ends, Busy, Free
<1>3. CASE torn' # torn
  BY <1>3, AbortTears, TearSeen
<1>4. CASE torn' = torn
  <2>1. ~Looping(w)'
    BY <1>2 DEF Looping
  <2>2. ~SaveQuantity(w)
    <3>1. aborted \in Nat
      BY <1>1, CartsAssumption DEF TypeInv
    <3>2. aborted' = aborted + 1 /\ (SaveQuantity(w) => aborted' = aborted)
      BY DEF Abort, SaveQuantity
    <3> QED BY <3>1, <3>2
  <2>3. ASSUME NEW c \in Named(st.req) PROVE Contents'[c] = Contents[c]
    <3>1. c \in Customers /\ \A d : d.cust = c => (d \in carts' <=> d \in carts)
      BY <1>1, <1>2, <2>3, NamedCustomers
    <3>2. CASE c \in torn
      BY <1>4, <3>1, <3>2, TornSeen
    <3>3. CASE c \notin torn /\ ~(Looping(w) /\ st.req.cust = c)
      BY <1>4, <2>1, <2>2, <2>3, <3>1, <3>3, IdleSeen
    <3>4. CASE c \notin torn /\ Looping(w) /\ st.req.cust = c
      <4>1. PICK e \in carts : Moved(w, e)
        BY <1>1, <3>4 DEF HalfMerged
      <4>2. PICK n : n = Len(e.refs) - Len(st.hand)
        OBVIOUS
      <4>3. Pending(c, n)
        BY <3>4, <4>1, <4>2 DEF Pending
      <4>4. n = 0
        <5>1. PICK r, h : r = Len(e.refs) /\ h = Len(st.hand)
          OBVIOUS
        <5>2. r \in Nat /\ h \in Nat /\ h <= r /\ n = r - h
          <6>1. r \in Nat /\ h \in Nat
            BY <1>1, <5>1, KnownType
          <6> QED BY <4>1, <4>2, <5>1, <6>1 DEF Moved
        <5>3. n \in Nat /\ n <= r
          BY <5>2
        <5>4. SUFFICES ASSUME n > 0 PROVE FALSE
          BY <5>3
        <5>5. PICK d \in carts : /\ d.cust = c /\ n <= Len(d.refs)
                                 /\ \A k \in 1..n : d.refs[Len(d.refs) - n + k] = e.refs[k]
          BY <3>4, <4>1, <4>2, <5>4 DEF Moved
        <5>6. PICK l : l = Len(d.refs)
          OBVIOUS
        <5>7. /\ l \in Nat /\ l - n + 1 \in 1..l /\ 1 \in 1..n /\ 1 \in 1..r
              /\ d.refs \in Seq(Nat) /\ e.refs \in Seq(Nat)
          <6>1. l \in Nat /\ d.refs \in Seq(Nat) /\ e.refs \in Seq(Nat)
            BY <1>1, <5>6, KnownType
          <6>2. n <= l
            BY <5>5, <5>6
          <6>3. l - n + 1 \in 1..l /\ 1 \in 1..n /\ 1 \in 1..r
            BY <5>2, <5>3, <5>4, <6>1, <6>2
          <6> QED BY <6>1, <6>3
        <5>8. InCart(d, e.refs[1]) /\ InCart(e, e.refs[1])
          BY <5>1, <5>5, <5>6, <5>7 DEF InCart
        <5>9. c # e.cust /\ Named(st.req) = {c, e.cust}
          <6>1. st.req \in Requests /\ st.req.op = "merge"
            BY <1>1, <1>2, <3>4, NamedCustomers DEF Looping
          <6> QED BY <3>4, <4>1, <6>1, MergeNames DEF Moved
        <5>10. ShareItem(d, e)
          BY <5>5, <5>7, <5>8, <5>9, ShareIds DEF Shares
        <5>11. c \in torn'
          BY <1>2, <5>5, <5>9, <5>10
        <5> QED BY <1>4, <3>4, <5>11
      <4>5. Pending(c, 0)'
        BY <2>1, <2>3, IdleNext
      <4>6. Pending(c, 0)
        BY <4>3, <4>4
      <4> QED BY <1>4, <2>2, <3>1, <3>4, <4>5, <4>6, SeenSame
    <3> QED BY <3>2, <3>3, <3>4
  <2>4. Contents' = Contents
    BY <2>3, OthersSeen, NoChange
  <2> QED BY <2>4
<1> QED BY <1>3, <1>4

-----------------------------------------------------------------------------
(* The refinement *)

\* Each step of a handler is one of ShoppingCart, or is not seen.
LEMMA HandlerSeen ==
    ASSUME MaxLag = 0, PromiseInv, PromiseInv', NEW w \in Workers, Handle(w) \/ Abort(w)
    PROVE  [Promise!Next]_Contents
<1>1. CASE Find(w) \/ Create(w)
  <2>1. Contents' = Contents
    BY <1>1, LookSeen, OthersSeen, NoChange
  <2> QED BY <2>1
<1>2. CASE HasItem(w) \/ FindItem(w) \/ Increment(w) \/ SaveItem(w) \/ DestroyItem(w)
  <2>1. Contents' = Contents
    BY <1>2, ItemSeen, OthersSeen, NoChange
  <2> QED BY <2>1
<1>3. CASE SaveQuantity(w)
  BY <1>3, UpdateSeen
<1>4. CASE AddItem(w)
  BY <1>4, AddSeen
<1>5. CASE RemoveItem(w)
  BY <1>5, RemoveSeen
<1>6. CASE DeleteCart(w)
  BY <1>6, DropSeen, MergedSeen
<1>7. CASE MergeItems(w)
  BY <1>7, BeginSeen
<1>8. CASE MergeItem(w)
  <2>1. Contents' = Contents
    BY <1>8, MergeSeen, OthersSeen, NoChange
  <2> QED BY <2>1
<1>9. CASE Abort(w)
  BY <1>9, AbortSeen
<1> QED BY <1>1, <1>2, <1>3, <1>4, <1>5, <1>6, <1>7, <1>8, <1>9 DEF Handle

\* A request that arrives, or nothing at all, is not seen.
LEMMA QuietSeen ==
    ASSUME PromiseInv, PromiseInv', UNCHANGED <<carts, items, torn>>,
           \A w \in Workers : worker'[w] = worker[w] \/ (~Looping(w) /\ ~Looping(w)')
    PROVE  Contents' = Contents
<1>1. ASSUME NEW c, NEW n, Pending(c, n) PROVE Pending(c, n)'
  <2>1. CASE n = 0 /\ \A w \in Workers : ~(Looping(w) /\ worker[w].req.cust = c)
    <3>1. \A w \in Workers : ~(Looping(w)' /\ worker'[w].req.cust = c)
      BY <2>1 DEF Looping, Busy
    <3> QED BY <2>1, <3>1 DEF Pending
  <2>2. CASE \E w \in Workers : \E e \in carts :
                 /\ Looping(w) /\ worker[w].req.cust = c /\ Moved(w, e)
                 /\ n = Len(e.refs) - Len(worker[w].hand)
    <3>1. PICK w \in Workers, e \in carts :
                 /\ Looping(w) /\ worker[w].req.cust = c /\ Moved(w, e)
                 /\ n = Len(e.refs) - Len(worker[w].hand)
      BY <2>2
    <3>2. worker'[w] = worker[w] /\ e \in carts'
      BY <3>1
    <3>3. Looping(w)' /\ Moved(w, e)'
      BY <3>1, <3>2 DEF Looping, Busy, Moved
    <3> QED BY <3>1, <3>2, <3>3 DEF Pending
  <2> QED BY <1>1, <2>1, <2>2 DEF Pending
<1>2. ASSUME NEW c \in Customers PROVE Contents'[c] = Contents[c]
  <2>1. CASE c \in torn
    BY <2>1, TornSeen
  <2>2. CASE c \notin torn /\ \A d \in carts : d.cust # c
    <3>1. Contents[c] = <<>>
      BY <2>2, SeenOne
    <3>2. Contents'[c] = <<>>
      BY <2>2, SeenNext DEF SeenFacts
    <3> QED BY <3>1, <3>2
  <2>3. CASE c \notin torn /\ \E d \in carts : d.cust = c
    <3>1. PICK d \in carts : d.cust = c
      BY <2>3
    <3>2. PICK n : Pending(c, n)
      BY <2>3, SeenOne
    <3>3. Contents[c] = LinesOf(d.refs, Len(d.refs) - n, items)
      BY <2>3, <3>1, <3>2, SeenOne
    <3>4. Pending(c, n)'
      BY <1>1, <3>2
    <3>5. Contents'[c] = LinesOf(d.refs, Len(d.refs) - n, items')
      BY <2>3, <3>1, <3>4, SeenNext DEF SeenFacts
    <3> QED BY <3>3, <3>5
  <2> QED BY <2>1, <2>2, <2>3
<1> QED BY <1>2, NoChange

\* Every step of the service is one of ShoppingCart, or is not seen.
LEMMA StepSeen ==
    ASSUME MaxLag = 0, PromiseInv, PromiseInv', [Next]_vars
    PROVE  [Promise!Next]_Contents
<1>1. OneCartInv
  BY DEF PromiseInv, LineInv, WholeInv, SharingInv, DrawnInv, ItemIdsInv
<1>2. CASE \E w \in Workers : Handle(w) \/ Abort(w)
  BY <1>2, HandlerSeen
<1>3. CASE \E w \in Workers : \E req \in Requests : Receive(w, req)
  <2>1. PICK w \in Workers, req \in Requests : Receive(w, req)
    BY <1>3
  <2>2. ~Looping(w)
    BY <2>1 DEF Receive, Looping
  <2>3. ~Looping(w)'
    <3>1. worker'[w].req = req /\ worker'[w].todo = Script(req.op)
      BY <1>1, <2>1, ReceiveShape
    <3>2. req.op = "merge" => Goal(worker'[w]) = "mergeItems"
      BY <3>1, Spelled DEF Script, Goal
    <3> QED BY <3>1, <3>2 DEF Looping
  <2>4. Contents' = Contents
    <3>1. UNCHANGED <<carts, items, torn>> /\ \A v \in Workers \ {w} : worker'[v] = worker[v]
      BY <1>1, <2>1, ReceiveShape
    <3> QED BY <2>2, <2>3, <3>1, QuietSeen
  <2> QED BY <2>4
<1>4. CASE CatchUp
  BY <1>1, <1>4 DEF CatchUp, OneCartInv
<1>5. CASE UNCHANGED vars
  <2>1. Contents' = Contents
    BY <1>5, QuietSeen DEF vars
  <2> QED BY <2>1
<1> QED BY <1>2, <1>3, <1>4, <1>5 DEF Next, Quiesce

\* To begin with every cart is empty.
LEMMA EmptySeen ==
    ASSUME Init
    PROVE  Promise!Init
<1>1. PromiseInv
  BY PromiseInvInit
<1>2. \A c \in Customers : Contents[c] = <<>>
  BY <1>1, SeenOne DEF Init
<1> QED BY <1>2, ContentsNext DEF Promise!Init, ContentsAre

\* The requests of one customer following one another on a replica that does
\* not lag, the service is a ShoppingCart: the many reads and writes of a
\* handler (CartsController, ItemsController) are one step of it or none, a
\* handler that is killed has done all it was asked or nothing, but for a merge.
THEOREM CartsPromised ==
    ASSUME Serial, MaxLag = 0
    PROVE  Spec => PromiseKept
<1>1. ASSUME PromiseInv, [Next]_vars PROVE PromiseInv' /\ [Promise!Next]_Contents
  BY <1>1, PromiseInvStep, StepSeen
<1> QED BY <1>1, PromiseInvInit, EmptySeen, PTL DEF Spec, PromiseKept, Promise!Spec
=============================================================================
