------------------------- MODULE CartsSerialProofs -------------------------
(* With the requests of a customer served one after another and current reads,
   what cart documents refer to: an item document belongs to one cart, no cart
   refers to an item that is gone, and a cart has one line for an item.  Each
   invariant needs the one before: ids are unique, what a thread holds comes
   from the carts it may change, carts share items in merges only, references
   resolve, lines differ. *)
EXTENDS CartsProofs

-----------------------------------------------------------------------------
(* An id is given to one item for ever, and an item document keeps its item *)

\* The item document i is stored, or a handler holds a copy of it.
Known(i) == i \in items \/ \E w \in Workers : Copy(w, i)

ItemIdsInv ==
    /\ OneCartInv
    /\ \A i \in StoredItem : Known(i) => i.id < nextId
    /\ \A i, j \in StoredItem : Known(i) /\ Known(j) /\ i.id = j.id => i.itemId = j.itemId
    /\ \A i, j \in items : i.id = j.id => i = j
    /\ \A d \in carts : \A k \in 1..Len(d.refs) : d.refs[k] < nextId

\* The item of i is known by its id already, or its id is the one handed out now.
Same(i) == \E j \in StoredItem : Known(j) /\ j.id = i.id /\ j.itemId = i.itemId
FreshAs(i, itemId) == i.id = nextId /\ i.itemId = itemId /\ nextId' = nextId + 1

\* The types of what is known of items.
LEMMA KnownType ==
    ASSUME TypeInv
    PROVE  /\ nextId \in Nat \ {0} /\ items \subseteq StoredItem
           /\ \A i \in StoredItem : i.id \in Nat /\ i.id # 0 /\ i.itemId \in Items
           /\ \A d \in carts : d.refs \in Seq(Nat \ {0}) /\ d.id \in Nat
           /\ \A w \in Workers : /\ worker[w].cart.items \in Seq(StoredItem)
                                 /\ worker[w].hand \in Seq(Item)
<1>1. ASSUME NEW w \in Workers
      PROVE worker[w].cart.items \in Seq(StoredItem) /\ worker[w].hand \in Seq(Item)
  BY DEF TypeInv, StateOK, WorkerState
<1> QED BY <1>1 DEF TypeInv, StoreInv, CartDoc, StoredItem, Item

\* The items in a thread's cart and hand are known; one of the hand may have
\* no id yet.
LEMMA CopyKnown ==
    ASSUME TypeInv, NEW w \in Workers
    PROVE  /\ \A k \in 1..Len(worker[w].cart.items) :
                 worker[w].cart.items[k] \in StoredItem /\ Known(worker[w].cart.items[k])
           /\ \A k \in 1..Len(worker[w].hand) :
                 /\ worker[w].hand[k] \in Item /\ Known(worker[w].hand[k])
                 /\ worker[w].hand[k].id # 0 => worker[w].hand[k] \in StoredItem
<1>1. worker[w].cart.items \in Seq(StoredItem) /\ worker[w].hand \in Seq(Item)
  BY KnownType
<1>2. \A k \in 1..Len(worker[w].hand) : worker[w].hand[k] \in Item
  BY <1>1, ElementOfSeq
<1>3. \A k \in 1..Len(worker[w].cart.items) : worker[w].cart.items[k] \in StoredItem
  BY <1>1, ElementOfSeq
<1> QED BY <1>2, <1>3 DEF Known, Copy, StoredItem

\* A step of w that invents no item keeps the ids apart.
LEMMA KnownStep ==
    ASSUME ItemIdsInv, OneCartInv', NEW w \in Workers, NEW itemId,
           \A v \in Workers \ {w} : worker'[v] = worker[v],
           nextId' \in {nextId, nextId + 1},
           \A i \in items' : Same(i) \/ FreshAs(i, itemId),
           \A k \in 1..Len(worker'[w].cart.items) : Same(worker'[w].cart.items[k]),
           \A k \in 1..Len(worker'[w].hand) :
               worker'[w].hand[k].id # 0 =>
                   Same(worker'[w].hand[k]) \/ FreshAs(worker'[w].hand[k], itemId),
           \A i, j \in items' : i.id = j.id => i = j,
           \A d \in carts' : \A k \in 1..Len(d.refs) : d.refs[k] < nextId'
    PROVE  ItemIdsInv'
<1>1. TypeInv /\ nextId \in Nat
  BY KnownType DEF ItemIdsInv, OneCartInv
<1>2. ASSUME NEW i \in StoredItem, Known(i)' PROVE Same(i) \/ FreshAs(i, itemId)
  <2>1. CASE i \in items'
    BY <2>1
  <2>2. CASE \E k \in 1..Len(worker'[w].cart.items) : i = worker'[w].cart.items[k]
    BY <2>2
  <2>3. CASE \E k \in 1..Len(worker'[w].hand) : i = worker'[w].hand[k]
    BY <2>3 DEF StoredItem
  <2>4. CASE \E v \in Workers \ {w} : Copy(v, i)
    BY <2>4 DEF Same, Known
  <2>6. i \in items' \/ Copy(w, i)' \/ \E u \in Workers \ {w} : Copy(u, i)
    BY <1>2 DEF Known, Copy
  <2> QED BY <2>1, <2>2, <2>3, <2>4, <2>6 DEF Copy
<1>3. ASSUME NEW i \in StoredItem, Same(i) PROVE i.id \in Nat /\ i.id < nextId
  BY <1>1, <1>3, KnownType DEF Same, ItemIdsInv
<1>4. ASSUME NEW i \in StoredItem, Known(i)' PROVE i.id < nextId'
  BY <1>1, <1>2, <1>3, <1>4 DEF FreshAs
<1>5. ASSUME NEW i \in StoredItem, NEW j \in StoredItem, Known(i)', Known(j)', i.id = j.id
      PROVE  i.itemId = j.itemId
  <2>1. CASE Same(i) /\ Same(j)
    BY <1>5, <2>1 DEF Same, ItemIdsInv
  <2>2. CASE Same(i) /\ FreshAs(j, itemId)
    <3>1. i.id \in Nat /\ i.id < nextId /\ j.id = nextId
      BY <1>3, <2>2 DEF FreshAs
    <3> QED BY <1>1, <1>5, <3>1
  <2>3. CASE FreshAs(i, itemId) /\ Same(j)
    <3>1. j.id \in Nat /\ j.id < nextId /\ i.id = nextId
      BY <1>3, <2>3 DEF FreshAs
    <3> QED BY <1>1, <1>5, <3>1
  <2>4. CASE FreshAs(i, itemId) /\ FreshAs(j, itemId)
    BY <2>4 DEF FreshAs
  <2> QED BY <1>2, <1>5, <2>1, <2>2, <2>3, <2>4
<1> QED BY <1>4, <1>5 DEF ItemIdsInv

\* The items a handler can hold after a look-up are stored ones.
LEMMA LoadKnown ==
    ASSUME OneCartInv, NEW d \in carts
    PROVE  /\ \A k \in 1..Len(Load(d).items) :
                 /\ Load(d).items[k] \in items
                 /\ \E j \in 1..Len(d.refs) : Load(d).items[k].id = d.refs[j]
           /\ (\A j \in 1..Len(d.refs) : d.refs[j] \in Ids(items)) =>
                 RefsOf(Load(d).items) = d.refs
<1> DEFINE live == Live(d.refs, Ids(items))
<1>1. View.items = items /\ View.carts = carts
  BY DEF OneCartInv, View
<1>2. d.refs \in Seq(Nat \ {0})
  BY KnownType DEF OneCartInv
<1>3. /\ live \in Seq(Nat \ {0})
      /\ \A k \in 1..Len(live) : /\ live[k] \in Ids(items)
                                 /\ \E j \in 1..Len(d.refs) : live[k] = d.refs[j]
      /\ (\A j \in 1..Len(d.refs) : d.refs[j] \in Ids(items)) => live = d.refs
  BY <1>2, LiveRefs
<1>4. Load(d).items = [k \in 1..Len(live) |-> ItemDoc(live[k], items)]
  BY <1>1 DEF Load
<1> HIDE DEF live
<1>5. Len(live) \in Nat
  BY <1>3
<1>6. Len(Load(d).items) = Len(live)
         /\ \A k \in 1..Len(live) : Load(d).items[k] = ItemDoc(live[k], items)
  BY <1>4, <1>5
<1>7. \A k \in 1..Len(live) : ItemDoc(live[k], items) \in items
         /\ ItemDoc(live[k], items).id = live[k]
  BY <1>3, DocOfId
<1>8. RefsOf(Load(d).items) = live
  <2>1. RefsOf(Load(d).items) = [k \in 1..Len(live) |-> live[k]]
    BY <1>6, <1>7 DEF RefsOf
  <2> QED BY <1>3, <2>1
<1>9. \A k \in 1..Len(Load(d).items) :
          /\ Load(d).items[k] \in items
          /\ \E j \in 1..Len(d.refs) : Load(d).items[k].id = d.refs[j]
  <2>1. ASSUME NEW k \in 1..Len(live)
        PROVE  /\ Load(d).items[k] \in items /\ Load(d).items[k].id = live[k]
               /\ \E j \in 1..Len(d.refs) : live[k] = d.refs[j]
    BY <1>3, <1>6, <1>7
  <2> QED BY <1>6, <2>1
<1>10. (\A j \in 1..Len(d.refs) : d.refs[j] \in Ids(items)) => RefsOf(Load(d).items) = d.refs
  BY <1>3, <1>8
<1> QED BY <1>9, <1>10

\* The state w is left in holds nothing but what it is given.
LEMMA KnownMove ==
    ASSUME ItemIdsInv, OneCartInv', NEW w \in Workers, NEW itemId,
           NEW todo, NEW cart, NEW hand, Becomes(w, todo, cart, hand) \/ Ends(w),
           nextId' \in {nextId, nextId + 1},
           \A i \in items' : Same(i) \/ FreshAs(i, itemId),
           \A k \in 1..Len(cart.items) : Same(cart.items[k]),
           \A k \in 1..Len(hand) :
               hand[k].id # 0 => Same(hand[k]) \/ FreshAs(hand[k], itemId),
           \A i, j \in items' : i.id = j.id => i = j,
           \A d \in carts' : \A k \in 1..Len(d.refs) : d.refs[k] < nextId'
    PROVE  ItemIdsInv'
<1>1. \A v \in Workers \ {w} : worker'[v] = worker[v]
  BY DEF Becomes, Ends
<1>2. \/ worker'[w].cart.items = <<>> /\ worker'[w].hand = <<>>
      \/ worker'[w].cart = cart /\ worker'[w].hand = hand
  BY DEF Becomes, Ends, Free, NoCart
<1>3. \A k \in 1..Len(worker'[w].cart.items) : Same(worker'[w].cart.items[k])
  BY <1>2
<1>4. \A k \in 1..Len(worker'[w].hand) :
          worker'[w].hand[k].id # 0 =>
              Same(worker'[w].hand[k]) \/ FreshAs(worker'[w].hand[k], itemId)
  BY <1>2
<1> QED BY <1>1, <1>3, <1>4, KnownStep

\* A step keeps the ids when each item in the collection and in the thread's
\* copies was known before or has the next id.
LEMMA KnownCopies ==
    ASSUME ItemIdsInv, OneCartInv', NEW w \in Workers,
           NEW todo, NEW cart, NEW hand, Becomes(w, todo, cart, hand),
           nextId' \in {nextId, nextId + 1},
           \A i \in items' : Same(i),
           \A k \in 1..Len(cart.items) : Same(cart.items[k]),
           \A k \in 1..Len(hand) : hand[k].id # 0 => Same(hand[k]),
           \A i, j \in items' : i.id = j.id => i = j,
           \A d \in carts' : \A k \in 1..Len(d.refs) : d.refs[k] < nextId'
    PROVE  ItemIdsInv'
  BY KnownMove

\* What is known is known by its id.
LEMMA KnownSame ==
    ASSUME TypeInv, NEW w \in Workers
    PROVE  /\ \A i \in items : Same(i)
           /\ \A k \in 1..Len(worker[w].cart.items) : Same(worker[w].cart.items[k])
           /\ \A k \in 1..Len(worker[w].hand) :
                 worker[w].hand[k].id # 0 => Same(worker[w].hand[k])
           /\ \A i \in items : \A j : j.id = i.id /\ j.itemId = i.itemId => Same(j)
<1>1. items \subseteq StoredItem
  BY KnownType
<1> QED BY <1>1, CopyKnown DEF Same, Known

\* The steps that write nothing.
LEMMA KnownPrivate ==
    ASSUME ItemIdsInv, OneCartInv', NEW w \in Workers,
           UNCHANGED <<carts, items, nextId>>,
           NEW todo, NEW cart, NEW hand, Becomes(w, todo, cart, hand) \/ Ends(w),
           \A k \in 1..Len(cart.items) : Same(cart.items[k]),
           \A k \in 1..Len(hand) : hand[k].id # 0 => Same(hand[k])
    PROVE  ItemIdsInv'
<1>1. TypeInv
  BY DEF ItemIdsInv, OneCartInv
<1>2. \A i \in items' : Same(i)
  BY <1>1, KnownSame
<1>3. /\ \A i, j \in items' : i.id = j.id => i = j
      /\ \A d \in carts' : \A k \in 1..Len(d.refs) : d.refs[k] < nextId'
  BY DEF ItemIdsInv
<1> QED BY <1>2, <1>3, KnownMove

\* A look-up copies items that are in the collection.
LEMMA FindKnown ==
    ASSUME ItemIdsInv, OneCartInv', NEW w \in Workers, Find(w)
    PROVE  ItemIdsInv'
<1> DEFINE st == worker[w]
<1>1. TypeInv /\ OneCartInv
  BY DEF ItemIdsInv, OneCartInv
<1>2. UNCHANGED <<carts, items, nextId>>
  BY <1>1, FindShape
<1>3. \A k \in 1..Len(st.hand) : st.hand[k].id # 0 => Same(st.hand[k])
  BY <1>1, KnownSame
<1>4. ASSUME NEW d \in carts, Becomes(w, Tail(st.todo), Load(d), st.hand)
      PROVE  ItemIdsInv'
  <2>1. \A k \in 1..Len(Load(d).items) : Same(Load(d).items[k])
    BY <1>1, LoadKnown, KnownSame
  <2> QED BY <1>2, <1>3, <1>4, <2>1, KnownPrivate
<1>5. ASSUME NEW c, Becomes(w, <<"create">> \o st.todo,
                            [id |-> 0, cust |-> c, items |-> <<>>], st.hand)
      PROVE  ItemIdsInv'
  <2>1. \A k \in 1..Len(<<>>) : Same(<<>>[k])
    OBVIOUS
  <2> DEFINE cart == [id |-> 0, cust |-> c, items |-> <<>>]
  <2>2. \A k \in 1..Len(cart.items) : Same(cart.items[k])
    BY <2>1
  <2> HIDE DEF cart
  <2> QED BY <1>2, <1>3, <1>5, <2>2, KnownPrivate DEF cart
<1> QED BY <1>1, <1>4, <1>5, FindShape

\* A step that only decides what comes next copies nothing new.
LEMMA DecideKnown ==
    ASSUME ItemIdsInv, OneCartInv', NEW w \in Workers,
           HasItem(w) \/ FindItem(w) \/ Increment(w) \/ MergeItems(w) \/ Abort(w)
    PROVE  ItemIdsInv'
<1> DEFINE st == worker[w]
<1>1. TypeInv /\ OneCartInv /\ st.cart.items \in Seq(StoredItem)
  BY KnownType DEF ItemIdsInv, OneCartInv
<1>2. /\ \A k \in 1..Len(st.cart.items) : Same(st.cart.items[k])
      /\ \A k \in 1..Len(st.hand) : st.hand[k].id # 0 => Same(st.hand[k])
  BY <1>1, KnownSame
<1>3. CASE HasItem(w) \/ Increment(w) \/ Abort(w)
  <2>1. UNCHANGED <<carts, items, nextId>>
    BY <1>1, <1>3, HasItemShape, IncrementShape, AbortShape
  <2>2. Ends(w) \/ \E todo : Becomes(w, todo, st.cart, st.hand)
    BY <1>1, <1>3, HasItemShape, IncrementShape, AbortShape
  <2> QED BY <1>2, <2>1, <2>2, KnownPrivate
<1>4. CASE MergeItems(w)
  <2>1. UNCHANGED <<carts, items, nextId>>
    BY <1>1, <1>4, MergeItemsShape
  <2>2. Becomes(w, MergeRest(st.cart.items), st.cart, st.cart.items)
    BY <1>1, <1>4, MergeItemsShape
  <2> QED BY <1>2, <2>1, <2>2, KnownPrivate
<1>5. CASE FindItem(w)
  <2>1. UNCHANGED <<carts, items, nextId>>
    BY <1>1, <1>5, FindItemShape
  <2>2. CASE Ends(w)
    BY <1>2, <2>1, <2>2, KnownPrivate
  <2>3. CASE Wanted(w) # {} /\ Becomes(w, Tail(st.todo), st.cart, <<st.cart.items[FirstWanted(w)]>>)
    <3> DEFINE hand == <<st.cart.items[FirstWanted(w)]>>
    <3>1. FirstWanted(w) \in 1..Len(st.cart.items)
      BY <1>1, <2>3, FirstWantedIn
    <3>2. Len(hand) = 1 /\ hand[1] = st.cart.items[FirstWanted(w)]
      OBVIOUS
    <3> HIDE DEF hand
    <3>3. \A k \in 1..Len(hand) : hand[k].id # 0 => Same(hand[k])
      BY <1>2, <3>1, <3>2
    <3>4. Becomes(w, Tail(st.todo), st.cart, hand)
      BY <2>3 DEF hand
    <3> QED BY <1>2, <2>1, <3>3, <3>4, KnownPrivate
  <2> QED BY <1>1, <1>5, <2>2, <2>3, FindItemShape
<1> QED BY <1>3, <1>4, <1>5

\* The steps that save or destroy an item document.
LEMMA ItemKnown ==
    ASSUME MaxLag = 0, ItemIdsInv, OneCartInv', NEW w \in Workers,
           SaveItem(w) \/ SaveQuantity(w) \/ DestroyItem(w)
    PROVE  ItemIdsInv'
<1> DEFINE st == worker[w]
<1>1. /\ TypeInv /\ OneCartInv /\ nextId \in Nat
      /\ st.cart.items \in Seq(StoredItem) /\ st.hand \in Seq(Item)
      /\ items \subseteq StoredItem
  BY KnownType DEF ItemIdsInv, OneCartInv
<1>2. /\ \A k \in 1..Len(st.cart.items) : Same(st.cart.items[k])
      /\ \A k \in 1..Len(st.hand) : st.hand[k].id # 0 => Same(st.hand[k])
      /\ \A i \in items : Same(i)
  BY <1>1, KnownSame
<1>3. \A d \in carts : \A k \in 1..Len(d.refs) : d.refs[k] < nextId
  BY DEF ItemIdsInv
<1>4. \A d \in carts : \A k \in 1..Len(d.refs) : d.refs[k] < nextId + 1
  <2>1. \A d \in carts : d.refs \in Seq(Nat \ {0})
    BY <1>1, KnownType
  <2>2. ASSUME NEW d \in carts, NEW k \in 1..Len(d.refs) PROVE d.refs[k] < nextId + 1
    <3>1. d.refs[k] \in Nat /\ d.refs[k] < nextId
      BY <1>3, <2>1
    <3> QED BY <1>1, <3>1
  <2> QED BY <2>2
<1>5. \A i, j \in items : i.id = j.id => i = j
  BY DEF ItemIdsInv
<1>6. CASE SaveItem(w)
  <2>1. PICK item \in StoredItem :
               /\ item.itemId = st.hand[1].itemId
               /\ IF st.hand[1].id = 0
                  THEN item.id = nextId /\ nextId' = nextId + 1
                  ELSE item.id = st.hand[1].id /\ nextId' = nextId
               /\ items' = Upsert(item, items)
               /\ UNCHANGED <<carts, torn>>
               /\ Becomes(w, Tail(st.todo), st.cart, <<item>>)
    BY <1>1, <1>6, SaveItemShape
  <2>2. Same(item) \/ FreshAs(item, item.itemId)
    <3>1. CASE st.hand[1].id = 0
      BY <2>1, <3>1 DEF FreshAs
    <3>2. CASE st.hand[1].id # 0
      <4>1. st.hand # <<>>
        BY <1>1, <1>6, SaveItemShape
      <4>2. 1 \in 1..Len(st.hand)
        BY <1>1, <4>1
      <4>3. Same(st.hand[1])
        BY <1>2, <3>2, <4>2
      <4> QED BY <2>1, <3>2, <4>3 DEF Same
    <3> QED BY <3>1, <3>2
  <2>3. \A i \in items' : i = item \/ (i \in items /\ i.id # item.id)
    BY <2>1 DEF Upsert
  <2>4. \A i \in items' : Same(i) \/ FreshAs(i, item.itemId)
    BY <1>2, <2>2, <2>3
  <2>5. \A i, j \in items' : i.id = j.id => i = j
    BY <1>5, <2>3
  <2>6. \A d \in carts' : \A k \in 1..Len(d.refs) : d.refs[k] < nextId'
    BY <1>3, <1>4, <2>1
  <2> DEFINE hand == <<item>>
  <2>7. \A k \in 1..Len(hand) : hand[k].id # 0 => Same(hand[k]) \/ FreshAs(hand[k], item.itemId)
    <3>1. Len(hand) = 1 /\ hand[1] = item
      OBVIOUS
    <3> HIDE DEF hand
    <3> QED BY <2>2, <3>1
  <2>8. Becomes(w, Tail(st.todo), st.cart, hand) /\ nextId' \in {nextId, nextId + 1}
    BY <2>1
  <2> HIDE DEF hand
  <2> QED BY <1>2, <2>4, <2>5, <2>6, <2>7, <2>8, KnownMove
<1>7. CASE SaveQuantity(w)
  <2>1. PICK item \in StoredItem :
                  /\ item.id = st.hand[1].id /\ item.itemId = st.hand[1].itemId
                  /\ items' = Upsert(item, items)
    BY <1>1, <1>7, SaveQuantityShape
  <2>2. st.hand # <<>> /\ UNCHANGED <<carts, nextId, torn>> /\ Ends(w)
    BY <1>1, <1>7, SaveQuantityShape
  <2>3. Same(item)
    <3>1. 1 \in 1..Len(st.hand) /\ item.id # 0
      BY <1>1, <2>2 DEF StoredItem
    <3>2. Same(st.hand[1])
      BY <1>2, <2>1, <3>1
    <3> QED BY <2>1, <3>2 DEF Same
  <2>4. \A i \in items' : i = item \/ (i \in items /\ i.id # item.id)
    BY <2>1 DEF Upsert
  <2>5. \A i \in items' : Same(i)
    BY <1>2, <2>3, <2>4
  <2>6. \A i, j \in items' : i.id = j.id => i = j
    BY <1>5, <2>4
  <2> QED BY <1>2, <1>3, <2>2, <2>5, <2>6, KnownMove
<1>8. CASE DestroyItem(w)
  <2>1. items' \subseteq items /\ UNCHANGED <<carts, nextId>> /\ Ends(w)
    BY <1>1, <1>8, DestroyItemShape
  <2> QED BY <1>2, <1>3, <1>5, <2>1, KnownMove
<1> QED BY <1>6, <1>7, <1>8

\* The references of a cart are the ids of its items.
LEMMA RefsFacts ==
    ASSUME NEW its \in Seq(StoredItem)
    PROVE  /\ RefsOf(its) \in Seq(Nat) /\ Len(RefsOf(its)) = Len(its)
           /\ \A k \in 1..Len(its) : RefsOf(its)[k] = its[k].id
  BY DEF RefsOf, StoredItem, Item

\* References to known items are below the next id.
LEMMA RefsBelow ==
    ASSUME NEW its \in Seq(StoredItem), NEW id \in Nat, NEW n \in Nat, id < n,
           \A k \in 1..Len(its) : its[k].id < n
    PROVE  /\ Append(RefsOf(its), id) \in Seq(Nat)
           /\ \A k \in 1..Len(Append(RefsOf(its), id)) : Append(RefsOf(its), id)[k] < n
<1>1. PICK r : r = RefsOf(its)
  OBVIOUS
<1>2. r \in Seq(Nat) /\ Len(r) = Len(its) /\ \A k \in 1..Len(its) : r[k] < n
  BY <1>1, RefsFacts
<1>3. Append(r, id) \in Seq(Nat) /\ \A k \in 1..Len(Append(r, id)) : Append(r, id)[k] < n
  BY <1>2
<1> QED BY <1>1, <1>3

\* The steps that save or delete a cart document.
LEMMA CartKnown ==
    ASSUME MaxLag = 0, ItemIdsInv, OneCartInv', NEW w \in Workers,
           Create(w) \/ AddItem(w) \/ RemoveItem(w) \/ MergeItem(w) \/ DeleteCart(w)
    PROVE  ItemIdsInv'
<1> DEFINE st == worker[w]
<1>1. /\ TypeInv /\ OneCartInv /\ nextId \in Nat
      /\ st.cart.items \in Seq(StoredItem) /\ st.hand \in Seq(Item)
  BY KnownType DEF ItemIdsInv, OneCartInv
<1>2. /\ \A k \in 1..Len(st.cart.items) : Same(st.cart.items[k])
      /\ \A k \in 1..Len(st.hand) : st.hand[k].id # 0 => Same(st.hand[k])
      /\ \A i \in items : Same(i)
  BY <1>1, KnownSame
<1>3. \A d \in carts : \A k \in 1..Len(d.refs) : d.refs[k] \in Nat /\ d.refs[k] < nextId
  BY <1>1, KnownType, ElementOfSeq DEF ItemIdsInv
<1>4. \A i, j \in items : i.id = j.id => i = j
  BY DEF ItemIdsInv
<1>5. \A i \in StoredItem : Same(i) => i.id \in Nat /\ i.id < nextId
  BY <1>1, KnownType DEF Same, ItemIdsInv
<1>6. /\ \A k \in 1..Len(st.cart.items) : st.cart.items[k].id < nextId
      /\ \A k \in 1..Len(st.hand) : st.hand[k] \in StoredItem => st.hand[k].id < nextId
  <2>1. \A k \in 1..Len(st.cart.items) : st.cart.items[k] \in StoredItem
    BY <1>1, ElementOfSeq
  <2>2. \A i \in StoredItem : i.id # 0
    BY DEF StoredItem
  <2> QED BY <1>2, <1>5, <2>1, <2>2
\* Saving a cart with references handed out before.
<1>7. ASSUME NEW refs \in Seq(Nat), \A k \in 1..Len(refs) : refs[k] < nextId,
             NEW old, Saves(w, old, refs)
      PROVE  /\ \A d \in carts' : \A k \in 1..Len(d.refs) : d.refs[k] < nextId'
             /\ UNCHANGED <<items, nextId>>
  BY <1>3, <1>7 DEF Saves
<1>8. CASE Create(w)
  <2>1. /\ carts' = carts \cup {[id |-> nextId, cust |-> st.cart.cust, refs |-> <<>>]}
        /\ nextId' = nextId + 1 /\ items' = items
        /\ Becomes(w, Tail(st.todo), NoCart, st.hand)
    BY <1>1, <1>8, CreateShape
  <2>2. \A d \in carts' : \A k \in 1..Len(d.refs) : d.refs[k] < nextId'
    <3>1. \A d \in carts : \A k \in 1..Len(d.refs) : d.refs[k] < nextId + 1
      BY <1>1, <1>3
    <3>2. Len(<<>>) = 0
      OBVIOUS
    <3> QED BY <2>1, <3>1, <3>2
  <2>3. \A k \in 1..Len(NoCart.items) : Same(NoCart.items[k])
    BY DEF NoCart
  <2>4. /\ \A i \in items' : Same(i)
        /\ \A i, j \in items' : i.id = j.id => i = j
        /\ nextId' \in {nextId, nextId + 1}
    BY <1>2, <1>4, <2>1
  <2>5. PICK cart, todo : cart = NoCart /\ todo = Tail(st.todo)
    OBVIOUS
  <2>6. Becomes(w, todo, cart, st.hand) /\ \A k \in 1..Len(cart.items) : Same(cart.items[k])
    BY <2>1, <2>3, <2>5
  <2> QED BY <1>2, <2>2, <2>4, <2>6, KnownCopies
<1>9. CASE AddItem(w)
  <2> DEFINE refs == Append(RefsOf(st.cart.items), st.hand[1].id)
  <2>1. PICK old \in carts : Saves(w, old, refs)
    BY <1>1, <1>9, AddItemShape
  <2>2. st.hand # <<>> /\ st.hand[1] \in StoredItem /\ Ends(w)
    BY <1>1, <1>9, AddItemShape
  <2>3. st.hand[1].id < nextId /\ st.hand[1].id \in Nat
    BY <1>1, <1>6, <2>2, KnownType
  <2>4. refs \in Seq(Nat) /\ \A k \in 1..Len(refs) : refs[k] < nextId
    BY <1>1, <1>6, <2>3, RefsBelow
  <2> HIDE DEF refs
  <2>5. /\ \A d \in carts' : \A k \in 1..Len(d.refs) : d.refs[k] < nextId'
        /\ UNCHANGED <<items, nextId>>
    BY <1>7, <2>1, <2>4
  <2> QED BY <1>2, <1>4, <2>2, <2>5, KnownMove
<1>10. CASE MergeItem(w)
  <2> DEFINE refs == Append(RefsOf(st.cart.items), Head(st.hand).id)
  <2>1. PICK old \in carts : Saves(w, old, refs)
    BY <1>1, <1>10, MergeItemShape
  <2>2. /\ st.hand # <<>> /\ st.hand \in Seq(StoredItem)
        /\ Becomes(w, MergeRest(Tail(st.hand)), st.cart, Tail(st.hand))
    BY <1>1, <1>10, MergeItemShape
  <2>3. /\ Head(st.hand) = st.hand[1] /\ st.hand[1] \in StoredItem /\ 1 \in 1..Len(st.hand)
        /\ Len(Tail(st.hand)) = Len(st.hand) - 1 /\ Len(st.hand) \in Nat
        /\ \A k \in 1..Len(st.hand) - 1 : Tail(st.hand)[k] = st.hand[k + 1]
    BY <2>2
  <2>4. Head(st.hand).id < nextId /\ Head(st.hand).id \in Nat
    BY <1>1, <1>6, <2>3, KnownType
  <2>5. refs \in Seq(Nat) /\ \A k \in 1..Len(refs) : refs[k] < nextId
    BY <1>1, <1>6, <2>4, RefsBelow
  <2> HIDE DEF refs
  <2>6. /\ \A d \in carts' : \A k \in 1..Len(d.refs) : d.refs[k] < nextId'
        /\ UNCHANGED <<items, nextId>>
    BY <1>7, <2>1, <2>5
  <2>7. \A k \in 1..Len(Tail(st.hand)) : Tail(st.hand)[k].id # 0 => Same(Tail(st.hand)[k])
    <3>1. ASSUME NEW k \in 1..Len(Tail(st.hand))
          PROVE  k + 1 \in 1..Len(st.hand) /\ Tail(st.hand)[k] = st.hand[k + 1]
      BY <2>3
    <3> QED BY <1>2, <3>1
  <2>8. /\ \A i \in items' : Same(i)
        /\ \A i, j \in items' : i.id = j.id => i = j
        /\ nextId' \in {nextId, nextId + 1}
    BY <1>2, <1>4, <2>6
  <2>9. PICK left, todo : left = Tail(st.hand) /\ todo = MergeRest(left)
    OBVIOUS
  <2>10. /\ Becomes(w, todo, st.cart, left)
         /\ \A k \in 1..Len(left) : left[k].id # 0 => Same(left[k])
    BY <2>2, <2>7, <2>9
  <2> QED BY <1>2, <2>6, <2>8, <2>10, KnownCopies
<1>11. CASE RemoveItem(w)
  <2>1. PICK old \in carts, newItems \in Seq(StoredItem) :
                  /\ Saves(w, old, RefsOf(newItems))
                  /\ newItems = IF Wanted(w) = {} THEN st.cart.items
                                ELSE RemoveAt(st.cart.items, FirstWanted(w))
    BY <1>1, <1>11, RemoveItemShape
  <2>2. Becomes(w, Tail(st.todo), st.cart, st.hand)
    BY <1>1, <1>11, RemoveItemShape
  <2>3. \A k \in 1..Len(newItems) : newItems[k].id < nextId
    <3>1. CASE Wanted(w) = {}
      BY <1>6, <2>1, <3>1
    <3>2. CASE Wanted(w) # {}
      <4>1. PICK n \in 1..Len(st.cart.items) : newItems = RemoveAt(st.cart.items, n)
        BY <1>1, <2>1, <3>2, FirstWantedIn
      <4>2. /\ Len(newItems) = Len(st.cart.items) - 1 /\ Len(st.cart.items) \in Nat
            /\ \A k \in 1..Len(st.cart.items) - 1 :
                   newItems[k] = st.cart.items[k] \/ newItems[k] = st.cart.items[k + 1]
        <5>1. PICK its : its = st.cart.items
          OBVIOUS
        <5>2. its \in Seq(StoredItem) /\ n \in 1..Len(its) /\ newItems = RemoveAt(its, n)
          BY <1>1, <4>1, <5>1
        <5>3. /\ Len(newItems) = Len(its) - 1
              /\ \A k \in 1..Len(its) - 1 : newItems[k] = IF k < n THEN its[k] ELSE its[k + 1]
          BY <5>2, RemoveAtFacts
        <5> QED BY <5>1, <5>2, <5>3
      <4>3. ASSUME NEW k \in 1..Len(newItems) PROVE newItems[k].id < nextId
        <5>1. k \in 1..Len(st.cart.items) /\ k + 1 \in 1..Len(st.cart.items)
              /\ k \in 1..Len(st.cart.items) - 1
          BY <4>2
        <5> QED BY <1>6, <4>2, <5>1
      <4> QED BY <4>3
    <3> QED BY <3>1, <3>2
  <2>4. RefsOf(newItems) \in Seq(Nat)
           /\ \A k \in 1..Len(RefsOf(newItems)) : RefsOf(newItems)[k] < nextId
    BY <2>3, RefsFacts
  <2>5. /\ \A d \in carts' : \A k \in 1..Len(d.refs) : d.refs[k] < nextId'
        /\ UNCHANGED <<items, nextId>>
    BY <1>7, <2>1, <2>4
  <2> QED BY <1>2, <1>4, <2>2, <2>5, KnownMove
<1>12. CASE DeleteCart(w)
  <2>1. carts' \subseteq carts /\ UNCHANGED <<items, nextId>> /\ Ends(w)
    BY <1>1, <1>12, DeleteCartShape
  <2> QED BY <1>2, <1>3, <1>4, <2>1, KnownMove
<1> QED BY <1>8, <1>9, <1>10, <1>11, <1>12

\* A request brings an item without an id.
LEMMA ReceiveKnown ==
    ASSUME ItemIdsInv, OneCartInv', NEW w \in Workers, NEW req \in Requests, Receive(w, req)
    PROVE  ItemIdsInv'
<1>1. TypeInv /\ OneCartInv
  BY DEF ItemIdsInv, OneCartInv
<1>2. /\ UNCHANGED <<carts, items, nextId>>
      /\ \A v \in Workers \ {w} : worker'[v] = worker[v]
      /\ worker'[w].cart = NoCart
      /\ req.op = "add" => worker'[w].hand = <<[id |-> 0, itemId |-> req.itemId, qty |-> 1]>>
      /\ req.op # "add" => worker'[w].hand = <<>>
  BY <1>1, ReceiveShape
<1>3. \A k \in 1..Len(worker'[w].cart.items) : Same(worker'[w].cart.items[k])
  BY <1>2 DEF NoCart
<1>4. \A k \in 1..Len(worker'[w].hand) : worker'[w].hand[k].id = 0
  BY <1>2
<1>5. \A i \in items' : Same(i)
  BY <1>1, <1>2, KnownSame
<1>6. /\ \A i, j \in items' : i.id = j.id => i = j
      /\ \A d \in carts' : \A k \in 1..Len(d.refs) : d.refs[k] < nextId'
  BY <1>2 DEF ItemIdsInv
<1> QED BY <1>2, <1>3, <1>4, <1>5, <1>6, KnownStep

\* Every step keeps ids and items together.
LEMMA ItemIdsStep ==
    ASSUME Serial, MaxLag = 0, ItemIdsInv, [Next]_vars
    PROVE  ItemIdsInv'
<1>1. OneCartInv /\ OneCartInv'
  BY OneCartStep DEF ItemIdsInv
<1>2. ASSUME NEW w \in Workers, Handle(w) \/ Abort(w) PROVE ItemIdsInv'
  BY <1>1, <1>2, FindKnown, DecideKnown, ItemKnown, CartKnown DEF Handle
<1>3. ASSUME NEW w \in Workers, NEW req \in Requests, Receive(w, req) PROVE ItemIdsInv'
  BY <1>1, <1>3, ReceiveKnown
<1>4. CASE UNCHANGED vars \/ Quiesce
  <2>1. UNCHANGED <<carts, items, nextId, worker>>
    BY <1>4 DEF Quiesce, vars
  <2> QED
    BY <1>1, <2>1 DEF ItemIdsInv, Known, Copy
<1>5. CASE CatchUp
  BY <1>1, <1>5 DEF CatchUp, OneCartInv
<1> QED BY <1>2, <1>3, <1>4, <1>5 DEF Next

\* At the start no id was given out.
LEMMA ItemIdsInit ==
    ASSUME Init
    PROVE  ItemIdsInv
<1>1. carts = {} /\ items = {} /\ OneCartInv
  BY OneCartInit DEF Init
<1>2. \A i : ~Known(i)
  BY DEF Known, Copy, Init, Free, NoCart
<1> QED BY <1>1, <1>2 DEF ItemIdsInv

-----------------------------------------------------------------------------
(* How the handlers of the three operations that carry items go on *)

\* The item in the hand is a new one, that no cart has yet.
Adding(w) ==
    Busy(w) /\ worker[w].req.op = "add" /\ Goal(worker[w]) \in {"hasItem", "addItem"}

\* The items in the hand are still to be added to the customer's cart.
Looping(w) == Busy(w) /\ worker[w].req.op = "merge" /\ Goal(worker[w]) # "mergeItems"

\* The item in the hand is to be removed; Dropped: the cart has let go of it.
Removing(w) == Busy(w) /\ worker[w].req.op = "remove" /\ worker[w].hand # <<>>
Dropped(w) == Head(worker[w].todo) = "destroyItem"

GoesOn(w) ==
    /\ At(w, LoadedSteps)' => Find(w) \/ SaveItem(w)
    /\ Adding(w)' => Adding(w) /\ (Find(w) \/ Create(w) \/ HasItem(w) \/ SaveItem(w))
    /\ Looping(w)' => (Looping(w) /\ (Find(w) \/ Create(w) \/ MergeItem(w))) \/ MergeItems(w)
    /\ Looping(w) => Looping(w)' \/ DeleteCart(w) \/ Abort(w)
    /\ Removing(w)' =>
         /\ (Removing(w) /\ ~Dropped(w) /\ (Find(w) \/ Create(w) \/ RemoveItem(w))) \/ FindItem(w)
         /\ Dropped(w)' => RemoveItem(w)

\* An ended handler does none of this.
LEMMA EndedGoesOn ==
    ASSUME NEW w \in Workers, Ends(w), ~Looping(w) \/ DeleteCart(w) \/ Abort(w)
    PROVE  GoesOn(w)
<1>1. ~Busy(w)'
  BY DEF Ends, Free, Busy
<1> QED BY <1>1 DEF GoesOn, At, Adding, Looping, Removing

\* The steps of the same script leave the same goal.
LEMMA SameGoal ==
    ASSUME NEW t \in Seq(StepNames), t # <<>>
    PROVE  /\ Tail(t) # <<>> => Tail(t)[Len(Tail(t))] = t[Len(t)]
           /\ Tail(t) = <<>> => t[Len(t)] = Head(t)
           /\ (<<"create">> \o t)[Len(<<"create">> \o t)] = t[Len(t)]
           /\ Head(<<"create">> \o t) = "create" /\ <<"create">> \o t # <<>>
<1>1. Tail(t) # <<>> => Tail(t)[Len(Tail(t))] = t[Len(t)]
  OBVIOUS
<1>2. Tail(t) = <<>> => t[Len(t)] = Head(t)
  <2>0. Len(Tail(t)) = Len(t) - 1 /\ Len(t) \in Nat /\ Len(t) > 0
    OBVIOUS
  <2>1. ASSUME Tail(t) = <<>> PROVE Len(t) = 1
    <3>1. PICK u : u = Tail(t)
      OBVIOUS
    <3>2. Len(u) = 0
      BY <2>1, <3>1
    <3> QED BY <2>0, <3>1, <3>2
  <2>2. Head(t) = t[1]
    OBVIOUS
  <2> QED BY <2>1, <2>2
<1>3. /\ <<"create">> \o t # <<>> /\ Head(<<"create">> \o t) = "create"
      /\ (<<"create">> \o t)[Len(<<"create">> \o t)] = t[Len(t)]
  OBVIOUS
<1> QED BY <1>1, <1>2, <1>3

\* A look-up keeps the hand and the end the handler goes to.
LEMMA LookGoesOn ==
    ASSUME MaxLag = 0, OneCartInv, NEW w \in Workers, Find(w) \/ Create(w)
    PROVE  /\ GoesOn(w)
           /\ Busy(w)' => /\ worker'[w].hand = worker[w].hand
                          /\ Goal(worker'[w]) = Goal(worker[w])
<1> DEFINE st == worker[w]
<1>1. PICK step : step \in {"value", "session", "create"} /\ Does(w, step)
  BY DEF Find, Create
<1>2. /\ TypeInv /\ Busy(w) /\ st.todo \in Seq(StepNames) /\ st.todo # <<>>
      /\ Head(st.todo) = step /\ st.req \in Requests
      /\ step # "create" =>
           PhaseOK(step, st.req.op, Tail(st.todo), Goal(st), st.hand)
  BY <1>1, Working
<1>3. PICK todo, cart : Becomes(w, todo, cart, st.hand)
              /\ (todo = Tail(st.todo) \/ todo = <<"create">> \o st.todo)
                        /\ (step = "create" => todo = Tail(st.todo) /\ Create(w) /\ todo # <<>>
                                               /\ Head(todo) \in {"value", "session"})
                        /\ (step # "create" => Find(w))
  <2>1. CASE Find(w)
    <3>1. step # "create"
      BY <1>2, <2>1 DEF Find, Does
    <3> QED BY <2>1, <3>1, FindShape
  <2>2. CASE Create(w)
    <3>1. step = "create"
      BY <1>2, <2>2 DEF Create, Does
    <3> QED BY <2>2, <3>1, CreateShape
  <2> QED BY <2>1, <2>2
<1>4. todo # <<>> => todo[Len(todo)] = Goal(st)
  BY <1>2, <1>3, SameGoal DEF Goal
<1>5. CASE todo = <<>>
  <2>1. step # "create" /\ Tail(st.todo) = <<>>
    BY <1>2, <1>3, <1>5, SameGoal
  <2>2. Goal(st) = step
    BY <1>2, <2>1, SameGoal DEF Goal
  <2>3. ~Looping(w)
    BY <1>1, <1>2, <2>1, <2>2 DEF Looping, PhaseOK
  <2>4. Ends(w)
    BY <1>3, <1>5 DEF Becomes, Ends
  <2>5. ~Busy(w)'
    BY <2>4 DEF Ends, Free, Busy
  <2> QED BY <2>3, <2>4, <2>5, EndedGoesOn
<1>6. CASE todo # <<>>
  <2>1. /\ worker'[w].todo = todo /\ worker'[w].req = st.req /\ worker'[w].hand = st.hand
        /\ Goal(worker'[w]) = Goal(st)
    BY <1>3, <1>4, <1>6 DEF Becomes, Goal
  <2>2. Busy(w)'
    BY <1>2, <2>1 DEF Busy
  <2>3. At(w, LoadedSteps)' => Find(w)
    BY <1>3, <2>1 DEF At, LoadedSteps
  <2>4. Head(todo) # "destroyItem" /\ ~Dropped(w)
    <3>1. CASE todo = <<"create">> \o st.todo
      BY <1>1, <1>2, <3>1, SameGoal DEF Dropped
    <3>2. CASE todo = Tail(st.todo)
      BY <1>1, <1>2, <1>3, <1>6, <3>2 DEF Dropped, PhaseOK, Unread
    <3> QED BY <1>3, <3>1, <3>2
  <2>5. Find(w) \/ Create(w)
    BY <1>3
  <2> QED BY <1>2, <2>1, <2>2, <2>3, <2>4, <2>5 DEF GoesOn, Adding, Looping, Removing, Dropped
<1> QED BY <1>5, <1>6

\* A step leads where the script says.
LEMMA NextPhase ==
    ASSUME MaxLag = 0, OneCartInv, NEW w \in Workers, Handle(w) \/ Abort(w)
    PROVE  GoesOn(w)
<1> DEFINE st == worker[w]
<1>1. TypeInv
  BY DEF OneCartInv
<1>2. CASE Find(w) \/ Create(w)
  BY <1>2, LookGoesOn
<1>3. CASE HasItem(w)
  <2>1. Does(w, "hasItem")
    BY <1>3 DEF HasItem
  <2>2. st.req.op = "add" /\ Goal(st) = "hasItem" /\ Busy(w)
    BY <2>1, Working DEF PhaseOK
  <2>3. PICK todo \in {PresentScript, AbsentScript} : Becomes(w, todo, st.cart, st.hand)
    BY <1>3, HasItemShape
  <2>4. todo # <<>> /\ Head(todo) = "value"
    BY Spelled
  <2>5. worker'[w].todo = todo /\ worker'[w].req = st.req
    BY <2>3, <2>4 DEF Becomes
  <2> QED BY <1>3, <2>2, <2>4, <2>5 DEF GoesOn, At, LoadedSteps, Adding, Looping, Removing, Busy
<1>4. CASE FindItem(w)
  <2>1. Does(w, "foundItem")
    BY <1>4 DEF FindItem
  <2>2. PhaseOK("foundItem", st.req.op, Tail(st.todo), Goal(st), st.hand)
    BY <2>1, Working
  <2>3. st.req.op # "merge" /\ ~Looping(w)
    BY <2>2 DEF Looping, PhaseOK
  <2>4. CASE Ends(w) \/ Tail(st.todo) = <<>>
    <3>1. Ends(w)
      BY <1>4, <2>4, FindItemShape DEF Becomes, Ends
    <3> QED BY <2>3, <3>1, EndedGoesOn
  <2>5. CASE ~Ends(w) /\ Tail(st.todo) # <<>>
    <3>1. worker'[w].todo = Tail(st.todo) /\ worker'[w].req = st.req
      BY <1>4, <2>5, FindItemShape DEF Becomes
    <3>2. Goal(worker'[w]) = Goal(st)
      BY <2>2, <2>5, <3>1 DEF PhaseOK, Goal
    <3>3. /\ Goal(st) \notin {"hasItem", "addItem"}
          /\ Head(worker'[w].todo) \in {"value", "saveQuantity"}
      BY <2>2, <2>5, <3>1 DEF PhaseOK
    <3> QED
      BY <1>4, <2>3, <3>1, <3>2, <3>3
         DEF GoesOn, At, LoadedSteps, Adding, Looping, Removing, Dropped
  <2> QED BY <2>4, <2>5
<1>5. CASE Increment(w)
  <2>1. Does(w, "increment")
    BY <1>5 DEF Increment
  <2>2. st.req.op = "add" /\ ~Looping(w)
    BY <2>1, Working DEF PhaseOK, Looping
  <2>3. CASE Ends(w)
    BY <2>2, <2>3, EndedGoesOn
  <2>4. CASE Becomes(w, UpdateScript, st.cart, st.hand)
    <3>1. UpdateScript # <<>> /\ Head(UpdateScript) = "value"
             /\ UpdateScript[Len(UpdateScript)] = "saveQuantity"
      BY Spelled
    <3>2. worker'[w].todo = UpdateScript /\ worker'[w].req = st.req
             /\ Goal(worker'[w]) = "saveQuantity"
      BY <2>4, <3>1 DEF Becomes, Goal
    <3> QED
      BY <2>2, <3>1, <3>2 DEF GoesOn, At, LoadedSteps, Adding, Looping, Removing
  <2> QED BY <1>5, <2>3, <2>4, IncrementShape
<1>6. CASE SaveItem(w)
  <2>1. Does(w, "saveItem")
    BY <1>6 DEF SaveItem
  <2>2. PhaseOK("saveItem", st.req.op, Tail(st.todo), Goal(st), st.hand) /\ Busy(w)
    BY <2>1, Working
  <2>3. st.req.op = "add" /\ Goal(st) = "addItem" /\ Tail(st.todo) # <<>>
    BY <2>2 DEF PhaseOK
  <2>4. PICK hand : Becomes(w, Tail(st.todo), st.cart, hand)
    BY <1>6, SaveItemShape
  <2>5. worker'[w].todo = Tail(st.todo) /\ worker'[w].req = st.req
    BY <2>3, <2>4 DEF Becomes
  <2> QED BY <1>6, <2>2, <2>3, <2>5 DEF GoesOn, Adding, Looping, Removing
<1>7. CASE SaveQuantity(w) \/ AddItem(w) \/ DestroyItem(w)
  <2>1. PICK step \in {"saveQuantity", "addItem", "destroyItem"} : Does(w, step)
    BY <1>7 DEF SaveQuantity, AddItem, DestroyItem
  <2>2. st.req.op # "merge" /\ ~Looping(w)
    BY <2>1, Working DEF PhaseOK, Looping
  <2>3. Ends(w)
    BY <1>7, SaveQuantityShape, AddItemShape, DestroyItemShape
  <2> QED BY <2>2, <2>3, EndedGoesOn
<1>8. CASE RemoveItem(w)
  <2>1. Does(w, "removeItem")
    BY <1>8 DEF RemoveItem
  <2>2. /\ st.req.op = "remove" /\ Tail(st.todo) # <<>> /\ Head(Tail(st.todo)) = "destroyItem"
        /\ st.hand # <<>> /\ Busy(w) /\ Head(st.todo) = "removeItem"
    BY <2>1, Working DEF PhaseOK
  <2>3. Becomes(w, Tail(st.todo), st.cart, st.hand)
    BY <1>8, RemoveItemShape
  <2>4. worker'[w].todo = Tail(st.todo) /\ worker'[w].req = st.req
    BY <2>2, <2>3 DEF Becomes
  <2> QED
    BY <1>8, <2>2, <2>4 DEF GoesOn, At, LoadedSteps, Adding, Looping, Removing, Dropped
<1>9. CASE DeleteCart(w) \/ Abort(w)
  <2>1. Ends(w)
    BY <1>9, DeleteCartShape, AbortShape
  <2> QED BY <1>9, <2>1, EndedGoesOn
<1>10. CASE MergeItems(w) \/ MergeItem(w)
  <2>1. PICK hand : /\ Becomes(w, MergeRest(hand), st.cart, hand)
                    /\ st.req.op = "merge" /\ (MergeItem(w) => Goal(st) = "mergeItem")
    BY <1>10, MergeItemsShape, MergeItemShape
  <2>2. worker'[w].todo = MergeRest(hand) /\ worker'[w].req = st.req
    BY <2>1, MergeRestHead DEF Becomes
  <2>3. /\ Head(worker'[w].todo) \in {"session", "value"}
        /\ Goal(worker'[w]) \in {"deleteCart", "mergeItem"}
    BY <2>2, MergeRestHead DEF Goal
  <2>4. PICK step \in {"mergeItems", "mergeItem"} : Does(w, step)
    BY <1>10 DEF MergeItems, MergeItem
  <2>5. Busy(w)
    BY <2>4, Working
  <2> QED
    BY <1>10, <2>1, <2>2, <2>3, <2>5
       DEF GoesOn, At, LoadedSteps, Adding, Looping, Removing, Busy
<1> QED BY <1>2, <1>3, <1>4, <1>5, <1>6, <1>7, <1>8, <1>9, <1>10 DEF Handle

-----------------------------------------------------------------------------
(* What a handler touches, and where the ids it holds come from *)

InCart(d, id) == \E j \in 1..Len(d.refs) : d.refs[j] = id
InHand(w, id) == \E k \in 1..Len(worker[w].hand) : worker[w].hand[k].id = id

\* A step of w leaves the other threads alone, and the other customers' carts.
Frame(w) ==
    /\ Busy(w)
    /\ \A v \in Workers \ {w} : worker'[v] = worker[v]
    /\ \A d : d.cust \notin Named(worker[w].req) => (d \in carts' <=> d \in carts)
    /\ torn \subseteq torn' /\ torn' \subseteq torn \cup Named(worker[w].req)

\* A merge names a customer who is no session, and a session.
LEMMA MergeNames ==
    ASSUME NEW req \in Requests, req.op = "merge"
    PROVE  /\ req.cust \in Customers \ Sessions /\ req.other \in Sessions
           /\ req.cust # req.other /\ Named(req) = {req.cust, req.other}
<1>1. req.cust \in Customers \ Sessions /\ req.other \in Sessions
  BY DEF Requests, CartRequests, ItemRequests, UpdateRequests, MergeRequests
<1> QED BY <1>1, CartsAssumption DEF Named

\* What a step of a handler leaves alone: the carts of customers its request
\* does not name.
LEMMA FrameStep ==
    ASSUME MaxLag = 0, OneCartInv, NEW w \in Workers, Handle(w) \/ Abort(w)
    PROVE  Frame(w)
<1>1. TypeInv /\ Busy(w) /\ \A v \in Workers \ {w} : worker'[v] = worker[v]
  BY OneThread DEF OneCartInv, OwnStep
<1>2. \A d : d.cust \notin Named(worker[w].req) => (d \in carts' <=> d \in carts)
  <2>1. CASE Create(w)
    BY <2>1, CreateShape
  <2>2. CASE ~Create(w)
    <3>1. CartsChange(w) /\ Owner(w) \in Named(worker[w].req)
      BY <1>1, <2>2, StoreStep, NamedCustomers
    <3> QED BY <3>1 DEF CartsChange
  <2> QED BY <2>1, <2>2
<1>3. torn \subseteq torn' /\ torn' \subseteq torn \cup Named(worker[w].req)
  <2>1. CASE Abort(w)
    BY <2>1, AbortShape
  <2>2. CASE MergeItems(w)
    BY <2>2, MergeItemsShape
  <2>3. CASE Find(w) \/ Create(w) \/ HasItem(w) \/ FindItem(w) \/ Increment(w)
             \/ SaveItem(w) \/ SaveQuantity(w) \/ AddItem(w) \/ RemoveItem(w)
             \/ DestroyItem(w) \/ DeleteCart(w) \/ MergeItem(w)
    <3>1. torn' = torn
      BY <2>3 DEF Find, Create, HasItem, FindItem, Increment, SaveItem, SaveQuantity, AddItem,
         RemoveItem, DestroyItem, DeleteCart, MergeItem
    <3> QED BY <3>1
  <2> QED BY <2>1, <2>2, <2>3 DEF Handle
<1> QED BY <1>1, <1>2, <1>3 DEF Frame

\* The customers another handler names are not concerned.
LEMMA Untouched ==
    ASSUME OneCartInv, NEW w \in Workers, NEW v \in Workers, v # w, Frame(w), Busy(v),
           NEW c \in Named(worker[v].req)
    PROVE  /\ \A d : d.cust = c => (d \in carts' <=> d \in carts)
           /\ c \in torn' <=> c \in torn
           /\ worker'[v] = worker[v]
           /\ c \notin Named(worker[w].req)
<1>1. c \notin Named(worker[w].req)
  BY DEF OneCartInv, Separate, Frame
<1> QED BY <1>1 DEF Frame

-----------------------------------------------------------------------------
(* The cart in use comes from the collection, and so do the items merged *)

\* The items of the cart w uses are of the cart document it has read.
Drawn(w) ==
    At(w, LoadedSteps) =>
        \A d \in carts : d.id = worker[w].cart.id =>
            \A k \in 1..Len(worker[w].cart.items) : InCart(d, worker[w].cart.items[k].id)

\* The new item is the one asked for, and nobody else knows its id.
Private(w) ==
    Adding(w) =>
        /\ worker[w].hand # <<>>
        /\ worker[w].hand[1].itemId = worker[w].req.itemId
        /\ worker[w].hand[1].id # 0 =>
             /\ \A d \in carts : ~InCart(d, worker[w].hand[1].id)
             /\ \A v \in Workers \ {w} : ~InHand(v, worker[w].hand[1].id)

\* The items still to be merged are those of the session's cart.
FromSession(w) ==
    Looping(w) /\ worker[w].hand # <<>> =>
        \E e \in carts : /\ e.cust = worker[w].req.other
                         /\ \A k \in 1..Len(worker[w].hand) : InCart(e, worker[w].hand[k].id)

DrawnInv ==
    /\ ItemIdsInv
    /\ \A w \in Workers : Drawn(w) /\ Private(w) /\ FromSession(w)

\* The references of a cart with an item appended.
LEMMA AppendRefs ==
    ASSUME NEW its \in Seq(StoredItem), NEW id \in Nat, NEW refs, refs = Append(RefsOf(its), id)
    PROVE  /\ refs \in Seq(Nat) /\ Len(refs) = Len(its) + 1 /\ Len(its) \in Nat
           /\ \A k \in 1..Len(its) : refs[k] = its[k].id
           /\ refs[Len(its) + 1] = id
<1>1. PICK r : r = RefsOf(its)
  OBVIOUS
<1>2. r \in Seq(Nat) /\ Len(r) = Len(its) /\ \A k \in 1..Len(its) : r[k] = its[k].id
  BY <1>1, RefsFacts
<1> QED BY <1>1, <1>2

\* The references of a cart with a line taken out.
LEMMA RemoveRefs ==
    ASSUME NEW its \in Seq(StoredItem), NEW n \in 1..Len(its),
           NEW refs, refs = RefsOf(RemoveAt(its, n))
    PROVE  /\ refs \in Seq(Nat) /\ Len(refs) = Len(its) - 1 /\ Len(its) \in Nat
           /\ \A k \in 1..Len(its) - 1 : refs[k] = IF k < n THEN its[k].id ELSE its[k + 1].id
<1>1. /\ RemoveAt(its, n) \in Seq(StoredItem) /\ Len(RemoveAt(its, n)) = Len(its) - 1
      /\ \A k \in 1..Len(its) - 1 : RemoveAt(its, n)[k] = IF k < n THEN its[k] ELSE its[k + 1]
  BY RemoveAtFacts
<1>2. PICK left : left = RemoveAt(its, n)
  OBVIOUS
<1>3. /\ refs \in Seq(Nat) /\ Len(refs) = Len(left) /\ \A k \in 1..Len(left) : refs[k] = left[k].id
  BY <1>1, <1>2, RefsFacts
<1> QED BY <1>1, <1>2, <1>3

\* A cart is saved with references it had, and the one of the item in the hand.
LEMMA SavedRefs ==
    ASSUME MaxLag = 0, OneCartInv, NEW w \in Workers, Drawn(w),
           AddItem(w) \/ RemoveItem(w) \/ MergeItem(w)
    PROVE  \E old \in carts : \E doc :
               /\ doc.id = old.id /\ doc.cust = old.cust /\ old.cust = worker[w].req.cust
               /\ carts' = (carts \ {old}) \cup {doc} /\ UNCHANGED <<items, nextId, torn>>
               /\ \A id : InCart(doc, id) =>
                      \/ InCart(old, id)
                      \/ /\ ~RemoveItem(w) /\ worker[w].hand # <<>>
                         /\ worker[w].hand[1] \in StoredItem /\ id = worker[w].hand[1].id
<1> DEFINE st == worker[w]
           its == st.cart.items
           From(refs) == \A j \in 1..Len(refs) :
                             \/ \E k \in 1..Len(its) : refs[j] = its[k].id
                             \/ /\ ~RemoveItem(w) /\ st.hand # <<>>
                                /\ st.hand[1] \in StoredItem /\ refs[j] = st.hand[1].id
<1>1. PICK step \in {"addItem", "removeItem", "mergeItem"} : Does(w, step)
  BY DEF AddItem, RemoveItem, MergeItem
<1>2. its \in Seq(StoredItem) /\ At(w, LoadedSteps)
  BY <1>1, Working DEF LoadedSteps
<1>3. ASSUME NEW old \in carts, NEW refs, old.cust = st.req.cust, Saves(w, old, refs), From(refs)
      PROVE  \E doc :
               /\ doc.id = old.id /\ doc.cust = old.cust /\ old.cust = worker[w].req.cust
               /\ carts' = (carts \ {old}) \cup {doc} /\ UNCHANGED <<items, nextId, torn>>
               /\ \A id : InCart(doc, id) =>
                      \/ InCart(old, id)
                      \/ /\ ~RemoveItem(w) /\ worker[w].hand # <<>>
                         /\ worker[w].hand[1] \in StoredItem /\ id = worker[w].hand[1].id
  <2>1. PICK doc : doc = [id |-> old.id, cust |-> old.cust, refs |-> refs]
    OBVIOUS
  <2>2. doc.refs = refs /\ doc.id = old.id /\ doc.cust = old.cust
    BY <2>1
  <2>3. carts' = (carts \ {old}) \cup {doc} /\ UNCHANGED <<items, nextId, torn>>
    BY <1>3, <2>1 DEF Saves
  <2>4. \A k \in 1..Len(its) : InCart(old, its[k].id)
    BY <1>2, <1>3 DEF Drawn, Saves
  <2>5. \A id : InCart(doc, id) =>
                      \/ InCart(old, id)
                      \/ /\ ~RemoveItem(w) /\ worker[w].hand # <<>>
                         /\ worker[w].hand[1] \in StoredItem /\ id = worker[w].hand[1].id
    <3>1. ASSUME NEW id, InCart(doc, id)
          PROVE  \/ InCart(old, id)
                 \/ /\ ~RemoveItem(w) /\ worker[w].hand # <<>>
                    /\ worker[w].hand[1] \in StoredItem /\ id = worker[w].hand[1].id
      <4>1. PICK j \in 1..Len(refs) : refs[j] = id
        BY <2>2, <3>1 DEF InCart
      <4> QED BY <1>3, <2>4, <4>1
    <3> QED BY <3>1
  <2> QED BY <1>3, <2>2, <2>3, <2>5
<1>4. CASE AddItem(w) \/ MergeItem(w)
  <2>1. st.hand # <<>> /\ st.hand[1] \in StoredItem /\ Head(st.hand) = st.hand[1]
    <3>1. st.hand \in Seq(Item)
      BY <1>1, Working
    <3> QED BY <1>4, <3>1, AddItemShape, MergeItemShape
  <2>2. PICK refs, new : new = st.hand[1].id /\ refs = Append(RefsOf(its), new)
    OBVIOUS
  <2>3. \E old \in carts : old.cust = st.req.cust /\ Saves(w, old, refs)
    BY <1>4, <2>1, <2>2, AddItemShape, MergeItemShape
  <2>4. ~RemoveItem(w)
    <3>1. CASE AddItem(w)
      BY <3>1 DEF AddItem, RemoveItem, Does
    <3>2. CASE MergeItem(w)
      BY <3>2 DEF MergeItem, RemoveItem, Does
    <3> QED BY <1>4, <3>1, <3>2
  <2>5. From(refs)
    <3>1. new \in Nat
      BY <2>1, <2>2 DEF StoredItem, Item
    <3>2. /\ Len(refs) = Len(its) + 1 /\ Len(its) \in Nat
          /\ \A k \in 1..Len(its) : refs[k] = its[k].id
          /\ refs[Len(its) + 1] = new
      <4>1. PICK r : r = RefsOf(its)
        OBVIOUS
      <4>2. r \in Seq(Nat) /\ Len(r) = Len(its) /\ \A k \in 1..Len(its) : r[k] = its[k].id
        BY <1>2, <4>1, RefsFacts
      <4>3. refs = Append(r, new) /\ Len(its) \in Nat
        BY <1>2, <2>2, <4>1
      <4> HIDE DEF its
      <4> QED BY <3>1, <4>2, <4>3
    <3>3. \A j \in 1..Len(refs) : j \in 1..Len(its) \/ j = Len(its) + 1
      BY <3>2
    <3> QED BY <2>1, <2>2, <2>4, <3>2, <3>3
  <2> QED BY <1>3, <2>3, <2>5
<1>5. CASE RemoveItem(w)
  <2>1. PICK old \in carts, newItems \in Seq(StoredItem) :
                  /\ old.cust = worker[w].req.cust
                  /\ Saves(w, old, RefsOf(newItems))
                  /\ newItems = IF Wanted(w) = {} THEN its ELSE RemoveAt(its, FirstWanted(w))
    BY <1>5, RemoveItemShape
  <2>2. PICK refs : refs = RefsOf(newItems)
    OBVIOUS
  <2>3. From(refs)
    <3>1. CASE Wanted(w) = {}
      <4>1. newItems = its
        BY <2>1, <3>1
      <4>2. Len(refs) = Len(its) /\ \A k \in 1..Len(its) : refs[k] = its[k].id
        BY <1>2, <2>2, <4>1, RefsFacts
      <4> QED BY <4>2
    <3>2. CASE Wanted(w) # {}
      <4>1. PICK n \in 1..Len(its) : newItems = RemoveAt(its, n)
        BY <1>2, <2>1, <3>2, FirstWantedIn
      <4>2. /\ Len(refs) = Len(its) - 1 /\ Len(its) \in Nat
            /\ \A k \in 1..Len(its) - 1 : refs[k] = IF k < n THEN its[k].id ELSE its[k + 1].id
        BY <1>2, <2>2, <4>1, RemoveRefs
      <4>3. \A j \in 1..Len(refs) : j \in 1..Len(its) /\ j + 1 \in 1..Len(its)
        BY <4>2
      <4> QED BY <4>2, <4>3
    <3> QED BY <3>1, <3>2
  <2> QED BY <1>3, <2>1, <2>2, <2>3
<1> QED BY <1>4, <1>5

CartSources(w) ==
    \A d \in carts' : \A id : InCart(d, id) => InHand(w, id) \/ \E e \in carts : InCart(e, id)

HandSources(w) ==
    \A id : InHand(w, id)' =>
        id = 0 \/ InHand(w, id) \/ (\E e \in carts : InCart(e, id)) \/ id >= nextId

\* Where the cart and the hand of a thread come from in each step.
LEMMA Sources ==
    ASSUME MaxLag = 0, DrawnInv, NEW w \in Workers, Handle(w) \/ Abort(w)
    PROVE  CartSources(w) /\ HandSources(w)
<1> DEFINE st == worker[w]
<1>1. /\ OneCartInv /\ TypeInv /\ Drawn(w) /\ nextId \in Nat
      /\ st.cart.items \in Seq(StoredItem) /\ st.hand \in Seq(Item)
  BY KnownType DEF DrawnInv, ItemIdsInv, OneCartInv
<1>2. CartSources(w)
  <2>1. CASE AddItem(w) \/ RemoveItem(w) \/ MergeItem(w)
    <3>1. PICK old, doc :
               /\ old \in carts
               /\ carts' = (carts \ {old}) \cup {doc}
               /\ \A id : InCart(doc, id) =>
                      \/ InCart(old, id)
                      \/ /\ ~RemoveItem(w) /\ st.hand # <<>>
                         /\ st.hand[1] \in StoredItem /\ id = st.hand[1].id
      <4>1. AddItem(w) \/ RemoveItem(w) \/ MergeItem(w)
        BY <2>1
      <4> HIDE DEF st
      <4> QED BY <1>1, <4>1, SavedRefs DEF st
    <3>2. st.hand # <<>> => InHand(w, st.hand[1].id)
      BY <1>1 DEF InHand
    <3> QED BY <3>1, <3>2 DEF CartSources
  <2>2. CASE Create(w)
    <3>1. PICK doc : doc = [id |-> nextId, cust |-> st.cart.cust, refs |-> <<>>]
      OBVIOUS
    <3>3. carts' = carts \cup {doc} /\ doc.refs = <<>>
      BY <1>1, <2>2, <3>1, CreateShape
    <3>2. \A id : ~InCart(doc, id)
      BY <3>3 DEF InCart
    <3> QED BY <3>2, <3>3 DEF CartSources
  <2>3. CASE Find(w) \/ HasItem(w) \/ FindItem(w) \/ Increment(w) \/ SaveItem(w) \/ SaveQuantity(w)
             \/ DestroyItem(w) \/ DeleteCart(w) \/ MergeItems(w) \/ Abort(w)
    <3>1. carts' \subseteq carts
      BY <1>1, <2>3, FindShape, HasItemShape, FindItemShape, IncrementShape, SaveItemShape,
         SaveQuantityShape, DestroyItemShape, DeleteCartShape, MergeItemsShape, AbortShape
    <3> QED BY <3>1 DEF CartSources
  <2> QED BY <2>1, <2>2, <2>3 DEF Handle
<1>3. HandSources(w)
  <2>1. ASSUME NEW todo, NEW cart, NEW hand, Becomes(w, todo, cart, hand) \/ Ends(w),
               \A k \in 1..Len(hand) :
                   \/ hand[k].id = 0 \/ hand[k].id >= nextId
                   \/ InHand(w, hand[k].id)
                   \/ \E e \in carts : InCart(e, hand[k].id)
        PROVE  HandSources(w)
    <3>1. worker'[w].hand = <<>> \/ worker'[w].hand = hand
      BY <2>1 DEF Becomes, Ends, Free
    <3> QED BY <2>1, <3>1 DEF HandSources, InHand
  <2>2. \A k \in 1..Len(st.hand) : InHand(w, st.hand[k].id)
    BY DEF InHand
  <2>3. CASE HasItem(w) \/ Increment(w) \/ SaveQuantity(w) \/ AddItem(w)
             \/ RemoveItem(w) \/ DestroyItem(w) \/ DeleteCart(w) \/ Abort(w)
    <3>1. Ends(w) \/ \E todo, cart : Becomes(w, todo, cart, st.hand)
      BY <1>1, <2>3, HasItemShape, IncrementShape, SaveQuantityShape, AddItemShape,
         RemoveItemShape, DestroyItemShape, DeleteCartShape, AbortShape
    <3> QED BY <2>1, <2>2, <3>1
  <2>4. CASE Find(w) \/ Create(w)
    <3>1. \E todo, cart : Becomes(w, todo, cart, st.hand)
      BY <1>1, <2>4, FindShape, CreateShape
    <3> QED BY <2>1, <2>2, <3>1
  <2>5. CASE FindItem(w) \/ MergeItems(w)
    <3>1. PICK step \in {"foundItem", "mergeItems"} : Does(w, step)
      BY <2>5 DEF FindItem, MergeItems
    <3>2. At(w, LoadedSteps) /\ \E d \in carts : d.id = st.cart.id
      BY <1>1, <3>1, Working DEF LoadedSteps
    <3>3. \A k \in 1..Len(st.cart.items) : \E e \in carts : InCart(e, st.cart.items[k].id)
      BY <1>1, <3>2 DEF Drawn
    <3>4. CASE MergeItems(w)
      BY <1>1, <2>1, <3>3, <3>4, MergeItemsShape
    <3>5. CASE FindItem(w)
      <4>1. CASE Ends(w)
        BY <2>1, <2>2, <4>1
      <4>2. CASE Wanted(w) # {}
                    /\ Becomes(w, Tail(st.todo), st.cart, <<st.cart.items[FirstWanted(w)]>>)
        <5>1. PICK hand : hand = <<st.cart.items[FirstWanted(w)]>>
          OBVIOUS
        <5>2. Len(hand) = 1 /\ hand[1] = st.cart.items[FirstWanted(w)]
              /\ FirstWanted(w) \in 1..Len(st.cart.items)
          BY <1>1, <4>2, <5>1, FirstWantedIn
        <5>3. \A k \in 1..Len(hand) : \E e \in carts : InCart(e, hand[k].id)
          BY <3>3, <5>2
        <5> QED BY <2>1, <4>2, <5>1, <5>3
      <4> QED BY <1>1, <3>5, <4>1, <4>2, FindItemShape
    <3> QED BY <2>5, <3>4, <3>5
  <2>6. CASE SaveItem(w)
    <3>1. PICK item \in StoredItem :
                  /\ IF st.hand[1].id = 0 THEN item.id = nextId ELSE item.id = st.hand[1].id
                  /\ Becomes(w, Tail(st.todo), st.cart, <<item>>)
      BY <1>1, <2>6, SaveItemShape
    <3>2. st.hand # <<>> /\ 1 \in 1..Len(st.hand)
      BY <1>1, <2>6, SaveItemShape
    <3>3. item.id >= nextId \/ InHand(w, item.id)
      BY <1>1, <2>2, <3>1, <3>2
    <3>4. PICK hand : hand = <<item>>
      OBVIOUS
    <3>5. Len(hand) = 1 /\ hand[1] = item
      BY <3>4
    <3> QED BY <2>1, <3>1, <3>3, <3>4, <3>5
  <2>7. CASE MergeItem(w)
    <3>1. Becomes(w, MergeRest(Tail(st.hand)), st.cart, Tail(st.hand)) /\ st.hand # <<>>
      BY <1>1, <2>7, MergeItemShape
    <3>2. PICK left : left = Tail(st.hand)
      OBVIOUS
    <3>3. Len(left) = Len(st.hand) - 1 /\ Len(st.hand) \in Nat
          /\ \A k \in 1..Len(left) : left[k] = st.hand[k + 1]
      BY <1>1, <3>1, <3>2
    <3>4. \A k \in 1..Len(left) : k + 1 \in 1..Len(st.hand)
      BY <3>3
    <3>5. \A k \in 1..Len(left) : InHand(w, left[k].id)
      BY <2>2, <3>3, <3>4
    <3> QED BY <2>1, <3>1, <3>2, <3>5
  <2> QED BY <2>3, <2>4, <2>5, <2>6, <2>7 DEF Handle
<1> QED BY <1>2, <1>3

\* The other handlers keep what they know.
LEMMA OthersDrawn ==
    ASSUME DrawnInv, OneCartInv', NEW w \in Workers, Frame(w), CartSources(w), HandSources(w),
           NEW v \in Workers, v # w
    PROVE  Drawn(v)' /\ Private(v)' /\ FromSession(v)'
<1> DEFINE st == worker[v]
<1>1. /\ OneCartInv /\ TypeInv /\ Drawn(v) /\ Private(v) /\ FromSession(v)
      /\ worker'[v] = worker[v] /\ (Busy(v)' <=> Busy(v))
      /\ nextId \in Nat /\ st.hand \in Seq(Item)
  BY KnownType DEF DrawnInv, ItemIdsInv, OneCartInv, Frame, Busy
<1>2. ASSUME Busy(v), NEW c \in Named(st.req), NEW d, d.cust = c
      PROVE  d \in carts' <=> d \in carts
  BY <1>1, <1>2, Untouched
<1>3. Drawn(v)'
  <2>1. SUFFICES ASSUME At(v, LoadedSteps)', NEW d \in carts', d.id = st.cart.id
                 PROVE  \A k \in 1..Len(st.cart.items) : InCart(d, st.cart.items[k].id)
    BY <1>1 DEF Drawn
  <2>2. At(v, LoadedSteps) /\ Busy(v)
    BY <1>1, <2>1 DEF At
  <2>3. HoldsCart(v)'
    BY DEF OneCartInv
  <2>4. PICK e \in carts' : e.id = st.cart.id /\ e.cust = Owner(v)
    BY <1>1, <2>1, <2>3 DEF HoldsCart, Owner
  <2>5. d.cust = Owner(v)
    BY <2>1, <2>4 DEF OneCartInv, OneEach
  <2>6. Owner(v) \in Named(st.req)
    BY <1>1, <2>2, NamedCustomers
  <2>7. d \in carts
    BY <1>2, <2>1, <2>2, <2>5, <2>6
  <2> QED BY <1>1, <2>1, <2>2, <2>7 DEF Drawn
<1>4. Private(v)'
  <2>0. PICK id : id = st.hand[1].id
    OBVIOUS
  <2>1. SUFFICES ASSUME Adding(v), id # 0
                 PROVE  /\ \A d \in carts' : ~InCart(d, id)
                        /\ \A u \in Workers \ {v} : ~InHand(u, id)'
    BY <1>1, <2>0 DEF Private, Adding
  <2>2. /\ st.hand # <<>>
        /\ \A d \in carts : ~InCart(d, id)
        /\ \A u \in Workers \ {v} : ~InHand(u, id)
    BY <1>1, <2>0, <2>1 DEF Private
  <2>3. 1 \in 1..Len(st.hand) /\ st.hand[1] \in StoredItem
    BY <1>1, <2>0, <2>1, <2>2 DEF StoredItem
  <2>4. Known(st.hand[1])
    BY <2>3 DEF Known, Copy
  <2>5. id < nextId /\ id \in Nat
    BY <2>0, <2>3, <2>4 DEF DrawnInv, ItemIdsInv, StoredItem, Item
  <2>6. \A d \in carts' : ~InCart(d, id)
    BY <1>1, <2>2 DEF CartSources
  <2>7. ~InHand(w, id)'
    <3>1. ASSUME InHand(w, id)' PROVE FALSE
      <4>1. id = 0 \/ InHand(w, id) \/ (\E e \in carts : InCart(e, id)) \/ id >= nextId
        BY <3>1 DEF HandSources
      <4>2. ~(id >= nextId)
        BY <1>1, <2>5
      <4> QED BY <2>1, <2>2, <4>1, <4>2
    <3> QED BY <3>1
  <2>8. \A u \in Workers \ {v, w} : ~InHand(u, id)'
    BY <2>2 DEF Frame, InHand
  <2> QED BY <2>6, <2>7, <2>8
<1>5. FromSession(v)'
  <2>1. SUFFICES ASSUME Looping(v), st.hand # <<>>
                 PROVE  \E e \in carts' : /\ e.cust = st.req.other
                                          /\ \A k \in 1..Len(st.hand) : InCart(e, st.hand[k].id)
    BY <1>1 DEF FromSession, Looping
  <2>2. PICK e \in carts : /\ e.cust = st.req.other
                           /\ \A k \in 1..Len(st.hand) : InCart(e, st.hand[k].id)
    BY <1>1, <2>1 DEF FromSession
  <2>3. Busy(v) /\ st.req.other \in Named(st.req)
    BY <1>1, <2>1, NamedCustomers DEF Looping
  <2> QED BY <1>2, <2>2, <2>3
<1> QED BY <1>3, <1>4, <1>5

\* The thread's cart still comes from its owner's document.
LEMMA OwnDrawn ==
    ASSUME MaxLag = 0, DrawnInv, OneCartInv', NEW w \in Workers, Handle(w) \/ Abort(w)
    PROVE  Drawn(w)'
<1> DEFINE st == worker[w]
<1>1. OneCartInv /\ TypeInv /\ Drawn(w) /\ GoesOn(w)
  BY NextPhase DEF DrawnInv, ItemIdsInv, OneCartInv
<1>2. SUFFICES ASSUME At(w, LoadedSteps)', NEW d \in carts', d.id = worker'[w].cart.id
               PROVE  \A k \in 1..Len(worker'[w].cart.items) :
                         InCart(d, worker'[w].cart.items[k].id)
  BY DEF Drawn
<1>3. Find(w) \/ SaveItem(w)
  BY <1>1, <1>2 DEF GoesOn
<1>4. worker'[w] # Free /\ Head(worker'[w].todo) # "create"
  BY <1>2 DEF At, Busy, Free, LoadedSteps
<1>5. CASE SaveItem(w)
  <2>1. carts' = carts /\ \E hand : Becomes(w, Tail(st.todo), st.cart, hand)
    BY <1>1, <1>5, SaveItemShape
  <2>2. worker'[w].cart = st.cart
    BY <1>4, <2>1 DEF Becomes
  <2>3. Does(w, "saveItem")
    BY <1>5 DEF SaveItem
  <2>4. At(w, LoadedSteps)
    BY <1>1, <2>3, Working DEF LoadedSteps
  <2> QED BY <1>1, <1>2, <2>1, <2>2, <2>4 DEF Drawn
<1>6. CASE Find(w)
  <2>1. carts' = carts /\ st.todo \in Seq(StepNames) /\ st.todo # <<>>
    <3>1. PICK step : Does(w, step)
      BY <1>6 DEF Find
    <3> QED BY <1>1, <1>6, <3>1, FindShape, Working
  <2>2. ASSUME NEW cart, NEW hand, Becomes(w, <<"create">> \o st.todo, cart, hand) PROVE FALSE
    <3>1. PICK todo : todo = <<"create">> \o st.todo
      OBVIOUS
    <3>2. todo # <<>> /\ Head(todo) = "create"
      BY <2>1, <3>1, SameGoal
    <3> QED BY <1>4, <2>2, <3>1, <3>2 DEF Becomes
  <2>3. PICK e \in carts : Becomes(w, Tail(st.todo), Load(e), st.hand)
    BY <1>1, <1>6, <2>2, FindShape
  <2>4. worker'[w].cart = Load(e) /\ Load(e).id = e.id
    BY <1>4, <2>3 DEF Becomes, Load
  <2>5. d = e
    BY <1>1, <1>2, <2>1, <2>4 DEF OneCartInv, OneEach
  <2>6. \A k \in 1..Len(Load(e).items) : \E j \in 1..Len(e.refs) : Load(e).items[k].id = e.refs[j]
    BY <1>1, LoadKnown
  <2> QED BY <2>4, <2>5, <2>6 DEF InCart
<1> QED BY <1>3, <1>5, <1>6

\* A new item in the hand is still nobody else's.
LEMMA OwnPrivate ==
    ASSUME MaxLag = 0, DrawnInv, NEW w \in Workers, Handle(w) \/ Abort(w)
    PROVE  Private(w)'
<1> DEFINE st == worker[w]
<1>1. OneCartInv /\ TypeInv /\ Private(w) /\ GoesOn(w)
  BY NextPhase DEF DrawnInv, ItemIdsInv, OneCartInv
<1>2. SUFFICES ASSUME Adding(w)'
               PROVE  Private(w)'
  BY DEF Private
<1>3. Adding(w) /\ (Find(w) \/ Create(w) \/ HasItem(w) \/ SaveItem(w))
  BY <1>1, <1>2 DEF GoesOn
<1>4. /\ st.hand # <<>> /\ st.hand[1].itemId = st.req.itemId
      /\ st.hand[1].id # 0 =>
             /\ \A d \in carts : ~InCart(d, st.hand[1].id)
             /\ \A v \in Workers \ {w} : ~InHand(v, st.hand[1].id)
  BY <1>1, <1>3 DEF Private
<1>5. Busy(w)' /\ worker'[w] # Free
  BY <1>2 DEF Adding, Busy, Free
<1>6. worker'[w].req = st.req /\ \A v \in Workers \ {w} : worker'[v] = worker[v]
  BY <1>1, <1>5, OneThread DEF OwnStep
<1>7. CASE Find(w) \/ Create(w) \/ HasItem(w)
  <2>1. worker'[w].hand = st.hand
    <3>1. CASE Find(w) \/ Create(w)
      BY <1>1, <1>5, <3>1, LookGoesOn
    <3>2. CASE HasItem(w)
      BY <1>1, <1>5, <3>2, HasItemShape DEF Becomes
    <3> QED BY <1>7, <3>1, <3>2
  <2>2. \A d \in carts' : d \in carts \/ d.refs = <<>>
    <3>1. CASE Create(w)
      <4>1. PICK doc : doc = [id |-> nextId, cust |-> st.cart.cust, refs |-> <<>>]
        OBVIOUS
      <4>2. carts' = carts \cup {doc} /\ doc.refs = <<>>
        BY <1>1, <3>1, <4>1, CreateShape
      <4> QED BY <4>2
    <3>2. CASE Find(w) \/ HasItem(w)
      BY <1>1, <3>2, FindShape, HasItemShape
    <3> QED BY <1>7, <3>1, <3>2
  <2>3. PICK id : id = st.hand[1].id
    OBVIOUS
  <2>4. id # 0 => (\A d \in carts' : ~InCart(d, id)) /\ \A v \in Workers \ {w} : ~InHand(v, id)'
    BY <1>4, <1>6, <2>2, <2>3 DEF InCart, InHand
  <2> QED BY <1>4, <1>6, <2>1, <2>3, <2>4 DEF Private
<1>8. CASE SaveItem(w)
  <2>1. PICK item \in StoredItem :
                  /\ item.itemId = st.hand[1].itemId
                  /\ IF st.hand[1].id = 0 THEN item.id = nextId ELSE item.id = st.hand[1].id
                  /\ carts' = carts
                  /\ Becomes(w, Tail(st.todo), st.cart, <<item>>)
    BY <1>1, <1>8, SaveItemShape
  <2>2. PICK hand : hand = <<item>>
    OBVIOUS
  <2>3. hand # <<>> /\ hand[1] = item /\ worker'[w].hand = hand
    BY <1>5, <2>1, <2>2 DEF Becomes
  <2>4. PICK id : id = item.id
    OBVIOUS
  <2>5. (\A d \in carts' : ~InCart(d, id)) /\ \A v \in Workers \ {w} : ~InHand(v, id)
    <3>1. CASE st.hand[1].id = 0
      <4>1. id = nextId /\ nextId \in Nat \ {0}
        BY <1>1, <2>1, <2>4, <3>1, KnownType
      <4>2. ASSUME NEW d \in carts PROVE ~InCart(d, id)
        <5>1. \A j \in 1..Len(d.refs) : d.refs[j] \in Nat /\ d.refs[j] < nextId
          BY <1>1, KnownType, ElementOfSeq DEF DrawnInv, ItemIdsInv
        <5>2. \A j \in 1..Len(d.refs) : d.refs[j] # nextId
          BY <4>1, <5>1
        <5> QED BY <4>1, <5>2 DEF InCart
      <4>3. ASSUME NEW v \in Workers PROVE ~InHand(v, id)
        <5>1. \A k \in 1..Len(worker[v].hand) :
                 /\ worker[v].hand[k] \in Item /\ Known(worker[v].hand[k])
                 /\ worker[v].hand[k].id # 0 => worker[v].hand[k] \in StoredItem
          BY <1>1, CopyKnown
        <5>2. \A k \in 1..Len(worker[v].hand) :
                 worker[v].hand[k].id \in Nat /\ (worker[v].hand[k].id # 0 =>
                    worker[v].hand[k].id < nextId)
          BY <5>1 DEF DrawnInv, ItemIdsInv, Item
        <5>3. \A k \in 1..Len(worker[v].hand) : worker[v].hand[k].id # nextId
          BY <4>1, <5>2
        <5> QED BY <4>1, <5>3 DEF InHand
      <4> QED BY <2>1, <4>2, <4>3
    <3>2. CASE st.hand[1].id # 0
      BY <1>4, <2>1, <2>4, <3>2
    <3> QED BY <3>1, <3>2
  <2>6. \A v \in Workers \ {w} : ~InHand(v, id)'
    BY <1>6, <2>5 DEF InHand
  <2> QED BY <1>4, <1>6, <2>1, <2>3, <2>4, <2>5, <2>6 DEF Private
<1> QED BY <1>3, <1>7, <1>8

\* The hand of a merge still comes from the session's cart.
LEMMA OwnFromSession ==
    ASSUME MaxLag = 0, DrawnInv, NEW w \in Workers, Handle(w) \/ Abort(w)
    PROVE  FromSession(w)'
<1> DEFINE st == worker[w]
<1>1. OneCartInv /\ TypeInv /\ FromSession(w) /\ Drawn(w) /\ GoesOn(w)
  BY NextPhase DEF DrawnInv, ItemIdsInv, OneCartInv
<1>2. SUFFICES ASSUME Looping(w)', worker'[w].hand # <<>>
               PROVE  \E e \in carts' : /\ e.cust = worker'[w].req.other
                                        /\ \A k \in 1..Len(worker'[w].hand) :
                                              InCart(e, worker'[w].hand[k].id)
  BY DEF FromSession
<1>3. Busy(w)' /\ worker'[w] # Free
  BY <1>2 DEF Looping, Busy, Free
<1>4. worker'[w].req = st.req /\ Busy(w)
  BY <1>1, <1>3, OneThread DEF OwnStep
<1>5. st.req \in Requests /\ st.req.op = "merge" /\ st.req.cust # st.req.other
  BY <1>1, <1>2, <1>4, NamedCustomers, MergeNames DEF Looping
<1>6. CASE MergeItems(w)
  <2>1. carts' = carts /\ worker'[w].hand = st.cart.items
    BY <1>1, <1>3, <1>6, MergeItemsShape DEF Becomes
  <2>2. Does(w, "mergeItems")
    BY <1>6 DEF MergeItems
  <2>3. At(w, LoadedSteps) /\ Head(st.todo) = "mergeItems"
    BY <1>1, <2>2, Working DEF LoadedSteps
  <2>4. PICK d \in carts : d.id = st.cart.id /\ d.cust = Owner(w)
    BY <1>1, <2>3 DEF OneCartInv, HoldsCart
  <2>5. d.cust = st.req.other
    BY <1>5, <2>3, <2>4 DEF Owner
  <2> QED BY <1>1, <1>4, <2>1, <2>3, <2>4, <2>5 DEF Drawn
<1>7. CASE Looping(w) /\ (Find(w) \/ Create(w))
  <2>1. worker'[w].hand = st.hand
    BY <1>1, <1>3, <1>7, LookGoesOn
  <2>2. carts \subseteq carts'
    BY <1>1, <1>7, FindShape, CreateShape
  <2> QED BY <1>1, <1>2, <1>4, <1>7, <2>1, <2>2 DEF FromSession
<1>8. CASE Looping(w) /\ MergeItem(w)
  <2>1. worker'[w].hand = Tail(st.hand) /\ st.hand # <<>> /\ st.hand \in Seq(StoredItem)
    BY <1>1, <1>3, <1>8, MergeItemShape DEF Becomes
  <2>2. PICK old \in carts : \E doc : old.cust = st.req.cust /\ carts' = (carts \ {old}) \cup {doc}
    BY <1>1, <1>8, MergeItemShape DEF Saves
  <2>3. PICK e \in carts : e.cust = st.req.other
                /\ \A k \in 1..Len(st.hand) : InCart(e, st.hand[k].id)
    BY <1>1, <1>8, <2>1 DEF FromSession
  <2>4. e \in carts'
    BY <1>5, <2>2, <2>3
  <2>5. PICK left : left = Tail(st.hand)
    OBVIOUS
  <2>6. \A k \in 1..Len(left) : left[k] = st.hand[k + 1] /\ k + 1 \in 1..Len(st.hand)
    BY <2>1, <2>5
  <2>7. \A k \in 1..Len(left) : InCart(e, left[k].id)
    BY <2>3, <2>6
  <2> QED BY <1>4, <2>1, <2>3, <2>4, <2>5, <2>7
<1> QED BY <1>1, <1>2, <1>6, <1>7, <1>8 DEF GoesOn

\* A request starts with a cart and a hand drawn from nowhere.
LEMMA ReceiveDrawn ==
    ASSUME DrawnInv, ItemIdsInv', NEW w \in Workers, NEW req \in Requests, Receive(w, req)
    PROVE  DrawnInv'
<1>1. OneCartInv /\ TypeInv
  BY DEF DrawnInv, ItemIdsInv, OneCartInv
<1>2. /\ UNCHANGED <<carts, items, nextId, torn>>
      /\ \A v \in Workers \ {w} : worker'[v] = worker[v]
      /\ worker'[w].req = req /\ worker'[w].todo = Script(req.op)
      /\ req.op = "add" => worker'[w].hand = <<[id |-> 0, itemId |-> req.itemId, qty |-> 1]>>
      /\ req.op # "add" => worker'[w].hand = <<>>
  BY <1>1, ReceiveShape
<1>3. Head(Script(req.op)) \in {"value", "session"}
  BY RequestOps, Spelled DEF Script, OpNames
<1>4. Drawn(w)'
  BY <1>2, <1>3 DEF Drawn, At, LoadedSteps
<1>5. FromSession(w)'
  <2>1. req.op = "merge" => worker'[w].hand = <<>>
    BY <1>2
  <2> QED BY <1>2, <2>1 DEF FromSession, Looping
<1>6. Private(w)'
  <2>1. ASSUME req.op = "add"
        PROVE  /\ worker'[w].hand # <<>> /\ worker'[w].hand[1].itemId = req.itemId
               /\ worker'[w].hand[1].id = 0
    <3>1. PICK hand : hand = <<[id |-> 0, itemId |-> req.itemId, qty |-> 1]>>
      OBVIOUS
    <3>2. hand # <<>> /\ hand[1].itemId = req.itemId /\ hand[1].id = 0
      BY <3>1
    <3> QED BY <1>2, <2>1, <3>1, <3>2
  <2> QED BY <1>2, <2>1 DEF Private, Adding
<1>7. \A id : InHand(w, id)' => id = 0
  <2>1. CASE req.op = "add"
    BY <1>2, <2>1 DEF InHand
  <2>2. CASE req.op # "add"
    BY <1>2, <2>2 DEF InHand
  <2> QED BY <2>1, <2>2
<1>8. ASSUME NEW v \in Workers, v # w PROVE Drawn(v)' /\ Private(v)' /\ FromSession(v)'
  <2>1. worker'[v] = worker[v] /\ Drawn(v) /\ Private(v) /\ FromSession(v)
    BY <1>2, <1>8 DEF DrawnInv
  <2>2. Drawn(v)' /\ FromSession(v)'
    BY <1>2, <2>1 DEF Drawn, At, FromSession, Looping, Busy
  <2>3. PICK id : id = worker[v].hand[1].id
    OBVIOUS
  <2>4. ASSUME Adding(v)
        PROVE  /\ worker[v].hand # <<>> /\ worker[v].hand[1].itemId = worker[v].req.itemId
               /\ id # 0 => /\ \A d \in carts' : ~InCart(d, id)
                            /\ \A u \in Workers \ {v} : ~InHand(u, id)'
    <3>1. /\ worker[v].hand # <<>> /\ worker[v].hand[1].itemId = worker[v].req.itemId
          /\ id # 0 => /\ \A d \in carts : ~InCart(d, id)
                       /\ \A u \in Workers \ {v} : ~InHand(u, id)
      BY <2>1, <2>3, <2>4 DEF Private
    <3>2. \A u \in Workers \ {v, w} : ~InHand(u, id) => ~InHand(u, id)'
      BY <1>2 DEF InHand
    <3> QED BY <1>2, <1>7, <3>1, <3>2
  <2>5. Private(v)'
    BY <2>1, <2>3, <2>4 DEF Private, Adding, Busy
  <2> QED BY <2>2, <2>5
<1> QED BY <1>4, <1>5, <1>6, <1>8 DEF DrawnInv

\* Every step keeps what threads hold drawn from the documents of the
\* customers they name.
LEMMA DrawnStep ==
    ASSUME Serial, MaxLag = 0, DrawnInv, [Next]_vars
    PROVE  DrawnInv'
<1>1. ItemIdsInv' /\ OneCartInv' /\ OneCartInv
  <2>1. ItemIdsInv'
    BY ItemIdsStep DEF DrawnInv
  <2> QED BY <2>1 DEF DrawnInv, ItemIdsInv
<1>2. ASSUME NEW w \in Workers, Handle(w) \/ Abort(w) PROVE DrawnInv'
  <2>1. Frame(w) /\ CartSources(w) /\ HandSources(w)
    BY <1>1, <1>2, FrameStep, Sources
  <2>2. Drawn(w)' /\ Private(w)' /\ FromSession(w)'
    BY <1>1, <1>2, OwnDrawn, OwnPrivate, OwnFromSession
  <2>3. \A v \in Workers \ {w} : Drawn(v)' /\ Private(v)' /\ FromSession(v)'
    BY <1>1, <2>1, OthersDrawn
  <2> QED BY <1>1, <2>2, <2>3 DEF DrawnInv
<1>3. ASSUME NEW w \in Workers, NEW req \in Requests, Receive(w, req) PROVE DrawnInv'
  BY <1>1, <1>3, ReceiveDrawn
<1>4. CASE UNCHANGED vars \/ Quiesce
  <2>1. UNCHANGED <<carts, worker>>
    BY <1>4 DEF Quiesce, vars
  <2> QED
    BY <1>1, <2>1 DEF DrawnInv, Drawn, Private, FromSession, At, Adding, Looping, Busy, InHand
<1>5. CASE CatchUp
  BY <1>1, <1>5 DEF CatchUp, OneCartInv
<1> QED BY <1>2, <1>3, <1>4, <1>5 DEF Next

\* At the start threads hold nothing.
LEMMA DrawnInit ==
    ASSUME Init
    PROVE  DrawnInv
<1>1. \A w \in Workers : ~Busy(w)
  BY DEF Init, Busy, Free
<1> QED BY <1>1, ItemIdsInit DEF DrawnInv, Drawn, Private, FromSession, At, Adding, Looping

-----------------------------------------------------------------------------
(* Two carts share an item only while, or since, one was merged into the other *)

Shares(d, e) == d # e /\ \E id : InCart(d, id) /\ InCart(e, id)

Excused(c, b) ==
    \/ {c, b} \subseteq torn
    \/ \E w \in Workers : Looping(w) /\ {c, b} = Named(worker[w].req)

\* While a merge is running, either both of its carts are torn or none is.
TornTogether(w) ==
    Looping(w) => (worker[w].req.cust \in torn <=> worker[w].req.other \in torn)

SharingInv ==
    /\ DrawnInv
    /\ \A d, e \in carts : Shares(d, e) => Excused(d.cust, e.cust)
    /\ \A w \in Workers : TornTogether(w)

\* Two carts share an item when they share a reference.
LEMMA ShareIds ==
    ASSUME NEW d, NEW e, d.refs \in Seq(Nat), e.refs \in Seq(Nat)
    PROVE  ShareItem(d, e) <=> Shares(d, e)
<1>1. /\ Range(d.refs) = {d.refs[j] : j \in 1..Len(d.refs)}
      /\ Range(e.refs) = {e.refs[j] : j \in 1..Len(e.refs)}
  BY DEF Range
<1> QED BY <1>1 DEF ShareItem, Shares, InCart

\* A looping handler's merge is of two customers with a cart in the collection.
LEMMA ExcuseKept ==
    ASSUME MaxLag = 0, SharingInv, NEW w \in Workers, Handle(w) \/ Abort(w),
           NEW d \in carts, NEW e \in carts, Shares(d, e), d \in carts', e \in carts'
    PROVE  Excused(d.cust, e.cust)'
<1>1. OneCartInv /\ TypeInv /\ GoesOn(w) /\ Frame(w)
  BY NextPhase, FrameStep DEF SharingInv, DrawnInv, ItemIdsInv, OneCartInv
<1>2. PICK c, b : c = d.cust /\ b = e.cust
  OBVIOUS
<1>3. Excused(c, b)
  BY <1>2 DEF SharingInv
<1> SUFFICES Excused(c, b)'
  BY <1>2
<1>4. CASE {c, b} \subseteq torn
  BY <1>1, <1>4 DEF Excused, Frame
<1>5. ASSUME NEW v \in Workers, Looping(v), {c, b} = Named(worker[v].req)
      PROVE  Excused(c, b)'
  <2>1. CASE v # w
    <3>1. worker'[v] = worker[v]
      BY <1>1, <2>1 DEF Frame
    <3>2. Looping(v)'
      BY <1>5, <3>1 DEF Looping, Busy
    <3> QED BY <1>5, <3>1, <3>2 DEF Excused
  <2>2. CASE v = w /\ Looping(w)'
    <3>1. worker'[w].req = worker[w].req
      BY <1>1, <2>2, OneThread DEF Looping, OwnStep
    <3> QED BY <1>5, <2>2, <3>1 DEF Excused
  <2>3. CASE v = w /\ Abort(w)
    <3>1. ShareItem(d, e)
      <4>1. d.refs \in Seq(Nat \ {0}) /\ e.refs \in Seq(Nat \ {0})
        BY <1>1, KnownType
      <4> QED BY <4>1, ShareIds
    <3>2. {d.cust, e.cust} \subseteq torn'
      BY <1>1, <1>2, <1>5, <2>3, <3>1, AbortShape
    <3> QED BY <1>2, <3>2 DEF Excused
  <2>4. CASE v = w /\ DeleteCart(w)
    <3>1. PICK old \in carts : old.cust = Owner(w) /\ carts' = carts \ {old}
      BY <1>1, <2>4, DeleteCartShape
    <3>2. /\ worker[w].req.op = "merge" /\ worker[w].req \in Requests
          /\ Owner(w) = worker[w].req.other
      BY <1>1, <1>5, <2>4, DeleteCartShape, NamedCustomers DEF Looping
    <3>3. worker[w].req.other \in {c, b}
      BY <1>5, <2>4, <3>2, MergeNames
    <3>4. d # old /\ e # old
      BY <3>1
    <3> QED BY <1>1, <1>2, <3>1, <3>2, <3>3, <3>4 DEF OneCartInv, OneEach
  <2> QED BY <1>1, <1>5, <2>1, <2>2, <2>3, <2>4 DEF GoesOn
<1> QED BY <1>3, <1>4, <1>5 DEF Excused

\* The cart saved shares no more than the cart it replaces, unless by a merge.
LEMMA SavedExcused ==
    ASSUME MaxLag = 0, SharingInv, OneCartInv', NEW w \in Workers,
           AddItem(w) \/ RemoveItem(w) \/ MergeItem(w),
           NEW old \in carts, NEW doc, doc.id = old.id, doc.cust = old.cust,
           old.cust = worker[w].req.cust, carts' = (carts \ {old}) \cup {doc},
           \A id : InCart(doc, id) =>
               \/ InCart(old, id)
               \/ /\ ~RemoveItem(w) /\ worker[w].hand # <<>>
                  /\ worker[w].hand[1] \in StoredItem /\ id = worker[w].hand[1].id,
           NEW e \in carts \ {old}, Shares(doc, e)
    PROVE  Excused(doc.cust, e.cust)'
<1> DEFINE st == worker[w]
<1>1. /\ OneCartInv /\ TypeInv /\ GoesOn(w) /\ Frame(w) /\ Drawn(w) /\ Private(w) /\ FromSession(w)
      /\ TornTogether(w)
  <2>1. Handle(w)
    BY DEF Handle
  <2> QED BY <2>1, NextPhase, FrameStep DEF SharingInv, DrawnInv, ItemIdsInv, OneCartInv
<1>2. /\ torn' = torn /\ ~DeleteCart(w) /\ ~Abort(w) /\ Busy(w)
      /\ \E step \in {"addItem", "removeItem", "mergeItem"} : Does(w, step)
  <2>1. torn' = torn /\ \E step \in {"addItem", "removeItem", "mergeItem"} : Does(w, step)
    BY DEF AddItem, RemoveItem, MergeItem
  <2>2. ~DeleteCart(w)
    BY <2>1 DEF DeleteCart, Does
  <2>3. ~Abort(w)
    <3>1. aborted' = aborted
      BY DEF AddItem, RemoveItem, MergeItem
    <3>2. aborted \in Nat
      BY <1>1, CartsAssumption DEF TypeInv
    <3> QED BY <3>1, <3>2 DEF Abort
  <2> QED BY <1>1, <2>1, <2>2, <2>3 DEF Frame
<1>3. ASSUME NEW c, NEW b, Excused(c, b) PROVE Excused(c, b)'
  <2>1. CASE {c, b} \subseteq torn
    BY <1>2, <2>1 DEF Excused
  <2>2. ASSUME NEW v \in Workers, Looping(v), {c, b} = Named(worker[v].req)
        PROVE  Excused(c, b)'
    <3>1. Looping(v)' /\ worker'[v].req = worker[v].req
      <4>1. CASE v # w
        BY <1>1, <2>2, <4>1 DEF Frame, Looping, Busy
      <4>2. CASE v = w
        <5>1. Looping(w)' /\ Handle(w)
          BY <1>1, <1>2, <2>2, <4>2 DEF GoesOn, Handle
        <5> QED BY <1>1, <4>2, <5>1, OneThread DEF Looping, OwnStep
      <4> QED BY <4>1, <4>2
    <3> QED BY <2>2, <3>1 DEF Excused
  <2> QED BY <1>3, <2>1, <2>2 DEF Excused
<1>4. PICK id : InCart(doc, id) /\ InCart(e, id)
  BY DEF Shares
<1>5. CASE InCart(old, id)
  <2>1. Shares(old, e)
    BY <1>4, <1>5 DEF Shares
  <2>2. Excused(old.cust, e.cust)
    BY <2>1 DEF SharingInv
  <2> QED BY <1>3, <2>2
<1>6. CASE ~RemoveItem(w) /\ st.hand # <<>> /\ st.hand[1] \in StoredItem /\ id = st.hand[1].id
  <2>1. id # 0
    BY <1>6 DEF StoredItem
  <2>2. CASE AddItem(w)
    <3>1. Does(w, "addItem")
      BY <2>2 DEF AddItem
    <3>2. Adding(w)
      BY <1>1, <3>1, Working DEF PhaseOK, Adding
    <3> QED BY <1>1, <1>4, <1>6, <2>1, <3>2 DEF Private
  <2>3. CASE MergeItem(w)
    <3>1. /\ st.req.op = "merge" /\ st.req \in Requests /\ Goal(st) = "mergeItem"
          /\ st.hand \in Seq(StoredItem)
      BY <1>1, <1>2, <2>3, MergeItemShape, NamedCustomers
    <3>2. Looping(w) /\ 1 \in 1..Len(st.hand)
      BY <1>2, <1>6, <3>1 DEF Looping
    <3>3. PICK e0 \in carts : e0.cust = st.req.other /\ InCart(e0, id)
      BY <1>1, <1>6, <3>2 DEF FromSession
    <3>4. st.req.cust # st.req.other /\ Named(st.req) = {st.req.cust, st.req.other}
      BY <3>1, MergeNames
    <3>5. CASE e = e0
      <4>1. Excused(doc.cust, e.cust)
        BY <3>2, <3>3, <3>4, <3>5 DEF Excused
      <4> QED BY <1>3, <4>1
    <3>6. CASE e # e0
      <4>1. Excused(e.cust, st.req.other)
        <5>1. Shares(e, e0)
          BY <1>4, <3>3, <3>6 DEF Shares
        <5> QED BY <3>3, <5>1 DEF SharingInv
      <4>2. CASE {e.cust, st.req.other} \subseteq torn
        <5>1. {doc.cust, e.cust} \subseteq torn
          BY <1>1, <3>2, <4>2 DEF TornTogether
        <5>2. Excused(doc.cust, e.cust)
          BY <5>1 DEF Excused
        <5> QED BY <1>3, <5>2
      <4>3. ASSUME NEW v \in Workers, Looping(v), {e.cust, st.req.other} = Named(worker[v].req)
            PROVE  FALSE
        <5>1. v = w
          BY <1>1, <1>2, <3>4, <4>3 DEF OneCartInv, Separate, Looping
        <5>2. e.cust = st.req.cust
          BY <3>4, <4>3, <5>1
        <5>3. e = old
          BY <1>1, <5>2 DEF OneCartInv, OneEach
        <5> QED BY <5>3
      <4> QED BY <4>1, <4>2, <4>3 DEF Excused
    <3> QED BY <3>5, <3>6
  <2> QED BY <1>6, <2>2, <2>3
<1> QED BY <1>4, <1>5, <1>6

\* Carts that share an item after a step are excused: torn, or in the middle
\* of one merge.
LEMMA ShareStep ==
    ASSUME MaxLag = 0, SharingInv, OneCartInv', NEW w \in Workers, Handle(w) \/ Abort(w),
           NEW d \in carts', NEW e \in carts', Shares(d, e)
    PROVE  Excused(d.cust, e.cust)'
<1>1. OneCartInv /\ TypeInv /\ Drawn(w)
  BY DEF SharingInv, DrawnInv, ItemIdsInv, OneCartInv
<1>2. \A c, b : Excused(c, b)' => Excused(b, c)'
  <2>1. \A c, b : {c, b} = {b, c}
    OBVIOUS
  <2> QED BY <2>1 DEF Excused
<1>3. \A f, g : Shares(f, g) => Shares(g, f)
  BY DEF Shares
<1>4. CASE AddItem(w) \/ RemoveItem(w) \/ MergeItem(w)
  <2>1. PICK old, doc :
               /\ old \in carts
               /\ doc.id = old.id /\ doc.cust = old.cust /\ old.cust = worker[w].req.cust
               /\ carts' = (carts \ {old}) \cup {doc}
               /\ \A id : InCart(doc, id) =>
                      \/ InCart(old, id)
                      \/ /\ ~RemoveItem(w) /\ worker[w].hand # <<>>
                         /\ worker[w].hand[1] \in StoredItem /\ id = worker[w].hand[1].id
    BY <1>1, <1>4, SavedRefs
  <2>2. ASSUME NEW f \in carts \ {old}, Shares(doc, f) PROVE Excused(doc.cust, f.cust)'
    BY <1>4, <2>1, <2>2, SavedExcused
  <2>3. CASE d = doc \/ e = doc
    <3>1. d # e
      BY DEF Shares
    <3> QED BY <1>2, <1>3, <2>1, <2>2, <2>3, <3>1
  <2>4. CASE d # doc /\ e # doc
    <3>1. d \in carts /\ e \in carts
      BY <2>1, <2>4
    <3> QED BY <3>1, ExcuseKept
  <2> QED BY <2>3, <2>4
<1>5. CASE Create(w)
  <2>1. PICK doc : doc = [id |-> nextId, cust |-> worker[w].cart.cust, refs |-> <<>>]
    OBVIOUS
  <2>2. carts' = carts \cup {doc} /\ doc.refs = <<>>
    BY <1>1, <1>5, <2>1, CreateShape
  <2>3. \A id : ~InCart(doc, id)
    BY <2>2 DEF InCart
  <2>4. d # doc /\ e # doc
    BY <2>3 DEF Shares
  <2> QED BY <2>2, <2>4, ExcuseKept
<1>6. CASE Find(w) \/ HasItem(w) \/ FindItem(w) \/ Increment(w) \/ SaveItem(w) \/ SaveQuantity(w)
             \/ DestroyItem(w) \/ DeleteCart(w) \/ MergeItems(w) \/ Abort(w)
  <2>1. carts' \subseteq carts
    BY <1>1, <1>6, FindShape, HasItemShape, FindItemShape, IncrementShape, SaveItemShape,
         SaveQuantityShape, DestroyItemShape, DeleteCartShape, MergeItemsShape, AbortShape
  <2> QED BY <2>1, ExcuseKept
<1> QED BY <1>4, <1>5, <1>6 DEF Handle

\* The two customers of a merge in its loop are torn together.
LEMMA TornStep ==
    ASSUME MaxLag = 0, SharingInv, NEW w \in Workers, Handle(w) \/ Abort(w), NEW v \in Workers
    PROVE  TornTogether(v)'
<1>1. OneCartInv /\ TypeInv /\ GoesOn(w) /\ Frame(w) /\ TornTogether(v)
  BY NextPhase, FrameStep DEF SharingInv, DrawnInv, ItemIdsInv, OneCartInv
<1>2. SUFFICES ASSUME Looping(v)' PROVE TornTogether(v)'
  BY DEF TornTogether
<1>3. CASE v # w
  <2>1. worker'[v] = worker[v] /\ Looping(v)
    BY <1>1, <1>2, <1>3 DEF Frame, Looping, Busy
  <2>2. Busy(v) /\ worker[v].req.cust \in Named(worker[v].req)
           /\ worker[v].req.other \in Named(worker[v].req)
    BY <1>1, <2>1, NamedCustomers DEF Looping
  <2>3. /\ worker[v].req.cust \in torn' <=> worker[v].req.cust \in torn
        /\ worker[v].req.other \in torn' <=> worker[v].req.other \in torn
    BY <1>1, <1>3, <2>2, Untouched
  <2> QED BY <1>1, <2>1, <2>3 DEF TornTogether
<1>4. CASE v = w
  <2>1. worker'[w].req = worker[w].req
    BY <1>1, <1>2, <1>4, OneThread DEF Looping, OwnStep
  <2>2. CASE Looping(w) /\ (Find(w) \/ Create(w) \/ MergeItem(w))
    <3>1. torn' = torn
      BY <2>2 DEF Find, Create, MergeItem
    <3> QED BY <1>1, <1>4, <2>1, <2>2, <3>1 DEF TornTogether
  <2>3. CASE MergeItems(w)
    <3>1. /\ worker[w].req.op = "merge"
          /\ torn' = IF Named(worker[w].req) \cap torn = {} THEN torn
                     ELSE torn \cup Named(worker[w].req)
      BY <1>1, <2>3, MergeItemsShape
    <3>2. {worker[w].req.cust, worker[w].req.other} = Named(worker[w].req)
      BY <1>1, <3>1, NamedCustomers, MergeNames DEF Frame
    <3>3. worker[w].req.cust \in torn' <=> worker[w].req.other \in torn'
      BY <3>1, <3>2
    <3> QED BY <1>4, <2>1, <3>3 DEF TornTogether
  <2> QED BY <1>1, <1>2, <1>4, <2>2, <2>3 DEF GoesOn
<1> QED BY <1>3, <1>4

\* Every step keeps shared items to merges.
LEMMA SharingStep ==
    ASSUME Serial, MaxLag = 0, SharingInv, [Next]_vars
    PROVE  SharingInv'
<1>1. DrawnInv' /\ OneCartInv' /\ OneCartInv
  <2>1. DrawnInv'
    BY DrawnStep DEF SharingInv
  <2> QED BY <2>1 DEF SharingInv, DrawnInv, ItemIdsInv
<1>2. ASSUME NEW w \in Workers, Handle(w) \/ Abort(w) PROVE SharingInv'
  BY <1>1, <1>2, ShareStep, TornStep DEF SharingInv
<1>3. ASSUME NEW w \in Workers, NEW req \in Requests, Receive(w, req) PROVE SharingInv'
  <2>1. /\ UNCHANGED <<carts, torn>> /\ ~Busy(w)
        /\ \A v \in Workers \ {w} : worker'[v] = worker[v]
        /\ worker'[w].req = req /\ worker'[w].todo = Script(req.op)
    BY <1>1, <1>3, ReceiveShape
  <2>2. req.op = "merge" => Goal(worker'[w]) = "mergeItems"
    BY <2>1, Spelled DEF Script, Goal
  <2>3. \A v \in Workers : Looping(v)' <=> Looping(v)
    BY <2>1, <2>2 DEF Looping, Busy
  <2>4. \A v \in Workers : Looping(v) => worker'[v] = worker[v]
    BY <2>1 DEF Looping
  <2>5. \A c, b : Excused(c, b) => Excused(c, b)'
    BY <2>1, <2>3, <2>4 DEF Excused
  <2>6. \A v \in Workers : TornTogether(v)'
    BY <2>1, <2>3, <2>4 DEF TornTogether, SharingInv
  <2> QED BY <1>1, <2>1, <2>5, <2>6 DEF SharingInv
<1>4. CASE UNCHANGED vars \/ Quiesce
  <2>1. UNCHANGED <<carts, worker, torn>>
    BY <1>4 DEF Quiesce, vars
  <2> QED
    BY <1>1, <2>1 DEF SharingInv, Excused, TornTogether, Looping, Busy
<1>5. CASE CatchUp
  BY <1>1, <1>5 DEF CatchUp, OneCartInv
<1> QED BY <1>2, <1>3, <1>4, <1>5 DEF Next

\* At the start nothing is shared.
LEMMA SharingInit ==
    ASSUME Init
    PROVE  SharingInv
<1>1. carts = {} /\ \A w \in Workers : ~Busy(w)
  BY DEF Init, Busy, Free
<1> QED BY <1>1, DrawnInit DEF SharingInv, TornTogether, Looping

\* Carts that share an item without an excuse would contradict the invariant.
LEMMA SharingOK ==
    ASSUME SharingInv
    PROVE  ItemsNotShared
<1>1. TypeInv
  BY DEF SharingInv, DrawnInv, ItemIdsInv, OneCartInv
<1>2. ASSUME NEW d \in carts, NEW e \in carts, ShareItem(d, e)
      PROVE  Excused(d.cust, e.cust)
  <2>1. d.refs \in Seq(Nat \ {0}) /\ e.refs \in Seq(Nat \ {0})
    BY <1>1, KnownType
  <2>2. Shares(d, e)
    BY <1>2, <2>1, ShareIds
  <2> QED BY <2>2 DEF SharingInv
<1> QED BY <1>2 DEF ItemsNotShared, Excused, Looping

\* When the requests naming a customer are served one after another and reads
\* are current, two carts share an item document only while a merge moves it,
\* or after one was cut off (CartsController.mergeCarts, CartResource.merge).
THEOREM ItemsNotSharedSerial ==
    ASSUME Serial, MaxLag = 0
    PROVE  Spec => []ItemsNotShared
<1>1. Init => SharingInv
  BY SharingInit
<1>2. SharingInv /\ [Next]_vars => SharingInv'
  BY SharingStep
<1>3. SharingInv => ItemsNotShared
  BY SharingOK
<1> QED BY <1>1, <1>2, <1>3, PTL DEF Spec

-----------------------------------------------------------------------------
(* The carts that are not torn refer to items that are there, each once *)

\* The cart w uses is what the collection holds.
Exact(w) ==
    At(w, LoadedSteps) =>
        \A d \in carts : d.id = worker[w].cart.id /\ d.cust \notin torn =>
            RefsOf(worker[w].cart.items) = d.refs

\* Once saved, the new item stays until its cart refers to it.
Kept(w) ==
    Adding(w) /\ worker[w].hand[1].id # 0 => worker[w].hand[1].id \in Ids(items)

\* The item to be removed is the first one of its kind in the customer's cart,
\* until the cart lets go of it, and in no other cart unless that one is torn.
Removal(w) ==
    Removing(w) =>
        /\ worker[w].hand[1].itemId = worker[w].req.itemId
        /\ \A e \in carts : InCart(e, worker[w].hand[1].id) =>
               e.cust \in torn \/ (e.cust = worker[w].req.cust /\ ~Dropped(w))
        /\ ~Dropped(w) /\ worker[w].req.cust \notin torn =>
               \E d \in carts : \E k \in 1..Len(d.refs) :
                   /\ d.cust = worker[w].req.cust /\ d.refs[k] = worker[w].hand[1].id
                   /\ \A j \in 1..Len(d.refs) : \A i \in items :
                          j < k /\ i.id = d.refs[j] => i.itemId # worker[w].req.itemId

\* What is still to be merged is not in the customer's cart yet.
Apart(w) ==
    Looping(w) /\ worker[w].req.cust \notin torn =>
        /\ \A j, k \in 1..Len(worker[w].hand) :
               worker[w].hand[j].id = worker[w].hand[k].id => j = k
        /\ \A d \in carts : d.cust = worker[w].req.cust =>
               \A k \in 1..Len(worker[w].hand) : ~InCart(d, worker[w].hand[k].id)

WholeInv ==
    /\ SharingInv
    /\ \A d \in carts : d.cust \notin torn =>
           \A j \in 1..Len(d.refs) : d.refs[j] \in Ids(items)
    /\ \A d \in carts : d.cust \notin torn =>
           \A j, k \in 1..Len(d.refs) : d.refs[j] = d.refs[k] => j = k
    /\ \A w \in Workers : Exact(w) /\ Kept(w) /\ Removal(w) /\ Apart(w)

\* The invariants of the layers below, for one handler.
LEMMA Below ==
    ASSUME MaxLag = 0, SharingInv, NEW w \in Workers
    PROVE  /\ DrawnInv /\ ItemIdsInv /\ OneCartInv /\ TypeInv
           /\ Drawn(w) /\ Private(w) /\ FromSession(w) /\ TornTogether(w)
           /\ Handle(w) \/ Abort(w) => GoesOn(w) /\ Frame(w) /\ CartSources(w) /\ HandSources(w)
<1>1. DrawnInv /\ ItemIdsInv /\ OneCartInv /\ TypeInv
  BY DEF SharingInv, DrawnInv, ItemIdsInv, OneCartInv
<1> QED BY <1>1, NextPhase, FrameStep, Sources DEF SharingInv, DrawnInv

\* What a step does to the item documents.
LEMMA LaterItems ==
    ASSUME MaxLag = 0, ItemIdsInv, NEW w \in Workers, Handle(w) \/ Abort(w)
    PROVE  /\ \A i \in items' : \A j \in items : i.id = j.id => i.itemId = j.itemId
           /\ \A id \in Ids(items) :
                 id \in Ids(items') \/ (DestroyItem(w) /\ id = worker[w].hand[1].id)
<1> DEFINE st == worker[w]
<1>1. OneCartInv /\ TypeInv /\ nextId \in Nat /\ items \subseteq StoredItem
      /\ st.hand \in Seq(Item)
  BY KnownType DEF ItemIdsInv, OneCartInv
<1>2. \A i \in items : i.id < nextId /\ i.id \in Nat
  BY <1>1 DEF ItemIdsInv, Known, StoredItem, Item
<1>3. \A i \in items : \A j \in items : i.id = j.id => i.itemId = j.itemId
  BY DEF ItemIdsInv
<1>4. CASE items' = items
  BY <1>3, <1>4
<1>5. ASSUME NEW item \in StoredItem, items' = Upsert(item, items), st.hand # <<>>,
             item.itemId = st.hand[1].itemId,
             item.id = nextId \/ item.id = st.hand[1].id
      PROVE  /\ \A i \in items' : \A j \in items : i.id = j.id => i.itemId = j.itemId
             /\ \A id \in Ids(items) : id \in Ids(items')
  <2>1. \A i \in items' : i \in items \/ i = item
    BY <1>5 DEF Upsert
  <2>2. \A j \in items : item.id = j.id => item.itemId = j.itemId
    <3>1. SUFFICES ASSUME NEW j \in items, item.id = j.id
                   PROVE  item.itemId = j.itemId
      OBVIOUS
    <3>2. item.id # nextId
      BY <1>1, <1>2, <3>1
    <3>3. st.hand[1] \in StoredItem /\ Known(st.hand[1])
      <4>1. 1 \in 1..Len(st.hand)
        BY <1>1, <1>5
      <4>2. st.hand[1].id # 0
        BY <1>5, <3>2 DEF StoredItem
      <4> QED BY <1>1, <4>1, <4>2, CopyKnown
    <3>4. j \in StoredItem /\ Known(j)
      BY <1>1 DEF Known
    <3> QED BY <1>5, <3>1, <3>2, <3>3, <3>4 DEF ItemIdsInv
  <2>3. \A id \in Ids(items) : id \in Ids(items')
    BY <1>5 DEF Ids, Upsert
  <2> QED BY <1>3, <2>1, <2>2, <2>3
<1>6. CASE SaveItem(w)
  <2>1. st.hand # <<>> /\ \E item \in StoredItem :
                  /\ item.itemId = st.hand[1].itemId
                  /\ item.id = nextId \/ item.id = st.hand[1].id
                  /\ items' = Upsert(item, items)
    BY <1>1, <1>6, SaveItemShape
  <2> QED BY <1>5, <2>1
<1>7. CASE SaveQuantity(w)
  <2>1. st.hand # <<>> /\ \E item \in StoredItem :
                  /\ item.itemId = st.hand[1].itemId /\ item.id = st.hand[1].id
                  /\ items' = Upsert(item, items)
    BY <1>1, <1>7, SaveQuantityShape
  <2> QED BY <1>5, <2>1
<1>8. CASE DestroyItem(w)
  <2>1. items' = {i \in items : i.id # st.hand[1].id}
    BY <1>1, <1>8, DestroyItemShape
  <2> QED BY <1>3, <1>8, <2>1 DEF Ids
<1>9. CASE AddItem(w) \/ RemoveItem(w) \/ MergeItem(w)
  <2>1. items' = items
    BY <1>1, <1>9, AddItemShape, RemoveItemShape, MergeItemShape DEF Saves
  <2> QED BY <1>4, <2>1
<1>10. CASE Find(w) \/ Create(w) \/ HasItem(w) \/ FindItem(w) \/ Increment(w)
              \/ DeleteCart(w) \/ MergeItems(w) \/ Abort(w)
  <2>1. items' = items
    BY <1>1, <1>10, FindShape, CreateShape, HasItemShape, FindItemShape, IncrementShape,
       DeleteCartShape, MergeItemsShape, AbortShape
  <2> QED BY <1>4, <2>1
<1> QED BY <1>6, <1>7, <1>8, <1>9, <1>10 DEF Handle

\* An item is destroyed once no cart refers to it, but torn ones.
LEMMA RefsStay ==
    ASSUME MaxLag = 0, WholeInv, NEW w \in Workers, Handle(w) \/ Abort(w)
    PROVE  /\ \A d \in carts : d.cust \notin torn =>
                  \A j \in 1..Len(d.refs) : d.refs[j] \in Ids(items')
           /\ \A d \in carts : d.cust \notin torn =>
                  \A j \in 1..Len(d.refs) : \A i \in items' :
                      i.id = d.refs[j] => \E o \in items : o.id = i.id /\ o.itemId = i.itemId
<1>1. ItemIdsInv /\ OneCartInv /\ TypeInv /\ Removal(w)
  BY Below DEF WholeInv
<1>2. SUFFICES ASSUME NEW d \in carts, d.cust \notin torn, NEW j \in 1..Len(d.refs)
               PROVE  /\ d.refs[j] \in Ids(items')
                      /\ \A i \in items' : i.id = d.refs[j] =>
                             \E o \in items : o.id = i.id /\ o.itemId = i.itemId
  OBVIOUS
<1>3. d.refs[j] \in Ids(items)
  BY <1>2 DEF WholeInv
<1>4. ASSUME DestroyItem(w), d.refs[j] = worker[w].hand[1].id PROVE FALSE
  <2>1. Does(w, "destroyItem")
    BY <1>4 DEF DestroyItem
  <2>2. Removing(w) /\ Dropped(w)
    BY <1>1, <1>4, <2>1, Working, DestroyItemShape DEF Removing, Dropped
  <2>3. InCart(d, worker[w].hand[1].id)
    BY <1>4 DEF InCart
  <2> QED BY <1>1, <1>2, <2>2, <2>3 DEF Removal
<1>5. d.refs[j] \in Ids(items')
  BY <1>1, <1>3, <1>4, LaterItems
<1>6. PICK o \in items : o.id = d.refs[j]
  BY <1>3 DEF Ids
<1>7. \A i \in items' : i.id = d.refs[j] => i.itemId = o.itemId
  BY <1>1, <1>6, LaterItems
<1> QED BY <1>5, <1>6, <1>7

Added(w, old, doc) ==
    /\ ~RemoveItem(w) /\ worker[w].hand # <<>> /\ worker[w].hand[1] \in StoredItem
    /\ Len(doc.refs) = Len(old.refs) + 1
    /\ \A k \in 1..Len(old.refs) : doc.refs[k] = old.refs[k]
    /\ doc.refs[Len(old.refs) + 1] = worker[w].hand[1].id

Without(old, doc, n) ==
    /\ n \in 1..Len(old.refs) /\ Len(doc.refs) = Len(old.refs) - 1
    /\ \A k \in 1..Len(old.refs) - 1 :
           doc.refs[k] = IF k < n THEN old.refs[k] ELSE old.refs[k + 1]

Removed(w, old, doc) ==
    /\ RemoveItem(w)
    /\ IF Wanted(w) = {} THEN doc.refs = old.refs ELSE Without(old, doc, FirstWanted(w))

\* A cart that is not torn is saved with exactly this change.
LEMMA SavedWhole ==
    ASSUME MaxLag = 0, OneCartInv, NEW w \in Workers, Exact(w),
           AddItem(w) \/ RemoveItem(w) \/ MergeItem(w)
    PROVE  \E old \in carts : \E doc :
               /\ doc.id = old.id /\ doc.cust = old.cust /\ old.cust = worker[w].req.cust
               /\ carts' = (carts \ {old}) \cup {doc} /\ UNCHANGED <<items, nextId, torn>>
               /\ At(w, LoadedSteps) /\ old.id = worker[w].cart.id
               /\ old.cust \notin torn => Added(w, old, doc) \/ Removed(w, old, doc)
<1> DEFINE st == worker[w]
<1>1. PICK step \in {"addItem", "removeItem", "mergeItem"} : Does(w, step)
  BY DEF AddItem, RemoveItem, MergeItem
<1>2. PICK its : its = st.cart.items
  OBVIOUS
<1>3. its \in Seq(StoredItem) /\ At(w, LoadedSteps) /\ st.hand \in Seq(Item)
  BY <1>1, <1>2, Working DEF LoadedSteps
<1>4. RefsOf(its) \in Seq(Nat) /\ Len(RefsOf(its)) = Len(its)
      /\ \A k \in 1..Len(its) : RefsOf(its)[k] = its[k].id
  BY <1>3, RefsFacts
<1>5. ASSUME NEW old \in carts, NEW refs, old.cust = st.req.cust, Saves(w, old, refs)
      PROVE  \E doc :
               /\ doc = [id |-> old.id, cust |-> old.cust, refs |-> refs]
               /\ doc.refs = refs
               /\ doc.id = old.id /\ doc.cust = old.cust /\ old.cust = worker[w].req.cust
               /\ carts' = (carts \ {old}) \cup {doc} /\ UNCHANGED <<items, nextId, torn>>
               /\ At(w, LoadedSteps) /\ old.id = worker[w].cart.id
               /\ old.cust \notin torn => old.refs = RefsOf(its)
  <2>1. PICK doc : doc = [id |-> old.id, cust |-> old.cust, refs |-> refs]
    OBVIOUS
  <2>2. doc.refs = refs /\ doc.id = old.id /\ doc.cust = old.cust
    BY <2>1
  <2>3. /\ carts' = (carts \ {old}) \cup {doc} /\ UNCHANGED <<items, nextId, torn>>
        /\ old.id = st.cart.id
    BY <1>5, <2>1 DEF Saves
  <2>4. old.cust \notin torn => old.refs = RefsOf(its)
    BY <1>2, <1>3, <2>3 DEF Exact
  <2> QED BY <1>3, <1>5, <2>1, <2>2, <2>3, <2>4
<1>6. CASE AddItem(w) \/ MergeItem(w)
  <2>1. st.hand # <<>> /\ st.hand[1] \in StoredItem /\ Head(st.hand) = st.hand[1]
    BY <1>3, <1>6, AddItemShape, MergeItemShape
  <2>2. PICK refs, new : new = st.hand[1].id /\ refs = Append(RefsOf(its), new)
    OBVIOUS
  <2>3. PICK old \in carts : old.cust = st.req.cust /\ Saves(w, old, refs)
    BY <1>2, <1>6, <2>1, <2>2, AddItemShape, MergeItemShape
  <2>4. ~RemoveItem(w)
    <3>1. CASE AddItem(w)
      BY <3>1 DEF AddItem, RemoveItem, Does
    <3>2. CASE MergeItem(w)
      BY <3>2 DEF MergeItem, RemoveItem, Does
    <3> QED BY <1>6, <3>1, <3>2
  <2>5. PICK doc :
               /\ doc.refs = refs
               /\ doc.id = old.id /\ doc.cust = old.cust /\ old.cust = worker[w].req.cust
               /\ carts' = (carts \ {old}) \cup {doc} /\ UNCHANGED <<items, nextId, torn>>
               /\ At(w, LoadedSteps) /\ old.id = worker[w].cart.id
               /\ old.cust \notin torn => old.refs = RefsOf(its)
    BY <1>5, <2>3
  <2>6. PICK r : r = RefsOf(its)
    OBVIOUS
  <2>7. new \in Nat /\ r \in Seq(Nat) /\ refs = Append(r, new)
    BY <1>4, <2>1, <2>2, <2>6 DEF StoredItem, Item
  <2>8. Len(refs) = Len(r) + 1 /\ (\A k \in 1..Len(r) : refs[k] = r[k]) /\ refs[Len(r) + 1] = new
    BY <2>7
  <2>9. old.cust \notin torn => Added(w, old, doc)
    BY <2>1, <2>2, <2>4, <2>5, <2>6, <2>8 DEF Added
  <2> QED BY <2>5, <2>9
<1>7. CASE RemoveItem(w)
  <2>1. PICK old \in carts, newItems \in Seq(StoredItem) :
                  /\ old.cust = worker[w].req.cust
                  /\ Saves(w, old, RefsOf(newItems))
                  /\ newItems = IF Wanted(w) = {} THEN its ELSE RemoveAt(its, FirstWanted(w))
    BY <1>2, <1>7, RemoveItemShape
  <2>2. PICK refs : refs = RefsOf(newItems)
    OBVIOUS
  <2>3. PICK doc :
               /\ doc.refs = refs
               /\ doc.id = old.id /\ doc.cust = old.cust /\ old.cust = worker[w].req.cust
               /\ carts' = (carts \ {old}) \cup {doc} /\ UNCHANGED <<items, nextId, torn>>
               /\ At(w, LoadedSteps) /\ old.id = worker[w].cart.id
               /\ old.cust \notin torn => old.refs = RefsOf(its)
    BY <1>5, <2>1, <2>2
  <2>4. ASSUME old.cust \notin torn PROVE Removed(w, old, doc)
    <3>1. CASE Wanted(w) = {}
      BY <1>7, <2>1, <2>2, <2>3, <2>4, <3>1 DEF Removed
    <3>2. CASE Wanted(w) # {}
      <4>1. PICK n : n = FirstWanted(w)
        OBVIOUS
      <4>2. n \in 1..Len(its)
        BY <1>2, <1>3, <3>2, <4>1, FirstWantedIn
      <4>3. newItems = RemoveAt(its, n)
        BY <2>1, <3>2, <4>1
      <4>4. /\ Len(refs) = Len(its) - 1 /\ Len(its) \in Nat
            /\ \A k \in 1..Len(its) - 1 : refs[k] = IF k < n THEN its[k].id ELSE its[k + 1].id
        BY <1>3, <2>2, <4>2, <4>3, RemoveRefs
      <4>5. Len(old.refs) = Len(its) /\ \A k \in 1..Len(its) : old.refs[k] = its[k].id
        BY <1>4, <2>3, <2>4
      <4>6. \A k \in 1..Len(its) - 1 : refs[k] = IF k < n THEN old.refs[k] ELSE old.refs[k + 1]
        <5>1. \A k \in 1..Len(its) - 1 : k \in 1..Len(its) /\ k + 1 \in 1..Len(its)
          BY <4>4
        <5> QED BY <4>4, <4>5, <5>1
      <4>7. Without(old, doc, n)
        BY <2>3, <4>2, <4>4, <4>5, <4>6 DEF Without
      <4> QED BY <1>7, <3>2, <4>1, <4>7 DEF Removed
    <3> QED BY <3>1, <3>2
  <2> QED BY <2>3, <2>4
<1> QED BY <1>6, <1>7

\* A thread still busy after a step has what the step gave it.
LEMMA Stays ==
    ASSUME NEW w \in Workers, NEW todo, NEW cart, NEW hand, Becomes(w, todo, cart, hand), Busy(w)'
    PROVE  /\ todo # <<>> /\ worker'[w].todo = todo /\ worker'[w].cart = cart
           /\ worker'[w].hand = hand /\ worker'[w].req = worker[w].req
<1>1. worker'[w] # Free
  BY DEF Busy, Free
<1> QED BY <1>1 DEF Becomes

\* An item that is added is there, and its cart does not refer to it yet.
LEMMA AddedNew ==
    ASSUME MaxLag = 0, WholeInv, NEW w \in Workers, AddItem(w) \/ MergeItem(w),
           NEW old \in carts, old.cust = worker[w].req.cust, old.cust \notin torn,
           worker[w].hand # <<>>, worker[w].hand[1] \in StoredItem
    PROVE  worker[w].hand[1].id \in Ids(items) /\ ~InCart(old, worker[w].hand[1].id)
<1> DEFINE st == worker[w]
<1>1. /\ OneCartInv /\ TypeInv /\ Private(w) /\ FromSession(w) /\ TornTogether(w)
      /\ Kept(w) /\ Apart(w)
  BY Below DEF WholeInv
<1>2. st.hand[1].id # 0
  BY DEF StoredItem
<1>3. CASE AddItem(w)
  <2>1. Does(w, "addItem")
    BY <1>3 DEF AddItem
  <2>2. Adding(w)
    BY <1>1, <2>1, Working DEF PhaseOK, Adding
  <2> QED BY <1>1, <1>2, <2>2 DEF Kept, Private
<1>4. CASE MergeItem(w)
  <2>1. Looping(w)
    <3>1. Does(w, "mergeItem")
      BY <1>4 DEF MergeItem
    <3>2. Busy(w) /\ st.req.op = "merge" /\ Goal(st) = "mergeItem"
      BY <1>1, <1>4, <3>1, Working, MergeItemShape
    <3> QED BY <3>2 DEF Looping
  <2>2. 1 \in 1..Len(st.hand)
    <3>1. st.hand \in Seq(Item)
      BY <1>1, KnownType
    <3> QED BY <3>1
  <2>3. ~InCart(old, st.hand[1].id)
    BY <1>1, <2>1, <2>2 DEF Apart
  <2>4. PICK e \in carts : e.cust = st.req.other /\ InCart(e, st.hand[1].id)
    BY <1>1, <2>1, <2>2 DEF FromSession
  <2>5. e.cust \notin torn
    BY <1>1, <2>1, <2>4 DEF TornTogether
  <2>6. st.hand[1].id \in Ids(items)
    BY <2>4, <2>5 DEF WholeInv, InCart
  <2> QED BY <2>3, <2>6
<1> QED BY <1>3, <1>4

\* What the references of a document are once one was added, or removed.
LEMMA AddedRefs ==
    ASSUME NEW w \in Workers, NEW old, NEW doc, Added(w, old, doc),
           old.refs \in Seq(Nat), doc.refs \in Seq(Nat), ~InCart(old, worker[w].hand[1].id),
           \A j, k \in 1..Len(old.refs) : old.refs[j] = old.refs[k] => j = k
    PROVE  /\ \A j, k \in 1..Len(doc.refs) : doc.refs[j] = doc.refs[k] => j = k
           /\ \A j \in 1..Len(doc.refs) :
                  doc.refs[j] = worker[w].hand[1].id
                  \/ \E k \in 1..Len(old.refs) : doc.refs[j] = old.refs[k]
<1> DEFINE n == Len(old.refs)
<1>1. n \in Nat /\ Len(doc.refs) = n + 1
  BY DEF Added
<1>2. \A j \in 1..Len(doc.refs) : j \in 1..n \/ j = n + 1
  BY <1>1
<1>3. (\A k \in 1..n : doc.refs[k] = old.refs[k]) /\ doc.refs[n + 1] = worker[w].hand[1].id
  BY DEF Added
<1>4. \A k \in 1..n : old.refs[k] # worker[w].hand[1].id
  BY DEF InCart
<1> QED BY <1>2, <1>3, <1>4

\* Taking one reference out of references without a repetition leaves the
\* others.
LEMMA WithoutRefs ==
    ASSUME NEW old, NEW doc, NEW n, Without(old, doc, n),
           old.refs \in Seq(Nat), doc.refs \in Seq(Nat),
           \A j, k \in 1..Len(old.refs) : old.refs[j] = old.refs[k] => j = k
    PROVE  /\ \A j, k \in 1..Len(doc.refs) : doc.refs[j] = doc.refs[k] => j = k
           /\ \A j \in 1..Len(doc.refs) :
                  /\ doc.refs[j] # old.refs[n]
                  /\ \E k \in 1..Len(old.refs) : doc.refs[j] = old.refs[k]
<1>1. PICK m, l : m = Len(old.refs) /\ l = Len(doc.refs)
  OBVIOUS
<1>2. m \in Nat /\ l \in Nat
  BY <1>1
<1>3. /\ n \in 1..m /\ l = m - 1
      /\ \A k \in 1..m - 1 : doc.refs[k] = IF k < n THEN old.refs[k] ELSE old.refs[k + 1]
  BY <1>1 DEF Without
<1>4. n \in Nat /\ n >= 1 /\ n <= m
  BY <1>2, <1>3
<1>5. ASSUME NEW j \in 1..l
      PROVE  \E i \in 1..m : /\ i = IF j < n THEN j ELSE j + 1
                             /\ i # n /\ doc.refs[j] = old.refs[i]
  <2>1. j \in 1..m /\ j + 1 \in 1..m /\ j \in 1..m - 1 /\ j \in Nat
    BY <1>2, <1>3
  <2>2. CASE j < n
    <3>1. j # n /\ doc.refs[j] = old.refs[j]
      BY <1>3, <1>4, <2>1, <2>2
    <3> QED BY <2>1, <2>2, <3>1
  <2>3. CASE ~(j < n)
    <3>1. j + 1 # n /\ doc.refs[j] = old.refs[j + 1]
      BY <1>3, <1>4, <2>1, <2>3
    <3> QED BY <2>1, <2>3, <3>1
  <2> QED BY <2>2, <2>3
<1>6. ASSUME NEW j \in 1..l, NEW k \in 1..l, doc.refs[j] = doc.refs[k] PROVE j = k
  <2>1. PICK i \in 1..m : i = (IF j < n THEN j ELSE j + 1) /\ doc.refs[j] = old.refs[i]
    BY <1>5
  <2>2. PICK h \in 1..m : h = (IF k < n THEN k ELSE k + 1) /\ doc.refs[k] = old.refs[h]
    BY <1>5
  <2>3. i = h
    BY <1>1, <1>6, <2>1, <2>2
  <2>4. j \in Nat /\ k \in Nat
    BY <1>2
  <2> QED BY <1>4, <2>1, <2>2, <2>3, <2>4
<1>7. ASSUME NEW j \in 1..l
      PROVE  doc.refs[j] # old.refs[n] /\ \E k \in 1..m : doc.refs[j] = old.refs[k]
  <2>1. PICK i \in 1..m : i # n /\ doc.refs[j] = old.refs[i]
    BY <1>5
  <2>2. old.refs[i] # old.refs[n]
    BY <1>1, <1>3, <2>1
  <2> QED BY <2>1, <2>2
<1> QED BY <1>1, <1>6, <1>7

\* The same, whichever reference it was.
LEMMA RemovedRefs ==
    ASSUME NEW old, NEW doc, \E n : Without(old, doc, n),
           old.refs \in Seq(Nat), doc.refs \in Seq(Nat),
           \A j, k \in 1..Len(old.refs) : old.refs[j] = old.refs[k] => j = k
    PROVE  /\ \A j, k \in 1..Len(doc.refs) : doc.refs[j] = doc.refs[k] => j = k
           /\ \A j \in 1..Len(doc.refs) :
                  \E k \in 1..Len(old.refs) : doc.refs[j] = old.refs[k]
<1>1. PICK n : Without(old, doc, n)
  OBVIOUS
<1>2. \A j, k \in 1..Len(doc.refs) : doc.refs[j] = doc.refs[k] => j = k
  BY <1>1, WithoutRefs
<1>3. \A j \in 1..Len(doc.refs) :
          /\ doc.refs[j] # old.refs[n]
          /\ \E k \in 1..Len(old.refs) : doc.refs[j] = old.refs[k]
  BY <1>1, WithoutRefs
<1> QED BY <1>2, <1>3

\* The reference taken out is gone.
LEMMA WithoutGone ==
    ASSUME NEW old, NEW doc, NEW n, Without(old, doc, n),
           old.refs \in Seq(Nat \ {0}), doc.refs \in Seq(Nat),
           \A j, k \in 1..Len(old.refs) : old.refs[j] = old.refs[k] => j = k
    PROVE  ~InCart(doc, old.refs[n])
<1>1. old.refs \in Seq(Nat)
  OBVIOUS
<1>2. \A j \in 1..Len(doc.refs) :
          /\ doc.refs[j] # old.refs[n]
          /\ \E k \in 1..Len(old.refs) : doc.refs[j] = old.refs[k]
  BY <1>1, WithoutRefs
<1> QED BY <1>2 DEF InCart

\* A document that is saved keeps to the rule for those that are not torn.
LEMMA SavedStaysWhole ==
    ASSUME MaxLag = 0, WholeInv, TypeInv', NEW w \in Workers,
           AddItem(w) \/ RemoveItem(w) \/ MergeItem(w),
           NEW doc \in carts', doc \notin carts, doc.cust \notin torn
    PROVE  /\ \A j \in 1..Len(doc.refs) : doc.refs[j] \in Ids(items)
           /\ \A j, k \in 1..Len(doc.refs) : doc.refs[j] = doc.refs[k] => j = k
<1>1. OneCartInv /\ TypeInv /\ Exact(w)
  BY Below DEF WholeInv
<1>2. PICK old \in carts : \E new :
               /\ new.id = old.id /\ new.cust = old.cust /\ old.cust = worker[w].req.cust
               /\ carts' = (carts \ {old}) \cup {new}
               /\ old.cust \notin torn => Added(w, old, new) \/ Removed(w, old, new)
  BY <1>1, SavedWhole
<1>3. /\ doc.cust = old.cust /\ old.cust = worker[w].req.cust
      /\ Added(w, old, doc) \/ Removed(w, old, doc)
  BY <1>2
<1>4. /\ \A j \in 1..Len(old.refs) : old.refs[j] \in Ids(items)
      /\ \A j, k \in 1..Len(old.refs) : old.refs[j] = old.refs[k] => j = k
  BY <1>3 DEF WholeInv
<1>5. old.refs \in Seq(Nat) /\ doc.refs \in Seq(Nat)
  <2>1. old.refs \in Seq(Nat \ {0}) /\ carts' \subseteq CartDoc
    BY <1>1, KnownType DEF TypeInv, StoreInv
  <2> QED BY <2>1 DEF CartDoc
<1>6. CASE Added(w, old, doc)
  <2>1. worker[w].hand # <<>> /\ worker[w].hand[1] \in StoredItem /\ (AddItem(w) \/ MergeItem(w))
    BY <1>6 DEF Added
  <2>2. worker[w].hand[1].id \in Ids(items) /\ ~InCart(old, worker[w].hand[1].id)
    BY <1>3, <2>1, AddedNew
  <2>3. /\ \A j, k \in 1..Len(doc.refs) : doc.refs[j] = doc.refs[k] => j = k
        /\ \A j \in 1..Len(doc.refs) :
               doc.refs[j] = worker[w].hand[1].id
               \/ \E k \in 1..Len(old.refs) : doc.refs[j] = old.refs[k]
    BY <1>4, <1>5, <1>6, <2>2, AddedRefs
  <2> QED BY <1>4, <2>2, <2>3
<1>7. CASE Removed(w, old, doc)
  <2>1. CASE doc.refs = old.refs
    BY <1>4, <2>1
  <2>2. CASE Without(old, doc, FirstWanted(w))
    <3>1. /\ \A j, k \in 1..Len(doc.refs) : doc.refs[j] = doc.refs[k] => j = k
          /\ \A j \in 1..Len(doc.refs) :
                 \E k \in 1..Len(old.refs) : doc.refs[j] = old.refs[k]
      <4>1. \E n : Without(old, doc, n)
        BY <2>2
      <4> QED BY <1>4, <1>5, <4>1, RemovedRefs
    <3> QED BY <1>4, <3>1
  <2> QED BY <1>7, <2>1, <2>2 DEF Removed
<1> QED BY <1>3, <1>6, <1>7

\* After a step every cart of a customer not torn refers to existing items,
\* each once.
LEMMA CartsWhole ==
    ASSUME MaxLag = 0, WholeInv, TypeInv', NEW w \in Workers, Handle(w) \/ Abort(w),
           NEW d \in carts', d.cust \notin torn'
    PROVE  /\ \A j \in 1..Len(d.refs) : d.refs[j] \in Ids(items')
           /\ \A j, k \in 1..Len(d.refs) : d.refs[j] = d.refs[k] => j = k
<1>1. OneCartInv /\ TypeInv /\ Frame(w)
  BY Below DEF WholeInv
<1>2. d.cust \notin torn
  BY <1>1 DEF Frame
<1>3. CASE d \in carts
  BY <1>2, <1>3, RefsStay DEF WholeInv
<1>4. CASE d \notin carts
  <2>1. CASE Create(w)
    <3>1. PICK doc : doc = [id |-> nextId, cust |-> worker[w].cart.cust, refs |-> <<>>]
      OBVIOUS
    <3>2. d = doc /\ doc.refs = <<>>
      BY <1>1, <1>4, <2>1, <3>1, CreateShape
    <3> QED BY <3>2
  <2>2. CASE AddItem(w) \/ RemoveItem(w) \/ MergeItem(w)
    <3>1. items' = items
      BY <1>1, <2>2, AddItemShape, RemoveItemShape, MergeItemShape DEF Saves
    <3> QED BY <1>2, <1>4, <2>2, <3>1, SavedStaysWhole
  <2>3. CASE Find(w) \/ HasItem(w) \/ FindItem(w) \/ Increment(w) \/ SaveItem(w)
             \/ SaveQuantity(w) \/ DestroyItem(w) \/ DeleteCart(w) \/ MergeItems(w) \/ Abort(w)
    <3>1. carts' \subseteq carts
      BY <1>1, <2>3, FindShape, HasItemShape, FindItemShape, IncrementShape, SaveItemShape,
         SaveQuantityShape, DestroyItemShape, DeleteCartShape, MergeItemsShape, AbortShape
    <3> QED BY <1>4, <3>1
  <2> QED BY <2>1, <2>2, <2>3 DEF Handle
<1> QED BY <1>3, <1>4

-----------------------------------------------------------------------------
(* What w knows after its own step *)

\* The items of a cart that is not torn, as w has read them.
LEMMA ReadWhole ==
    ASSUME WholeInv, NEW w \in Workers, At(w, LoadedSteps),
           NEW d \in carts, d.id = worker[w].cart.id, d.cust \notin torn
    PROVE  /\ Len(worker[w].cart.items) = Len(d.refs)
           /\ \A k \in 1..Len(d.refs) :
                  /\ worker[w].cart.items[k] \in StoredItem
                  /\ worker[w].cart.items[k].id = d.refs[k]
                  /\ \A i \in StoredItem : Known(i) /\ i.id = d.refs[k] =>
                         i.itemId = worker[w].cart.items[k].itemId
<1>1. ItemIdsInv /\ OneCartInv /\ TypeInv /\ Exact(w)
  BY DEF WholeInv, SharingInv, DrawnInv, ItemIdsInv, OneCartInv
<1>2. PICK its : its = worker[w].cart.items
  OBVIOUS
<1>3. its \in Seq(StoredItem) /\ RefsOf(its) = d.refs
  BY <1>1, <1>2, KnownType DEF Exact
<1>4. Len(its) = Len(d.refs) /\ \A k \in 1..Len(d.refs) : d.refs[k] = its[k].id
  BY <1>3, RefsFacts
<1>5. \A k \in 1..Len(its) : its[k] \in StoredItem /\ Known(its[k])
  BY <1>1, <1>2, CopyKnown
<1> QED BY <1>1, <1>2, <1>4, <1>5 DEF ItemIdsInv

\* The thread's copy of its cart is still the document's content.
LEMMA OwnExact ==
    ASSUME MaxLag = 0, WholeInv, NEW w \in Workers, Handle(w) \/ Abort(w)
    PROVE  Exact(w)'
<1> DEFINE st == worker[w]
<1>1. OneCartInv /\ TypeInv /\ GoesOn(w) /\ Exact(w)
  BY Below DEF WholeInv
<1>2. SUFFICES ASSUME At(w, LoadedSteps)', NEW d \in carts', d.id = worker'[w].cart.id,
                      d.cust \notin torn'
               PROVE  RefsOf(worker'[w].cart.items) = d.refs
  BY DEF Exact
<1>3. Busy(w)'
  BY <1>2 DEF At
<1>4. CASE Find(w)
  <2>1. carts' = carts /\ torn' = torn
    BY <1>1, <1>4, FindShape
  <2>2. CASE \E e \in carts : Becomes(w, Tail(st.todo), Load(e), st.hand)
    <3>1. PICK e \in carts : Becomes(w, Tail(st.todo), Load(e), st.hand)
      BY <2>2
    <3>2. worker'[w].cart = Load(e)
      BY <1>3, <3>1, Stays
    <3>3. Load(e).id = e.id
      BY DEF Load
    <3>4. d = e
      BY <1>1, <1>2, <2>1, <3>2, <3>3 DEF OneCartInv, OneEach
    <3>5. \A j \in 1..Len(e.refs) : e.refs[j] \in Ids(items)
      BY <1>2, <2>1, <3>4 DEF WholeInv
    <3> QED BY <1>1, <3>2, <3>4, <3>5, LoadKnown
  <2>3. CASE \E cart : Becomes(w, <<"create">> \o st.todo, cart, st.hand)
    <3>1. PICK todo, cart : todo = <<"create">> \o st.todo /\ Becomes(w, todo, cart, st.hand)
      BY <2>3
    <3>2. worker'[w].todo = todo
      <4>1. Becomes(w, todo, cart, st.hand)
        BY <3>1
      <4> QED BY <1>3, <4>1, Stays
    <3>3. PICK step : step \in {"value", "session"} /\ Does(w, step)
      BY <1>4 DEF Find
    <3>4. st.todo \in Seq(StepNames) /\ st.todo # <<>>
      BY <1>1, <3>3, Working
    <3>5. Head(todo) = "create"
      BY <3>1, <3>4, SameGoal
    <3> QED BY <1>2, <3>2, <3>5 DEF At, LoadedSteps
  <2> QED BY <1>1, <1>4, <2>2, <2>3, FindShape
<1>5. CASE SaveItem(w)
  <2>1. PICK hand : Becomes(w, Tail(st.todo), st.cart, hand) /\ UNCHANGED <<carts, torn>>
    BY <1>1, <1>5, SaveItemShape
  <2>2. worker'[w].cart = st.cart
    BY <1>3, <2>1, Stays
  <2>3. At(w, LoadedSteps)
    <3>1. Does(w, "saveItem")
      BY <1>5 DEF SaveItem
    <3> QED BY <1>1, <3>1, Working DEF LoadedSteps
  <2> QED BY <1>1, <1>2, <2>1, <2>2, <2>3 DEF Exact
<1> QED BY <1>1, <1>2, <1>4, <1>5 DEF GoesOn

\* The item the thread is about to refer to still exists.
LEMMA OwnKept ==
    ASSUME MaxLag = 0, WholeInv, NEW w \in Workers, Handle(w) \/ Abort(w)
    PROVE  Kept(w)'
<1> DEFINE st == worker[w]
<1>1. OneCartInv /\ TypeInv /\ GoesOn(w) /\ Kept(w)
  BY Below DEF WholeInv
<1>2. SUFFICES ASSUME Adding(w)', worker'[w].hand[1].id # 0
               PROVE  worker'[w].hand[1].id \in Ids(items')
  <2>1. PICK id : id = worker'[w].hand[1].id
    OBVIOUS
  <2>2. PICK ids : ids = Ids(items')
    OBVIOUS
  <2> QED BY <2>1, <2>2 DEF Kept, Ids
<1>3. Adding(w) /\ Busy(w)'
  BY <1>1, <1>2 DEF GoesOn, Adding
<1>4. CASE Find(w) \/ Create(w) \/ HasItem(w)
  <2>1. worker'[w].hand = st.hand
    <3>1. CASE Find(w) \/ Create(w)
      BY <1>1, <1>3, <3>1, LookGoesOn
    <3>2. CASE HasItem(w)
      BY <1>1, <1>3, <3>2, HasItemShape, Stays
    <3> QED BY <1>4, <3>1, <3>2
  <2>2. items' = items
    BY <1>1, <1>4, FindShape, CreateShape, HasItemShape
  <2> QED BY <1>1, <1>2, <1>3, <2>1, <2>2 DEF Kept
<1>5. CASE SaveItem(w)
  <2>1. PICK item \in StoredItem : /\ items' = Upsert(item, items)
                                   /\ Becomes(w, Tail(st.todo), st.cart, <<item>>)
    BY <1>1, <1>5, SaveItemShape
  <2>2. PICK hand : hand = <<item>>
    OBVIOUS
  <2>3. worker'[w].hand = hand /\ hand[1] = item
    BY <1>3, <2>1, <2>2, Stays
  <2>4. item \in items'
    BY <2>1 DEF Upsert
  <2> QED BY <2>3, <2>4 DEF Ids
<1> QED BY <1>1, <1>2, <1>3, <1>4, <1>5 DEF GoesOn

\* FindItem has the first item of the kind asked for in its hand.
LEMMA FoundRemoval ==
    ASSUME MaxLag = 0, WholeInv, NEW w \in Workers, FindItem(w), Removing(w)'
    PROVE  Removal(w)'
<1> DEFINE st == worker[w]
<1>1. /\ OneCartInv /\ TypeInv /\ ItemIdsInv /\ GoesOn(w) /\ Drawn(w) /\ SharingInv
      /\ Handle(w)
  BY Below DEF WholeInv, Handle
<1>2. Does(w, "foundItem")
  BY DEF FindItem
<1>3. Busy(w) /\ At(w, LoadedSteps) /\ Head(st.todo) = "foundItem"
  BY <1>1, <1>2, Working DEF LoadedSteps
<1>4. Busy(w)'
  BY DEF Removing
<1>5. PICK its, n : its = st.cart.items /\ n = FirstWanted(w)
  OBVIOUS
<1>6. PICK found : found = its[n]
  OBVIOUS
<1>7. PICK hand : hand = <<found>>
  OBVIOUS
<1>8. /\ Wanted(w) # {} /\ Becomes(w, Tail(st.todo), st.cart, hand)
      /\ UNCHANGED <<carts, items, nextId, torn>>
  <2>1. ~Ends(w)
    BY <1>4 DEF Ends, Busy, Free
  <2> QED BY <1>1, <1>5, <1>6, <1>7, <2>1, FindItemShape
<1>9. worker'[w].hand = hand /\ hand[1] = found /\ worker'[w].req = st.req
  BY <1>4, <1>7, <1>8, Stays
<1>10. st.req.op = "remove"
  BY <1>9 DEF Removing
<1>11. ~Dropped(w)'
  BY <1>1, <1>2 DEF GoesOn, RemoveItem, Does
<1>12. /\ n \in 1..Len(its) /\ n \in Wanted(w) /\ \A j \in Wanted(w) : n <= j
       /\ found.itemId = st.req.itemId
  BY <1>1, <1>5, <1>6, <1>8, KnownType, FirstWantedIn
<1>13. PICK d \in carts : d.id = st.cart.id /\ d.cust = st.req.cust
  BY <1>1, <1>3, <1>10 DEF OneCartInv, HoldsCart, Owner
<1>14. InCart(d, found.id)
  BY <1>3, <1>5, <1>6, <1>12, <1>13, <1>1 DEF Drawn
<1>15. ASSUME NEW e \in carts, InCart(e, found.id)
       PROVE  e.cust \in torn \/ e.cust = st.req.cust
  <2>1. CASE e = d
    BY <1>13, <2>1
  <2>2. CASE e # d
    <3>1. Shares(d, e)
      BY <1>14, <1>15, <2>2 DEF Shares
    <3>2. Excused(d.cust, e.cust)
      BY <1>1, <3>1 DEF SharingInv
    <3>3. ASSUME NEW v \in Workers, Looping(v), {d.cust, e.cust} = Named(worker[v].req)
          PROVE  FALSE
      <4>1. v # w /\ Busy(v)
        BY <1>10, <3>3 DEF Looping
      <4>2. d.cust \in Named(st.req) /\ d.cust \in Named(worker[v].req)
        BY <1>1, <1>3, <1>13, <3>3, NamedCustomers
      <4> QED BY <1>1, <1>3, <4>1, <4>2 DEF OneCartInv, Separate
    <3> QED BY <3>2, <3>3 DEF Excused
  <2> QED BY <2>1, <2>2
<1>16. ASSUME st.req.cust \notin torn
       PROVE  \E k \in 1..Len(d.refs) :
                   /\ d.refs[k] = found.id
                   /\ \A j \in 1..Len(d.refs) : \A i \in items :
                          j < k /\ i.id = d.refs[j] => i.itemId # st.req.itemId
  <2>1. /\ Len(its) = Len(d.refs)
        /\ \A k \in 1..Len(d.refs) :
                  /\ its[k].id = d.refs[k]
                  /\ \A i \in StoredItem : Known(i) /\ i.id = d.refs[k] => i.itemId = its[k].itemId
    BY <1>3, <1>5, <1>13, <1>16, ReadWhole
  <2>2. n \in 1..Len(d.refs) /\ d.refs[n] = found.id
    BY <1>6, <1>12, <2>1
  <2>3. ASSUME NEW j \in 1..Len(d.refs), NEW i \in items, j < n, i.id = d.refs[j]
        PROVE  i.itemId # st.req.itemId
    <3>1. Len(d.refs) \in Nat
      BY <1>1, KnownType
    <3>2. j \notin Wanted(w)
      BY <1>12, <2>2, <2>3, <3>1
    <3>3. its[j].itemId # st.req.itemId
      BY <1>5, <2>1, <3>2 DEF Wanted
    <3>4. i \in StoredItem /\ Known(i)
      BY <1>1, KnownType DEF Known
    <3> QED BY <2>1, <2>3, <3>3, <3>4
  <2> QED BY <2>2, <2>3
<1> QED BY <1>8, <1>9, <1>11, <1>12, <1>13, <1>15, <1>16 DEF Removal

\* A look-up leaves the item to be removed where it is.
LEMMA LookedRemoval ==
    ASSUME MaxLag = 0, WholeInv, NEW w \in Workers, Find(w) \/ Create(w), Removing(w), Removing(w)',
           ~Dropped(w)
    PROVE  Removal(w)'
<1> DEFINE st == worker[w]
<1>1. OneCartInv /\ TypeInv /\ GoesOn(w) /\ OwnStep(w) /\ Removal(w) /\ Busy(w)'
  <2>1. Handle(w)
    BY DEF Handle
  <2> QED BY <2>1, Below, OneThread DEF WholeInv, Removing
<1>2. worker'[w].hand = st.hand /\ worker'[w].req = st.req
  BY <1>1, LookGoesOn DEF OwnStep
<1>3. ~Dropped(w)'
  BY <1>1 DEF GoesOn, RemoveItem, Find, Create, Does
<1>4. /\ items' = items /\ torn' = torn /\ carts \subseteq carts'
      /\ \A e \in carts' : e \in carts \/ e.refs = <<>>
  <2>1. CASE Find(w)
    BY <1>1, <2>1, FindShape
  <2>2. CASE Create(w)
    <3>1. PICK doc : doc = [id |-> nextId, cust |-> st.cart.cust, refs |-> <<>>]
      OBVIOUS
    <3>2. carts' = carts \cup {doc} /\ doc.refs = <<>> /\ items' = items /\ torn' = torn
      BY <1>1, <2>2, <3>1, CreateShape
    <3> QED BY <3>2
  <2> QED BY <2>1, <2>2
<1>5. \A e \in carts' : \A id : InCart(e, id) => e \in carts
  BY <1>4 DEF InCart
<1>6. /\ st.hand[1].itemId = st.req.itemId
      /\ \A e \in carts : InCart(e, st.hand[1].id) => e.cust \in torn \/ e.cust = st.req.cust
      /\ st.req.cust \notin torn =>
               \E d \in carts : \E k \in 1..Len(d.refs) :
                   /\ d.cust = st.req.cust /\ d.refs[k] = st.hand[1].id
                   /\ \A j \in 1..Len(d.refs) : \A i \in items :
                          j < k /\ i.id = d.refs[j] => i.itemId # st.req.itemId
  BY <1>1 DEF Removal
<1> QED BY <1>2, <1>3, <1>4, <1>5, <1>6 DEF Removal

\* RemoveItem drops the item that is to be removed.
LEMMA DroppedRemoval ==
    ASSUME MaxLag = 0, WholeInv, TypeInv', NEW w \in Workers, RemoveItem(w), Removing(w)'
    PROVE  Removal(w)'
<1> DEFINE st == worker[w]
<1>1. /\ OneCartInv /\ TypeInv /\ ItemIdsInv /\ GoesOn(w) /\ OwnStep(w) /\ Removal(w)
      /\ Busy(w)' /\ Exact(w)
  <2>1. Handle(w)
    BY DEF Handle
  <2> QED BY <2>1, Below, OneThread DEF WholeInv, Removing
<1>2. /\ worker'[w].hand = st.hand /\ worker'[w].req = st.req
      /\ worker'[w].todo = Tail(st.todo)
  BY <1>1, RemoveItemShape, Stays
<1>3. Does(w, "removeItem")
  BY DEF RemoveItem
<1>4. /\ Busy(w) /\ At(w, LoadedSteps) /\ st.req.op = "remove" /\ st.hand # <<>>
      /\ Head(st.todo) = "removeItem" /\ Head(Tail(st.todo)) = "destroyItem"
  BY <1>1, <1>3, Working DEF PhaseOK, LoadedSteps
<1>5. Removing(w) /\ ~Dropped(w) /\ Dropped(w)'
  BY <1>2, <1>4 DEF Removing, Dropped
<1>6. PICK h : h = st.hand[1]
  OBVIOUS
<1>7. /\ h.itemId = st.req.itemId
      /\ \A e \in carts : InCart(e, h.id) => e.cust \in torn \/ e.cust = st.req.cust
      /\ st.req.cust \notin torn =>
               \E d \in carts : \E k \in 1..Len(d.refs) :
                   /\ d.cust = st.req.cust /\ d.refs[k] = h.id
                   /\ \A j \in 1..Len(d.refs) : \A i \in items :
                          j < k /\ i.id = d.refs[j] => i.itemId # st.req.itemId
  BY <1>1, <1>5, <1>6 DEF Removal
<1>8. PICK old \in carts : \E new :
               /\ new.id = old.id /\ new.cust = old.cust /\ old.cust = st.req.cust
               /\ carts' = (carts \ {old}) \cup {new} /\ UNCHANGED <<items, nextId, torn>>
               /\ At(w, LoadedSteps) /\ old.id = st.cart.id
               /\ old.cust \notin torn => Added(w, old, new) \/ Removed(w, old, new)
  BY <1>1, SavedWhole
<1>9. PICK doc :
               /\ doc.id = old.id /\ doc.cust = old.cust /\ old.cust = st.req.cust
               /\ carts' = (carts \ {old}) \cup {doc} /\ UNCHANGED <<items, nextId, torn>>
               /\ At(w, LoadedSteps) /\ old.id = st.cart.id
               /\ old.cust \notin torn => Added(w, old, doc) \/ Removed(w, old, doc)
  BY <1>8
<1>10. ASSUME old.cust \notin torn PROVE ~InCart(doc, h.id)
  <2>0. PICK d \in carts : \E k \in 1..Len(d.refs) :
                   /\ d.cust = st.req.cust /\ d.refs[k] = h.id
                   /\ \A j \in 1..Len(d.refs) : \A i \in items :
                          j < k /\ i.id = d.refs[j] => i.itemId # st.req.itemId
    BY <1>7, <1>9, <1>10
  <2>1. PICK k \in 1..Len(d.refs) :
                   /\ d.cust = st.req.cust /\ d.refs[k] = h.id
                   /\ \A j \in 1..Len(d.refs) : \A i \in items :
                          j < k /\ i.id = d.refs[j] => i.itemId # st.req.itemId
    BY <2>0
  <2>2. d = old
    BY <1>1, <1>9, <2>1 DEF OneCartInv, OneEach
  <2>3. PICK its : its = st.cart.items
    OBVIOUS
  <2>4. /\ Len(its) = Len(old.refs)
        /\ \A j \in 1..Len(old.refs) :
                  /\ its[j].id = old.refs[j]
                  /\ \A i \in StoredItem : Known(i) /\ i.id = old.refs[j] =>
                        i.itemId = its[j].itemId
    BY <1>9, <1>10, <2>3, ReadWhole
  <2>5. old.refs \in Seq(Nat \ {0}) /\ Len(old.refs) \in Nat /\ k \in 1..Len(old.refs)
    BY <1>1, <2>1, <2>2, KnownType
  <2>6. h \in StoredItem /\ Known(h)
    <3>1. 1 \in 1..Len(st.hand)
      <4>1. st.hand \in Seq(Item)
        BY <1>1, KnownType
      <4> QED BY <1>4, <4>1
    <3>2. old.refs[k] # 0
      BY <2>5
    <3>3. h.id # 0
      BY <2>1, <2>2, <3>2
    <3> QED BY <1>1, <1>6, <3>1, <3>3, CopyKnown
  <2>7. k \in Wanted(w)
    BY <1>7, <2>1, <2>2, <2>3, <2>4, <2>5, <2>6 DEF Wanted
  <2>8. ASSUME NEW j \in Wanted(w), j < k PROVE FALSE
    <3>1. j \in 1..Len(old.refs) /\ its[j].itemId = st.req.itemId
      BY <2>3, <2>4, <2>8 DEF Wanted
    <3>2. old.refs[j] \in Ids(items)
      BY <1>10, <3>1 DEF WholeInv
    <3>3. PICK i \in items : i.id = old.refs[j]
      BY <3>2 DEF Ids
    <3>4. i \in StoredItem /\ Known(i)
      BY <1>1, KnownType DEF Known
    <3> QED BY <2>1, <2>2, <2>4, <2>8, <3>1, <3>3, <3>4
  <2>9. FirstWanted(w) = k
    <3>1. FirstWanted(w) \in Wanted(w) /\ FirstWanted(w) <= k
      BY <1>1, <2>7, KnownType, FirstWantedIn
    <3>2. FirstWanted(w) \in 1..Len(old.refs)
      BY <2>3, <2>4, <3>1 DEF Wanted
    <3> QED BY <2>5, <2>8, <3>1, <3>2
  <2>10. Without(old, doc, k)
    <3>1. Removed(w, old, doc)
      BY <1>9, <1>10 DEF Added
    <3> QED BY <2>7, <2>9, <3>1 DEF Removed
  <2>11. doc.refs \in Seq(Nat)
    <3>1. doc \in carts' /\ carts' \subseteq CartDoc
      BY <1>9 DEF TypeInv, StoreInv
    <3> QED BY <3>1 DEF CartDoc
  <2>12. \A i, j \in 1..Len(old.refs) : old.refs[i] = old.refs[j] => i = j
    BY <1>10 DEF WholeInv
  <2>13. ~InCart(doc, old.refs[k])
    BY <2>5, <2>10, <2>11, <2>12, WithoutGone
  <2> QED BY <2>1, <2>2, <2>13
<1>11. ASSUME NEW e \in carts', InCart(e, h.id) PROVE e.cust \in torn'
  <2>1. CASE e = doc
    BY <1>9, <1>10, <1>11, <2>1
  <2>2. CASE e # doc
    <3>1. e \in carts /\ e # old
      BY <1>9, <1>11, <2>2
    <3>2. e.cust # old.cust
      BY <1>1, <3>1 DEF OneCartInv, OneEach
    <3> QED BY <1>7, <1>9, <1>11, <3>1, <3>2
  <2> QED BY <2>1, <2>2
<1> QED BY <1>2, <1>5, <1>6, <1>7, <1>11 DEF Removal

\* The item the thread is about to delete is referred to by no cart that
\* counts.
LEMMA OwnRemoval ==
    ASSUME MaxLag = 0, WholeInv, TypeInv', NEW w \in Workers, Handle(w) \/ Abort(w)
    PROVE  Removal(w)'
<1>1. GoesOn(w)
  BY Below DEF WholeInv
<1>2. CASE ~Removing(w)'
  BY <1>2 DEF Removal
<1> QED BY <1>1, <1>2, FoundRemoval, LookedRemoval, DroppedRemoval DEF GoesOn

\* The items of the session's cart are not in the customer's when a merge begins.
LEMMA BegunApart ==
    ASSUME MaxLag = 0, WholeInv, NEW w \in Workers, MergeItems(w), Looping(w)'
    PROVE  Apart(w)'
<1> DEFINE st == worker[w]
<1>1. /\ OneCartInv /\ TypeInv /\ OwnStep(w) /\ Drawn(w) /\ SharingInv /\ Busy(w)'
  <2>1. Handle(w)
    BY DEF Handle
  <2> QED BY <2>1, Below, OneThread DEF WholeInv, Looping
<1>2. Does(w, "mergeItems")
  BY DEF MergeItems
<1>3. /\ Busy(w) /\ At(w, LoadedSteps) /\ Head(st.todo) = "mergeItems"
      /\ st.req.op = "merge" /\ Goal(st) = "mergeItems" /\ st.req \in Requests
  BY <1>1, <1>2, Working DEF PhaseOK, LoadedSteps
<1>4. PICK its : its = st.cart.items
  OBVIOUS
<1>5. /\ worker'[w].hand = its /\ worker'[w].req = st.req /\ carts' = carts
      /\ torn' = IF Named(st.req) \cap torn = {} THEN torn ELSE torn \cup Named(st.req)
  BY <1>1, <1>4, MergeItemsShape, Stays
<1>6. Named(st.req) = {st.req.cust, st.req.other} /\ st.req.cust # st.req.other
  BY <1>3, MergeNames
<1>7. SUFFICES ASSUME st.req.cust \notin torn'
      PROVE  /\ \A j, k \in 1..Len(its) : its[j].id = its[k].id => j = k
             /\ \A b \in carts : b.cust = st.req.cust =>
                    \A k \in 1..Len(its) : ~InCart(b, its[k].id)
  BY <1>5 DEF Apart
<1>8. st.req.cust \notin torn /\ st.req.other \notin torn
  BY <1>5, <1>6, <1>7
<1>9. PICK d \in carts : d.id = st.cart.id /\ d.cust = st.req.other
  BY <1>1, <1>3 DEF OneCartInv, HoldsCart, Owner
<1>10. Len(its) = Len(d.refs) /\ \A k \in 1..Len(d.refs) : its[k].id = d.refs[k]
  BY <1>3, <1>4, <1>8, <1>9, ReadWhole
<1>11. \A j, k \in 1..Len(its) : its[j].id = its[k].id => j = k
  <2>1. \A j, k \in 1..Len(d.refs) : d.refs[j] = d.refs[k] => j = k
    BY <1>8, <1>9 DEF WholeInv
  <2> QED BY <1>10, <2>1
<1>12. ASSUME NEW b \in carts, b.cust = st.req.cust, NEW k \in 1..Len(its), InCart(b, its[k].id)
       PROVE  FALSE
  <2>1. InCart(d, its[k].id)
    BY <1>10, <1>12 DEF InCart
  <2>2. b # d
    BY <1>6, <1>9, <1>12
  <2>3. Shares(d, b)
    BY <1>12, <2>1, <2>2 DEF Shares
  <2>4. Excused(d.cust, b.cust)
    BY <1>1, <2>3 DEF SharingInv
  <2>5. ~({d.cust, b.cust} \subseteq torn)
    BY <1>8, <1>12
  <2>6. PICK v \in Workers : Looping(v) /\ {d.cust, b.cust} = Named(worker[v].req)
    BY <2>4, <2>5 DEF Excused
  <2>7. v # w /\ Busy(v)
    BY <1>3, <2>6 DEF Looping
  <2>8. b.cust \in Named(st.req) /\ b.cust \in Named(worker[v].req)
    BY <1>6, <1>12, <2>6
  <2> QED BY <1>1, <1>3, <2>7, <2>8 DEF OneCartInv, Separate
<1> QED BY <1>11, <1>12

\* The items left to merge are not the one just merged.
LEMMA MergedApart ==
    ASSUME MaxLag = 0, WholeInv, NEW w \in Workers, MergeItem(w), Looping(w), Looping(w)'
    PROVE  Apart(w)'
<1> DEFINE st == worker[w]
<1>1. OneCartInv /\ TypeInv /\ Exact(w) /\ Apart(w) /\ Busy(w)'
  BY Below DEF WholeInv, Looping
<1>2. PICK hand : hand = st.hand
  OBVIOUS
<1>3. PICK left : left = Tail(hand)
  OBVIOUS
<1>4. /\ worker'[w].hand = left /\ worker'[w].req = st.req
      /\ hand # <<>> /\ hand \in Seq(StoredItem)
  BY <1>1, <1>2, <1>3, MergeItemShape, Stays
<1>5. /\ \A k \in 1..Len(left) : left[k] = hand[k + 1] /\ k + 1 \in 1..Len(hand) /\ k + 1 # 1
      /\ 1 \in 1..Len(hand) /\ Len(left) \in Nat
  BY <1>3, <1>4
<1>6. PICK old \in carts : \E new :
               /\ new.id = old.id /\ new.cust = old.cust /\ old.cust = st.req.cust
               /\ carts' = (carts \ {old}) \cup {new} /\ torn' = torn
               /\ old.cust \notin torn => Added(w, old, new) \/ Removed(w, old, new)
  BY <1>1, SavedWhole
<1>7. PICK doc :
               /\ doc.id = old.id /\ doc.cust = old.cust /\ old.cust = st.req.cust
               /\ carts' = (carts \ {old}) \cup {doc} /\ torn' = torn
               /\ old.cust \notin torn => Added(w, old, doc) \/ Removed(w, old, doc)
  BY <1>6
<1>8. SUFFICES ASSUME st.req.cust \notin torn
      PROVE  /\ \A j, k \in 1..Len(left) : left[j].id = left[k].id => j = k
             /\ \A b \in carts' : b.cust = st.req.cust =>
                    \A k \in 1..Len(left) : ~InCart(b, left[k].id)
  BY <1>4, <1>7 DEF Apart
<1>9. /\ \A j, k \in 1..Len(hand) : hand[j].id = hand[k].id => j = k
      /\ \A k \in 1..Len(hand) : ~InCart(old, hand[k].id)
  BY <1>1, <1>2, <1>7, <1>8 DEF Apart
<1>10. ASSUME NEW j \in 1..Len(left), NEW k \in 1..Len(left), left[j].id = left[k].id
       PROVE  j = k
  <2>1. j + 1 = k + 1
    BY <1>5, <1>9, <1>10
  <2> QED BY <1>5, <2>1
<1>11. ASSUME NEW b \in carts', b.cust = st.req.cust, NEW k \in 1..Len(left)
       PROVE  ~InCart(b, left[k].id)
  <2>1. b = doc
    <3>1. CASE b = doc
      BY <3>1
    <3>2. CASE b # doc
      <4>1. b \in carts /\ b # old
        BY <1>7, <1>11, <3>2
      <4> QED BY <1>1, <1>7, <1>11, <4>1 DEF OneCartInv, OneEach
    <3> QED BY <3>1, <3>2
  <2>2. Added(w, old, doc)
    <3>1. ~RemoveItem(w)
      BY DEF MergeItem, RemoveItem, Does
    <3> QED BY <1>7, <1>8, <3>1 DEF Removed
  <2>3. \A j \in 1..Len(doc.refs) :
            doc.refs[j] = hand[1].id \/ \E i \in 1..Len(old.refs) : doc.refs[j] = old.refs[i]
    <3>1. old.refs \in Seq(Nat \ {0}) /\ Len(old.refs) \in Nat
      BY <1>1, KnownType
    <3>2. \A j \in 1..Len(doc.refs) : j \in 1..Len(old.refs) \/ j = Len(old.refs) + 1
      BY <2>2, <3>1 DEF Added
    <3> QED BY <1>2, <2>2, <3>2 DEF Added
  <2>4. left[k].id # hand[1].id /\ ~InCart(old, left[k].id)
    BY <1>5, <1>9
  <2> QED BY <2>1, <2>3, <2>4 DEF InCart
<1> QED BY <1>10, <1>11

\* Loading the customer's cart again finds none of the items left to merge.
LEMMA LookedApart ==
    ASSUME MaxLag = 0, WholeInv, NEW w \in Workers, Find(w) \/ Create(w), Looping(w), Looping(w)'
    PROVE  Apart(w)'
<1> DEFINE st == worker[w]
<1>1. OneCartInv /\ TypeInv /\ OwnStep(w) /\ Apart(w) /\ Busy(w)'
  <2>1. Handle(w)
    BY DEF Handle
  <2> QED BY <2>1, Below, OneThread DEF WholeInv, Looping
<1>2. worker'[w].hand = st.hand /\ worker'[w].req = st.req
  BY <1>1, LookGoesOn DEF OwnStep
<1>3. torn' = torn /\ \A e \in carts' : e \in carts \/ e.refs = <<>>
  <2>1. CASE Find(w)
    BY <1>1, <2>1, FindShape
  <2>2. CASE Create(w)
    <3>1. PICK doc : doc = [id |-> nextId, cust |-> st.cart.cust, refs |-> <<>>]
      OBVIOUS
    <3>2. carts' = carts \cup {doc} /\ doc.refs = <<>> /\ torn' = torn
      BY <1>1, <2>2, <3>1, CreateShape
    <3> QED BY <3>2
  <2> QED BY <2>1, <2>2
<1>4. \A e \in carts' : \A id : InCart(e, id) => e \in carts
  BY <1>3 DEF InCart
<1> QED BY <1>1, <1>2, <1>3, <1>4 DEF Apart

\* The items left to merge are never in the customer's cart yet.
LEMMA OwnApart ==
    ASSUME MaxLag = 0, WholeInv, NEW w \in Workers, Handle(w) \/ Abort(w)
    PROVE  Apart(w)'
<1>1. GoesOn(w)
  BY Below DEF WholeInv
<1>2. CASE ~Looping(w)'
  BY <1>2 DEF Apart
<1> QED BY <1>1, <1>2, BegunApart, MergedApart, LookedApart DEF GoesOn

-----------------------------------------------------------------------------
(* ... and what the others still know *)

\* A step of another thread touches no cart and no item this thread depends
\* on.
LEMMA OthersExactKept ==
    ASSUME MaxLag = 0, WholeInv, OneCartInv', NEW w \in Workers, Handle(w) \/ Abort(w),
           NEW v \in Workers, v # w
    PROVE  Exact(v)' /\ Kept(v)'
<1> DEFINE st == worker[v]
<1>1. /\ OneCartInv /\ TypeInv /\ ItemIdsInv /\ Frame(w) /\ Exact(v) /\ Kept(v) /\ Private(v)
      /\ worker'[v] = st /\ (Busy(v)' <=> Busy(v))
  BY Below DEF WholeInv, Frame, Busy
<1>2. ASSUME At(v, LoadedSteps)', NEW d \in carts', d.id = st.cart.id, d.cust \notin torn'
      PROVE  RefsOf(st.cart.items) = d.refs
  <2>1. At(v, LoadedSteps) /\ Busy(v)
    BY <1>1, <1>2 DEF At
  <2>2. PICK e \in carts : e.id = st.cart.id /\ e.cust = Owner(v)
    BY <1>1, <2>1 DEF OneCartInv, HoldsCart
  <2>3. e \in carts' /\ (e.cust \in torn' <=> e.cust \in torn)
    <3>1. e.cust \in Named(st.req)
      BY <1>1, <2>1, <2>2, NamedCustomers
    <3> QED BY <1>1, <2>1, <2>2, <3>1, Untouched
  <2>4. d = e
    BY <1>2, <2>2, <2>3 DEF OneCartInv, OneEach
  <2> QED BY <1>1, <1>2, <2>1, <2>2, <2>3, <2>4 DEF Exact
<1>3. Exact(v)'
  BY <1>1, <1>2 DEF Exact
<1>4. ASSUME Adding(v), st.hand[1].id # 0 PROVE st.hand[1].id \in Ids(items')
  <2>1. st.hand[1].id \in Ids(items)
    BY <1>1, <1>4 DEF Kept
  <2>2. ASSUME DestroyItem(w), st.hand[1].id = worker[w].hand[1].id PROVE FALSE
    <3>1. worker[w].hand # <<>> /\ worker[w].hand \in Seq(Item)
      BY <1>1, <2>2, DestroyItemShape, KnownType
    <3>2. InHand(w, st.hand[1].id)
      <4>1. 1 \in 1..Len(worker[w].hand)
        BY <3>1
      <4> QED BY <2>2, <4>1 DEF InHand
    <3> QED BY <1>1, <1>4, <3>2 DEF Private
  <2> QED BY <1>1, <2>1, <2>2, LaterItems
<1>5. Kept(v)'
  <2>1. PICK id : id = st.hand[1].id
    OBVIOUS
  <2>2. Adding(v)' <=> Adding(v)
    BY <1>1 DEF Adding
  <2> QED BY <1>1, <1>4, <2>1, <2>2 DEF Kept, Ids
<1> QED BY <1>3, <1>5

\* What a thread holds in its hand comes to no other cart, but for a torn one.
LEMMA HeldApart ==
    ASSUME MaxLag = 0, WholeInv, NEW w \in Workers, Handle(w) \/ Abort(w),
           NEW v \in Workers, v # w, Busy(v), NEW own \in SUBSET Named(worker[v].req),
           NEW id, InHand(v, id), \A e \in carts : InCart(e, id) => e.cust \in torn \cup own
    PROVE  \A e \in carts' : InCart(e, id) => e.cust \in torn' \cup own
<1>1. /\ OneCartInv /\ TypeInv /\ Frame(w) /\ Drawn(w) /\ Private(w)
      /\ FromSession(w) /\ TornTogether(w) /\ torn \subseteq torn' /\ Busy(w)
  BY Below DEF WholeInv, Frame
<1>2. ASSUME NEW e \in carts', InCart(e, id)
      PROVE  e.cust \in torn' \cup own
  <2>1. CASE e \in carts
    BY <1>1, <1>2, <2>1
  <2>2. CASE e \notin carts /\ Create(w)
    <3>1. PICK doc : doc = [id |-> nextId, cust |-> worker[w].cart.cust, refs |-> <<>>]
      OBVIOUS
    <3>2. e = doc /\ doc.refs = <<>>
      BY <1>1, <1>2, <2>2, <3>1, CreateShape
    <3> QED BY <1>2, <3>2 DEF InCart
  <2>3. CASE e \notin carts /\ (AddItem(w) \/ RemoveItem(w) \/ MergeItem(w))
    <3>1. PICK old \in carts : \E doc :
               /\ doc.id = old.id /\ doc.cust = old.cust /\ old.cust = worker[w].req.cust
               /\ carts' = (carts \ {old}) \cup {doc}
               /\ \A r : InCart(doc, r) =>
                      \/ InCart(old, r)
                      \/ /\ ~RemoveItem(w) /\ worker[w].hand # <<>>
                         /\ worker[w].hand[1] \in StoredItem /\ r = worker[w].hand[1].id
      BY <1>1, <2>3, SavedRefs
    <3>2. /\ e.cust = old.cust /\ old.cust = worker[w].req.cust
          /\ \/ InCart(old, id)
             \/ /\ ~RemoveItem(w) /\ worker[w].hand # <<>>
                /\ worker[w].hand[1] \in StoredItem /\ id = worker[w].hand[1].id
      BY <1>2, <2>3, <3>1
    <3>3. CASE InCart(old, id)
      BY <1>1, <3>2, <3>3
    <3>4. CASE /\ AddItem(w) /\ worker[w].hand[1] \in StoredItem
               /\ id = worker[w].hand[1].id
      <4>1. Does(w, "addItem")
        BY <3>4 DEF AddItem
      <4>2. Adding(w)
        BY <1>1, <4>1, Working DEF PhaseOK, Adding
      <4>3. worker[w].hand[1].id # 0
        BY <3>4 DEF StoredItem
      <4> QED BY <1>1, <3>4, <4>2, <4>3 DEF Private
    <3>5. CASE MergeItem(w) /\ worker[w].hand # <<>> /\ id = worker[w].hand[1].id
      <4>1. Does(w, "mergeItem")
        BY <3>5 DEF MergeItem
      <4>2. worker[w].req.op = "merge" /\ Looping(w) /\ worker[w].hand \in Seq(Item)
        BY <1>1, <3>5, <4>1, Working, MergeItemShape DEF Looping
      <4>3. PICK s \in carts : s.cust = worker[w].req.other /\ InCart(s, id)
        <5>1. 1 \in 1..Len(worker[w].hand)
          BY <3>5, <4>2
        <5> QED BY <1>1, <3>5, <4>2, <5>1 DEF FromSession
      <4>4. s.cust \notin own
        <5>1. s.cust \in Named(worker[w].req)
          BY <1>1, <4>2, <4>3, NamedCustomers
        <5> QED BY <1>1, <5>1 DEF OneCartInv, Separate
      <4>5. worker[w].req.cust \in torn
        BY <1>1, <4>2, <4>3, <4>4 DEF TornTogether
      <4> QED BY <1>1, <3>2, <4>5
    <3> QED BY <2>3, <3>2, <3>3, <3>4, <3>5
  <2>4. CASE Find(w) \/ HasItem(w) \/ FindItem(w) \/ Increment(w) \/ SaveItem(w)
             \/ SaveQuantity(w) \/ DestroyItem(w) \/ DeleteCart(w) \/ MergeItems(w) \/ Abort(w)
    <3>1. carts' \subseteq carts
      BY <1>1, <2>4, FindShape, HasItemShape, FindItemShape, IncrementShape, SaveItemShape,
         SaveQuantityShape, DestroyItemShape, DeleteCartShape, MergeItemsShape, AbortShape
    <3> QED BY <1>2, <2>1, <3>1
  <2> QED BY <2>1, <2>2, <2>3, <2>4 DEF Handle
<1> QED BY <1>2

\* A cart that comes to hold the item v is about to remove is torn.
LEMMA OthersRemoval ==
    ASSUME MaxLag = 0, WholeInv, NEW w \in Workers, Handle(w) \/ Abort(w),
           NEW v \in Workers, v # w
    PROVE  Removal(v)'
<1> DEFINE st == worker[v]
<1>1. /\ OneCartInv /\ TypeInv /\ Frame(w) /\ Removal(v)
      /\ worker'[v] = st /\ (Busy(v)' <=> Busy(v)) /\ torn \subseteq torn'
  BY Below DEF WholeInv, Frame, Busy
<1>2. (Removing(v)' <=> Removing(v)) /\ (Dropped(v)' <=> Dropped(v))
  BY <1>1 DEF Removing, Dropped
<1>3. SUFFICES ASSUME Removing(v) PROVE Removal(v)'
  BY <1>2 DEF Removal
<1>4. PICK h : h = st.hand[1]
  OBVIOUS
<1>5. /\ Busy(v) /\ st.req.cust \in Named(st.req) /\ st.hand # <<>> /\ st.hand \in Seq(Item)
      /\ InHand(v, h.id)
  <2>1. /\ Busy(v) /\ st.req.cust \in Named(st.req) /\ st.hand # <<>> /\ st.hand \in Seq(Item)
    BY <1>1, <1>3, NamedCustomers, KnownType DEF Removing
  <2>2. 1 \in 1..Len(st.hand)
    BY <2>1
  <2> QED BY <1>4, <2>1, <2>2 DEF InHand
<1>6. /\ h.itemId = st.req.itemId
      /\ \A e \in carts : InCart(e, h.id) =>
               e.cust \in torn \/ (e.cust = st.req.cust /\ ~Dropped(v))
      /\ ~Dropped(v) /\ st.req.cust \notin torn =>
               \E d \in carts : \E k \in 1..Len(d.refs) :
                   /\ d.cust = st.req.cust /\ d.refs[k] = h.id
                   /\ \A j \in 1..Len(d.refs) : \A i \in items :
                          j < k /\ i.id = d.refs[j] => i.itemId # st.req.itemId
  BY <1>1, <1>3, <1>4 DEF Removal
<1>7. ASSUME NEW e \in carts', InCart(e, h.id)
      PROVE  e.cust \in torn' \/ (e.cust = st.req.cust /\ ~Dropped(v))
  <2>1. PICK own : own = IF Dropped(v) THEN {} ELSE {st.req.cust}
    OBVIOUS
  <2>2. own \in SUBSET Named(st.req) /\ \A c \in own : c = st.req.cust /\ ~Dropped(v)
    BY <1>5, <2>1
  <2>3. \A o \in carts : InCart(o, h.id) => o.cust \in torn \cup own
    BY <1>6, <2>1
  <2>4. e.cust \in torn' \cup own
    BY <1>5, <1>7, <2>2, <2>3, HeldApart
  <2> QED BY <2>2, <2>4
<1>8. ASSUME ~Dropped(v), st.req.cust \notin torn'
      PROVE  \E d \in carts' : \E k \in 1..Len(d.refs) :
                   /\ d.cust = st.req.cust /\ d.refs[k] = h.id
                   /\ \A j \in 1..Len(d.refs) : \A i \in items' :
                          j < k /\ i.id = d.refs[j] => i.itemId # st.req.itemId
  <2>1. st.req.cust \notin torn
    BY <1>1, <1>8
  <2>2. PICK d \in carts : \E k \in 1..Len(d.refs) :
                   /\ d.cust = st.req.cust /\ d.refs[k] = h.id
                   /\ \A j \in 1..Len(d.refs) : \A i \in items :
                          j < k /\ i.id = d.refs[j] => i.itemId # st.req.itemId
    BY <1>6, <1>8, <2>1
  <2>3. PICK k \in 1..Len(d.refs) :
                   /\ d.cust = st.req.cust /\ d.refs[k] = h.id
                   /\ \A j \in 1..Len(d.refs) : \A i \in items :
                          j < k /\ i.id = d.refs[j] => i.itemId # st.req.itemId
    BY <2>2
  <2>4. d \in carts'
    BY <1>1, <1>5, <2>3, Untouched
  <2>5. \A j \in 1..Len(d.refs) : \A i \in items' :
            i.id = d.refs[j] => \E o \in items : o.id = i.id /\ o.itemId = i.itemId
    BY <2>1, <2>3, RefsStay
  <2>6. \A j \in 1..Len(d.refs) : \A i \in items' :
            j < k /\ i.id = d.refs[j] => i.itemId # st.req.itemId
    BY <2>3, <2>5
  <2> QED BY <2>3, <2>4, <2>6
<1> QED BY <1>1, <1>2, <1>4, <1>6, <1>7, <1>8 DEF Removal

\* A step of another thread brings no item of this merge to its customer.
LEMMA OthersApart ==
    ASSUME MaxLag = 0, WholeInv, NEW w \in Workers, Handle(w) \/ Abort(w),
           NEW v \in Workers, v # w
    PROVE  Apart(v)'
<1>1. /\ OneCartInv /\ TypeInv /\ Frame(w) /\ Apart(v)
      /\ worker'[v] = worker[v] /\ (Busy(v)' <=> Busy(v))
  BY Below DEF WholeInv, Frame, Busy
<1>2. Looping(v)' <=> Looping(v)
  BY <1>1 DEF Looping
<1>3. CASE ~Looping(v)
  BY <1>2, <1>3 DEF Apart
<1>4. CASE Looping(v)
  <2>1. Busy(v) /\ worker[v].req.cust \in Named(worker[v].req)
    BY <1>1, <1>4, NamedCustomers DEF Looping
  <2>2. /\ \A d : d.cust = worker[v].req.cust => (d \in carts' <=> d \in carts)
        /\ worker[v].req.cust \in torn' <=> worker[v].req.cust \in torn
    BY <1>1, <2>1, Untouched
  <2> QED BY <1>1, <1>4, <2>2 DEF Apart
<1> QED BY <1>3, <1>4

\* A request that comes in holds nothing that could be missing.
LEMMA ReceiveWhole ==
    ASSUME WholeInv, SharingInv', NEW w \in Workers, NEW req \in Requests, Receive(w, req)
    PROVE  WholeInv'
<1>1. OneCartInv /\ TypeInv
  BY DEF WholeInv, SharingInv, DrawnInv, ItemIdsInv, OneCartInv
<1>2. /\ UNCHANGED <<carts, items, nextId, torn>>
      /\ \A v \in Workers \ {w} : worker'[v] = worker[v]
      /\ worker'[w].req = req /\ worker'[w].todo = Script(req.op)
      /\ req.op = "add" => worker'[w].hand = <<[id |-> 0, itemId |-> req.itemId, qty |-> 1]>>
      /\ req.op # "add" => worker'[w].hand = <<>>
  BY <1>1, ReceiveShape
<1>3. Exact(w)'
  <2>1. Head(Script(req.op)) \in {"value", "session"}
    BY RequestOps, Spelled DEF Script, OpNames
  <2> QED BY <1>2, <2>1 DEF Exact, At, LoadedSteps
<1>4. Kept(w)'
  <2>1. CASE req.op = "add"
    <3>1. PICK hand : hand = <<[id |-> 0, itemId |-> req.itemId, qty |-> 1]>>
      OBVIOUS
    <3>2. worker'[w].hand = hand /\ hand[1].id = 0
      BY <1>2, <2>1, <3>1
    <3> QED BY <3>2 DEF Kept
  <2>2. CASE req.op # "add"
    BY <1>2, <2>2 DEF Kept, Adding
  <2> QED BY <2>1, <2>2
<1>5. Removal(w)'
  BY <1>2 DEF Removal, Removing
<1>6. Apart(w)'
  <2>1. req.op = "merge" => Goal(worker'[w]) = "mergeItems"
    BY <1>2, Spelled DEF Script, Goal
  <2> QED BY <1>2, <2>1 DEF Apart, Looping
<1>7. ASSUME NEW v \in Workers, v # w PROVE Exact(v)' /\ Kept(v)' /\ Removal(v)' /\ Apart(v)'
  <2>1. worker'[v] = worker[v] /\ (Busy(v)' <=> Busy(v))
    BY <1>2, <1>7 DEF Busy
  <2>2. Exact(v)' /\ Kept(v)'
    BY <1>2, <2>1 DEF WholeInv, Exact, Kept, At, Adding, Ids
  <2>3. Removal(v)'
    <3>1. (Removing(v)' <=> Removing(v)) /\ (Dropped(v)' <=> Dropped(v))
      BY <2>1 DEF Removing, Dropped
    <3>2. Removal(v)
      BY DEF WholeInv
    <3> QED BY <1>2, <2>1, <3>1, <3>2 DEF Removal
  <2>4. Apart(v)'
    BY <1>2, <2>1 DEF WholeInv, Apart, Looping
  <2> QED BY <2>2, <2>3, <2>4
<1>8. /\ \A d \in carts' : d.cust \notin torn' =>
             \A j \in 1..Len(d.refs) : d.refs[j] \in Ids(items')
      /\ \A d \in carts' : d.cust \notin torn' =>
             \A j, k \in 1..Len(d.refs) : d.refs[j] = d.refs[k] => j = k
  BY <1>2 DEF WholeInv
<1>9. \A v \in Workers : Exact(v)' /\ Kept(v)' /\ Removal(v)' /\ Apart(v)'
  BY <1>3, <1>4, <1>5, <1>6, <1>7
<1> QED BY <1>8, <1>9 DEF WholeInv, Ids

\* Every step keeps the carts whole.
LEMMA WholeStep ==
    ASSUME Serial, MaxLag = 0, WholeInv, [Next]_vars
    PROVE  WholeInv'
<1>1. SharingInv' /\ OneCartInv' /\ TypeInv' /\ OneCartInv
  <2>1. SharingInv'
    BY SharingStep DEF WholeInv
  <2> QED BY <2>1 DEF WholeInv, SharingInv, DrawnInv, ItemIdsInv, OneCartInv
<1>2. ASSUME NEW w \in Workers, Handle(w) \/ Abort(w) PROVE WholeInv'
  <2>1. /\ \A d \in carts' : d.cust \notin torn' =>
             \A j \in 1..Len(d.refs) : d.refs[j] \in Ids(items')
        /\ \A d \in carts' : d.cust \notin torn' =>
             \A j, k \in 1..Len(d.refs) : d.refs[j] = d.refs[k] => j = k
    BY <1>1, <1>2, CartsWhole
  <2>2. Exact(w)' /\ Kept(w)' /\ Removal(w)' /\ Apart(w)'
    BY <1>1, <1>2, OwnExact, OwnKept, OwnRemoval, OwnApart
  <2>3. ASSUME NEW v \in Workers, v # w PROVE Exact(v)' /\ Kept(v)' /\ Removal(v)' /\ Apart(v)'
    BY <1>1, <1>2, <2>3, OthersExactKept, OthersRemoval, OthersApart
  <2>4. \A v \in Workers : Exact(v)' /\ Kept(v)' /\ Removal(v)' /\ Apart(v)'
    BY <2>2, <2>3
  <2> QED BY <1>1, <2>1, <2>4 DEF WholeInv, Ids
<1>3. ASSUME NEW w \in Workers, NEW req \in Requests, Receive(w, req) PROVE WholeInv'
  BY <1>1, <1>3, ReceiveWhole
<1>4. CASE UNCHANGED vars \/ Quiesce
  <2>1. UNCHANGED <<carts, items, worker, torn>>
    BY <1>4 DEF Quiesce, vars
  <2>2. \A v \in Workers : Exact(v)' /\ Kept(v)' /\ Removal(v)' /\ Apart(v)'
    BY <2>1 DEF WholeInv, Exact, Kept, Removal, Apart, At, Adding, Removing, Dropped, Looping,
       Busy, Ids
  <2> QED BY <1>1, <2>1, <2>2 DEF WholeInv, Ids
<1>5. CASE CatchUp
  BY <1>1, <1>5 DEF CatchUp, OneCartInv
<1> QED BY <1>2, <1>3, <1>4, <1>5 DEF Next

\* At the start there are no references.
LEMMA WholeInit ==
    ASSUME Init
    PROVE  WholeInv
<1>1. carts = {} /\ \A w \in Workers : ~Busy(w)
  BY DEF Init, Busy, Free
<1> QED
  BY <1>1, SharingInit DEF WholeInv, Exact, Kept, Removal, Apart, At, Adding, Removing, Looping

\* Whole carts have no dangling reference.
LEMMA WholeOK ==
    ASSUME WholeInv
    PROVE  NoDanglingRef
<1>1. TypeInv
  BY DEF WholeInv, SharingInv, DrawnInv, ItemIdsInv, OneCartInv
<1>2. ASSUME NEW d \in carts, d.cust \notin torn PROVE Range(d.refs) \subseteq Ids(items)
  <2>1. d.refs \in Seq(Nat \ {0})
    BY <1>1, KnownType
  <2>2. \A id \in Range(d.refs) : \E j \in 1..Len(d.refs) : id = d.refs[j]
    BY <2>1 DEF Range
  <2> QED BY <1>2, <2>2 DEF WholeInv
<1> QED BY <1>2 DEF NoDanglingRef

\* When the requests naming a customer are served one after another and reads
\* are current, a cart that no cut-off merge has touched refers only to item
\* documents that exist, though cart and item are saved and deleted in
\* separate writes (CartsController, CartContentsResource, ItemResource).
THEOREM NoDanglingRefSerial ==
    ASSUME Serial, MaxLag = 0
    PROVE  Spec => []NoDanglingRef
<1>1. Init => WholeInv
  BY WholeInit
<1>2. WholeInv /\ [Next]_vars => WholeInv'
  BY WholeStep
<1>3. WholeInv => NoDanglingRef
  BY WholeOK
<1> QED BY <1>1, <1>2, <1>3, PTL DEF Spec

-----------------------------------------------------------------------------
(* A cart no other was merged into has one line for each item *)

Alone(c) == c \notin torn /\ (c \in Sessions \/ Sessions = {})

OneLine(d) ==
    \A j, k \in 1..Len(d.refs) : \A a, b \in items :
        a.id = d.refs[j] /\ b.id = d.refs[k] /\ a.itemId = b.itemId => j = k

\* The cart an item is being added to has no line for it yet.
Absent(w) ==
    Adding(w) /\ Goal(worker[w]) = "addItem" =>
        \A d \in carts : d.cust = worker[w].req.cust /\ d.cust \notin torn =>
            \A j \in 1..Len(d.refs) : \A i \in items :
                i.id = d.refs[j] => i.itemId # worker[w].req.itemId

LineInv ==
    /\ WholeInv
    /\ \A d \in carts : Alone(d.cust) => OneLine(d)
    /\ \A w \in Workers : Absent(w)

\* A line added to such a cart is the only one for its item.
LEMMA AddedLine ==
    ASSUME LineInv, NEW w \in Workers, AddItem(w), NEW old \in carts, NEW doc,
           old.cust = worker[w].req.cust, Alone(old.cust), Added(w, old, doc), items' = items
    PROVE  OneLine(doc)'
<1> DEFINE st == worker[w]
<1>1. /\ OneCartInv /\ TypeInv /\ ItemIdsInv /\ Private(w) /\ Absent(w) /\ OneLine(old)
  BY DEF LineInv, WholeInv, SharingInv, DrawnInv, ItemIdsInv, OneCartInv
<1>2. Does(w, "addItem")
  BY DEF AddItem
<1>3. Adding(w) /\ Goal(st) = "addItem"
  BY <1>1, <1>2, Working DEF PhaseOK, Adding
<1>4. PICK h : h = st.hand[1]
  OBVIOUS
<1>5. h \in StoredItem /\ Known(h) /\ h.itemId = st.req.itemId
  <2>1. st.hand # <<>> /\ h \in StoredItem /\ st.hand \in Seq(Item)
    BY <1>1, <1>4, KnownType DEF Added
  <2>2. 1 \in 1..Len(st.hand)
    BY <2>1
  <2>3. Known(h)
    BY <1>4, <2>2 DEF Known, Copy
  <2> QED BY <1>1, <1>3, <1>4, <2>1, <2>3 DEF Private
<1>6. PICK n : n = Len(old.refs)
  OBVIOUS
<1>7. n \in Nat
  <2>1. old.refs \in Seq(Nat \ {0})
    BY <1>1, KnownType
  <2> QED BY <1>6, <2>1
<1>8. /\ \A j \in 1..Len(doc.refs) : j \in 1..n \/ j = n + 1
      /\ \A j \in 1..n : doc.refs[j] = old.refs[j]
      /\ doc.refs[n + 1] = h.id
  BY <1>4, <1>6, <1>7 DEF Added
<1>9. \A j \in 1..n : \A i \in items : i.id = old.refs[j] => i.itemId # st.req.itemId
  BY <1>1, <1>3, <1>6 DEF Absent, Alone
<1>10. \A i \in items : i.id = h.id => i.itemId = st.req.itemId
  <2>1. \A i \in items : i \in StoredItem /\ Known(i)
    BY <1>1, KnownType DEF Known
  <2> QED BY <1>1, <1>5, <2>1 DEF ItemIdsInv
<1>11. \A j, k \in 1..n : \A a, b \in items :
           a.id = old.refs[j] /\ b.id = old.refs[k] /\ a.itemId = b.itemId => j = k
  BY <1>1, <1>6 DEF OneLine
<1>12. ASSUME NEW j \in 1..Len(doc.refs), NEW k \in 1..Len(doc.refs), NEW a \in items,
                 NEW b \in items,
              a.id = doc.refs[j], b.id = doc.refs[k], a.itemId = b.itemId
       PROVE  j = k
  <2>1. CASE j \in 1..n /\ k \in 1..n
    BY <1>8, <1>11, <1>12, <2>1
  <2>2. CASE j \in 1..n /\ k = n + 1
    BY <1>8, <1>9, <1>10, <1>12, <2>2
  <2>3. CASE j = n + 1 /\ k \in 1..n
    BY <1>8, <1>9, <1>10, <1>12, <2>3
  <2> QED BY <1>8, <2>1, <2>2, <2>3
<1> QED BY <1>12 DEF OneLine

\* Nor does removing one bring a second.
LEMMA RemovedLine ==
    ASSUME NEW old, NEW doc, OneLine(old), items' = items,
           \A j \in 1..Len(doc.refs) : \E k \in 1..Len(old.refs) : doc.refs[j] = old.refs[k],
           \A j, k \in 1..Len(doc.refs) : doc.refs[j] = doc.refs[k] => j = k
    PROVE  OneLine(doc)'
<1>1. ASSUME NEW j \in 1..Len(doc.refs), NEW k \in 1..Len(doc.refs), NEW a \in items,
                NEW b \in items,
             a.id = doc.refs[j], b.id = doc.refs[k], a.itemId = b.itemId
       PROVE  j = k
  <2>1. PICK m \in 1..Len(old.refs), n \in 1..Len(old.refs) :
            doc.refs[j] = old.refs[m] /\ doc.refs[k] = old.refs[n]
    OBVIOUS
  <2>2. m = n
    BY <1>1, <2>1 DEF OneLine
  <2> QED BY <2>1, <2>2
<1> QED BY <1>1 DEF OneLine

\* A save adds a line only for an item the cart has no line of.
LEMMA SavedLine ==
    ASSUME MaxLag = 0, LineInv, WholeInv', NEW w \in Workers,
           AddItem(w) \/ RemoveItem(w) \/ MergeItem(w),
           NEW doc \in carts', doc \notin carts, Alone(doc.cust)
    PROVE  OneLine(doc)'
<1>1. OneCartInv /\ TypeInv /\ Exact(w) /\ TypeInv'
  BY DEF LineInv, WholeInv, SharingInv, DrawnInv, ItemIdsInv, OneCartInv
<1>2. PICK old \in carts : \E new :
               /\ new.id = old.id /\ new.cust = old.cust /\ old.cust = worker[w].req.cust
               /\ carts' = (carts \ {old}) \cup {new} /\ UNCHANGED <<items, nextId, torn>>
               /\ old.cust \notin torn => Added(w, old, new) \/ Removed(w, old, new)
  BY <1>1, SavedWhole
<1>3. /\ doc.cust = old.cust /\ old.cust = worker[w].req.cust /\ items' = items /\ torn' = torn
      /\ old.cust \notin torn => Added(w, old, doc) \/ Removed(w, old, doc)
  BY <1>2
<1>4. /\ doc.cust \notin torn /\ (Added(w, old, doc) \/ Removed(w, old, doc))
      /\ Alone(old.cust) /\ OneLine(old)
  BY <1>3 DEF Alone, LineInv
<1>5. CASE Added(w, old, doc)
  <2>1. ~MergeItem(w)
    <3>1. ASSUME MergeItem(w) PROVE FALSE
      <4>1. Does(w, "mergeItem")
        BY <3>1 DEF MergeItem
      <4>2. worker[w].req \in Requests /\ worker[w].req.op = "merge"
        BY <1>1, <3>1, <4>1, Working, MergeItemShape
      <4>3. worker[w].req.cust \notin Sessions /\ Sessions # {}
        BY <4>2, MergeNames
      <4> QED BY <1>3, <1>4, <4>3 DEF Alone
    <3> QED BY <3>1
  <2>2. AddItem(w)
    BY <1>5, <2>1 DEF Added
  <2> QED BY <1>3, <1>4, <1>5, <2>2, AddedLine
<1>6. CASE Removed(w, old, doc)
  <2>1. CASE doc.refs = old.refs
    BY <1>3, <1>4, <2>1 DEF OneLine
  <2>2. CASE Without(old, doc, FirstWanted(w))
    <3>1. \E n : Without(old, doc, n)
      BY <2>2
    <3>2. old.refs \in Seq(Nat) /\ doc.refs \in Seq(Nat)
      <4>1. old.refs \in Seq(Nat \ {0}) /\ carts' \subseteq CartDoc
        BY <1>1, KnownType DEF TypeInv, StoreInv
      <4> QED BY <4>1 DEF CartDoc
    <3>3. \A j, k \in 1..Len(old.refs) : old.refs[j] = old.refs[k] => j = k
      BY <1>3, <1>4 DEF LineInv, WholeInv
    <3>4. /\ \A j, k \in 1..Len(doc.refs) : doc.refs[j] = doc.refs[k] => j = k
          /\ \A j \in 1..Len(doc.refs) :
                 \E k \in 1..Len(old.refs) : doc.refs[j] = old.refs[k]
      BY <3>1, <3>2, <3>3, RemovedRefs
    <3> QED BY <1>3, <1>4, <3>4, RemovedLine
  <2> QED BY <1>6, <2>1, <2>2 DEF Removed
<1> QED BY <1>4, <1>5, <1>6

\* After a step every cart alone with its items still has one line per item.
LEMMA CartsLine ==
    ASSUME MaxLag = 0, LineInv, WholeInv', NEW w \in Workers, Handle(w) \/ Abort(w),
           NEW d \in carts', Alone(d.cust)'
    PROVE  OneLine(d)'
<1>1. OneCartInv /\ TypeInv /\ Frame(w) /\ WholeInv
  BY Below DEF LineInv, WholeInv
<1>2. Alone(d.cust) /\ d.cust \notin torn
  BY <1>1 DEF Frame, Alone
<1>3. CASE d \in carts
  <2>1. \A j \in 1..Len(d.refs) : \A i \in items' :
            i.id = d.refs[j] => \E o \in items : o.id = i.id /\ o.itemId = i.itemId
    BY <1>1, <1>2, <1>3, RefsStay
  <2>2. OneLine(d)
    BY <1>2, <1>3 DEF LineInv
  <2>3. ASSUME NEW j \in 1..Len(d.refs), NEW k \in 1..Len(d.refs), NEW a \in items',
                  NEW b \in items',
               a.id = d.refs[j], b.id = d.refs[k], a.itemId = b.itemId
        PROVE  j = k
    <3>1. PICK p \in items : p.id = a.id /\ p.itemId = a.itemId
      BY <2>1, <2>3
    <3>2. PICK q \in items : q.id = b.id /\ q.itemId = b.itemId
      BY <2>1, <2>3
    <3> QED BY <2>2, <2>3, <3>1, <3>2 DEF OneLine
  <2> QED BY <2>3 DEF OneLine
<1>4. CASE d \notin carts
  <2>1. CASE Create(w)
    <3>1. PICK doc : doc = [id |-> nextId, cust |-> worker[w].cart.cust, refs |-> <<>>]
      OBVIOUS
    <3>2. d = doc /\ doc.refs = <<>>
      BY <1>1, <1>4, <2>1, <3>1, CreateShape
    <3> QED BY <3>2 DEF OneLine
  <2>2. CASE AddItem(w) \/ RemoveItem(w) \/ MergeItem(w)
    BY <1>2, <1>4, <2>2, SavedLine
  <2>3. CASE Find(w) \/ HasItem(w) \/ FindItem(w) \/ Increment(w) \/ SaveItem(w)
             \/ SaveQuantity(w) \/ DestroyItem(w) \/ DeleteCart(w) \/ MergeItems(w) \/ Abort(w)
    <3>1. carts' \subseteq carts
      BY <1>1, <2>3, FindShape, HasItemShape, FindItemShape, IncrementShape, SaveItemShape,
         SaveQuantityShape, DestroyItemShape, DeleteCartShape, MergeItemsShape, AbortShape
    <3> QED BY <1>4, <3>1
  <2> QED BY <2>1, <2>2, <2>3 DEF Handle
<1> QED BY <1>3, <1>4

\* The item an add has found missing is still missing.
LEMMA OwnAbsent ==
    ASSUME MaxLag = 0, LineInv, NEW w \in Workers, Handle(w) \/ Abort(w)
    PROVE  Absent(w)'
<1> DEFINE st == worker[w]
<1>1. /\ OneCartInv /\ TypeInv /\ ItemIdsInv /\ GoesOn(w) /\ OwnStep(w) /\ WholeInv
      /\ Absent(w) /\ Frame(w)
  BY Below, OneThread DEF LineInv, WholeInv
<1>2. SUFFICES ASSUME Adding(w)', Goal(worker'[w]) = "addItem",
                      NEW d \in carts', d.cust = worker'[w].req.cust, d.cust \notin torn',
                      NEW j \in 1..Len(d.refs), NEW i \in items', i.id = d.refs[j]
               PROVE  i.itemId # worker'[w].req.itemId
  BY DEF Absent
<1>3. Adding(w) /\ Busy(w)' /\ worker'[w].req = st.req /\ d.cust \notin torn
  BY <1>1, <1>2 DEF GoesOn, Adding, OwnStep, Frame
<1>4. CASE Find(w) \/ Create(w)
  <2>1. Goal(st) = "addItem"
    <3>1. Goal(worker'[w]) = Goal(st)
      BY <1>1, <1>3, <1>4, LookGoesOn
    <3> QED BY <1>2, <3>1
  <2>2. items' = items /\ (d \in carts \/ d.refs = <<>>)
    <3>1. CASE Find(w)
      BY <1>1, <1>2, <3>1, FindShape
    <3>2. CASE Create(w)
      <4>1. PICK doc : doc = [id |-> nextId, cust |-> st.cart.cust, refs |-> <<>>]
        OBVIOUS
      <4>2. carts' = carts \cup {doc} /\ doc.refs = <<>> /\ items' = items
        BY <1>1, <3>2, <4>1, CreateShape
      <4> QED BY <1>2, <4>2
    <3> QED BY <1>4, <3>1, <3>2
  <2>3. d \in carts
    BY <1>2, <2>2
  <2> QED BY <1>1, <1>2, <1>3, <2>1, <2>2, <2>3 DEF Absent
<1>5. CASE HasItem(w)
  <2>1. Does(w, "hasItem")
    BY <1>5 DEF HasItem
  <2>2. At(w, LoadedSteps) /\ Head(st.todo) = "hasItem" /\ st.req.op = "add"
    BY <1>1, <2>1, Working DEF LoadedSteps, PhaseOK
  <2>3. PICK e \in carts : e.id = st.cart.id /\ e.cust = st.req.cust
    BY <1>1, <2>2 DEF OneCartInv, HoldsCart, Owner
  <2>4. UNCHANGED <<carts, items>> /\ Wanted(w) = {}
    <3>1. ~Becomes(w, PresentScript, st.cart, st.hand)
      <4>1. ASSUME Becomes(w, PresentScript, st.cart, st.hand) PROVE FALSE
        <5>1. worker'[w].todo = PresentScript
          BY <1>3, <4>1, Stays
        <5>2. PresentScript[Len(PresentScript)] = "increment"
          BY Spelled
        <5> QED BY <1>2, <5>1, <5>2 DEF Goal
      <4> QED BY <4>1
    <3> QED BY <1>1, <1>5, <3>1, HasItemShape
  <2>5. d = e
    BY <1>1, <1>2, <1>3, <2>3, <2>4 DEF OneCartInv, OneEach
  <2>6. PICK its : its = st.cart.items
    OBVIOUS
  <2>7. /\ Len(its) = Len(d.refs)
        /\ \A o \in StoredItem : Known(o) /\ o.id = d.refs[j] => o.itemId = its[j].itemId
    BY <1>1, <1>3, <2>2, <2>3, <2>5, <2>6, ReadWhole
  <2>8. its[j].itemId # st.req.itemId
    BY <2>4, <2>6, <2>7 DEF Wanted
  <2>9. i \in StoredItem /\ Known(i)
    BY <1>1, <2>4, KnownType DEF Known
  <2> QED BY <1>2, <1>3, <2>7, <2>8, <2>9
<1>6. CASE SaveItem(w)
  <2>1. Does(w, "saveItem")
    BY <1>6 DEF SaveItem
  <2>2. Goal(st) = "addItem"
    BY <1>1, <2>1, Working DEF PhaseOK
  <2>3. carts' = carts
    BY <1>1, <1>6, SaveItemShape
  <2>4. PICK o \in items : o.id = i.id /\ o.itemId = i.itemId
    BY <1>1, <1>2, <1>3, <2>3, RefsStay
  <2>5. o.itemId # st.req.itemId
    BY <1>1, <1>2, <1>3, <2>2, <2>3, <2>4 DEF Absent
  <2> QED BY <1>3, <2>4, <2>5
<1> QED BY <1>1, <1>2, <1>3, <1>4, <1>5, <1>6 DEF GoesOn

\* A step of another thread does not bring it either.
LEMMA OthersAbsent ==
    ASSUME MaxLag = 0, LineInv, NEW w \in Workers, Handle(w) \/ Abort(w),
           NEW v \in Workers, v # w
    PROVE  Absent(v)'
<1> DEFINE st == worker[v]
<1>1. /\ OneCartInv /\ TypeInv /\ Frame(w) /\ WholeInv /\ Absent(v)
      /\ worker'[v] = st /\ (Busy(v)' <=> Busy(v))
  BY Below DEF LineInv, WholeInv, Frame, Busy
<1>2. SUFFICES ASSUME Adding(v), Goal(st) = "addItem",
                      NEW d \in carts', d.cust = st.req.cust, d.cust \notin torn',
                      NEW j \in 1..Len(d.refs), NEW i \in items', i.id = d.refs[j]
               PROVE  i.itemId # st.req.itemId
  BY <1>1 DEF Absent, Adding
<1>3. d \in carts
  <2>1. Busy(v) /\ st.req.cust \in Named(st.req)
    BY <1>1, <1>2, NamedCustomers DEF Adding
  <2> QED BY <1>1, <1>2, <2>1, Untouched
<1>4. d.cust \notin torn
  BY <1>1, <1>2 DEF Frame
<1>5. PICK o \in items : o.id = i.id /\ o.itemId = i.itemId
  BY <1>1, <1>2, <1>3, <1>4, RefsStay
<1> QED BY <1>1, <1>2, <1>3, <1>4, <1>5 DEF Absent

\* A request that comes in has found nothing missing yet.
LEMMA ReceiveLine ==
    ASSUME LineInv, WholeInv', NEW w \in Workers, NEW req \in Requests, Receive(w, req)
    PROVE  LineInv'
<1>1. OneCartInv
  BY DEF LineInv, WholeInv, SharingInv, DrawnInv, ItemIdsInv
<1>2. /\ UNCHANGED <<carts, items, nextId, torn>>
      /\ \A v \in Workers \ {w} : worker'[v] = worker[v]
      /\ worker'[w].req = req /\ worker'[w].todo = Script(req.op)
  BY <1>1, ReceiveShape
<1>3. Absent(w)'
  <2>1. req.op = "add" => Goal(worker'[w]) = "hasItem"
    BY <1>2, Spelled DEF Script, Goal
  <2> QED BY <1>2, <2>1 DEF Absent, Adding
<1>4. ASSUME NEW v \in Workers, v # w PROVE Absent(v)'
  <2>1. worker'[v] = worker[v] /\ Absent(v)
    BY <1>2, <1>4 DEF LineInv
  <2> QED BY <1>2, <2>1 DEF Absent, Adding, Busy
<1>5. \A d \in carts' : Alone(d.cust)' => OneLine(d)'
  BY <1>2 DEF LineInv, Alone, OneLine
<1> QED BY <1>3, <1>4, <1>5 DEF LineInv

\* Every step keeps one line per item.
LEMMA LineStep ==
    ASSUME Serial, MaxLag = 0, LineInv, [Next]_vars
    PROVE  LineInv'
<1>1. WholeInv' /\ OneCartInv
  <2>1. WholeInv'
    BY WholeStep DEF LineInv
  <2> QED BY <2>1 DEF LineInv, WholeInv, SharingInv, DrawnInv, ItemIdsInv
<1>2. ASSUME NEW w \in Workers, Handle(w) \/ Abort(w) PROVE LineInv'
  <2>1. \A d \in carts' : Alone(d.cust)' => OneLine(d)'
    BY <1>1, <1>2, CartsLine
  <2>2. \A v \in Workers : Absent(v)'
    BY <1>2, OwnAbsent, OthersAbsent
  <2> QED BY <1>1, <2>1, <2>2 DEF LineInv
<1>3. ASSUME NEW w \in Workers, NEW req \in Requests, Receive(w, req) PROVE LineInv'
  BY <1>1, <1>3, ReceiveLine
<1>4. CASE UNCHANGED vars \/ Quiesce
  <2>1. UNCHANGED <<carts, items, worker, torn>>
    BY <1>4 DEF Quiesce, vars
  <2>2. \A v \in Workers : Absent(v)'
    BY <2>1 DEF LineInv, Absent, Adding, Busy
  <2>3. \A d \in carts' : Alone(d.cust)' => OneLine(d)'
    BY <2>1 DEF LineInv, Alone, OneLine
  <2> QED BY <1>1, <2>2, <2>3 DEF LineInv
<1>5. CASE CatchUp
  BY <1>1, <1>5 DEF CatchUp, OneCartInv
<1> QED BY <1>2, <1>3, <1>4, <1>5 DEF Next

\* At the start there are no lines.
LEMMA LineInit ==
    ASSUME Init
    PROVE  LineInv
<1>1. carts = {} /\ \A w \in Workers : ~Busy(w)
  BY DEF Init, Busy, Free
<1> QED BY <1>1, WholeInit DEF LineInv, Absent, Adding

\* One line per item is what the invariant says of the carts that count.
LEMMA LineOK ==
    ASSUME LineInv
    PROVE  OneLinePerItem
<1>1. SUFFICES ASSUME NEW d \in carts, NEW j \in 1..Len(d.refs), NEW k \in 1..Len(d.refs),
                      Alone(d.cust), d.refs[j] \in Ids(items), d.refs[k] \in Ids(items),
                      ItemDoc(d.refs[j], items).itemId = ItemDoc(d.refs[k], items).itemId
               PROVE  j = k
  BY DEF OneLinePerItem, Alone
<1>2. \A id \in Ids(items) : ItemDoc(id, items) \in items /\ ItemDoc(id, items).id = id
  BY DEF Ids, ItemDoc
<1>3. OneLine(d)
  BY <1>1 DEF LineInv
<1> QED BY <1>1, <1>2, <1>3 DEF OneLine

\* When the requests naming a customer are served one after another and reads
\* are current, a cart no cut-off merge has touched has one line per item once
\* no merge is moving items into it (CartsController.addToCart looks before it
\* adds).
THEOREM OneLinePerItemSerial ==
    ASSUME Serial, MaxLag = 0
    PROVE  Spec => []OneLinePerItem
<1>1. Init => LineInv
  BY LineInit
<1>2. LineInv /\ [Next]_vars => LineInv'
  BY LineStep
<1>3. LineInv => OneLinePerItem
  BY LineOK
<1> QED BY <1>1, <1>2, <1>3, PTL DEF Spec

=============================================================================
