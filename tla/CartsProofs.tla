---------------------------- MODULE CartsProofs ----------------------------
(* What the carts service guarantees for all customers, items, threads and
   bounds: documents and handlers stay in order, a customer's carts are bounded
   by the threads and the lag of the reads, and with the requests of a customer
   served one after another there is at most one cart.  Then what each step of a
   handler does to the collections and to its thread, for the proofs of
   CartsSerialProofs.  The last part is about requests that overlap: a cart
   shows only what was asked for. *)
EXTENDS CartsAsked, SequenceTheorems, FiniteSetTheorems, NaturalsInduction,
        WellFoundedInduction, TLAPS


StoredItem == {i \in Item : i.id # 0}

MergeItemScript == <<"value", "value", "mergeItem">>

\* The scripts a handler of `op` goes through.
Scripts(op) ==
    CASE op = "add"   -> {AddScript, AbsentScript, PresentScript, UpdateScript}
      [] op = "merge" -> {MergeScript, MergeItemScript, DropSession}
      [] OTHER        -> {Script(op)}

\* What a handler has left of its script, less the cart it has to create first.
Remaining(todo) == IF Head(todo) = "create" THEN Tail(todo) ELSE todo

IsRest(t, s) ==
    /\ Len(t) <= Len(s)
    /\ \A j \in 1..Len(t) : t[j] = s[Len(s) - Len(t) + j]

\* The steps that use the cart as the last look-up has left it.
LoadedSteps ==
    {"hasItem", "foundItem", "increment", "saveItem", "addItem", "removeItem",
     "deleteCart", "mergeItems", "mergeItem"}

\* The hand with n steps of script s left.
HandOK(hand, op, s, n) ==
    /\ \/ s \in {AddScript, AbsentScript, MergeItemScript}
       \/ s = UpdateScript /\ n = 1
       \/ s = RemoveScript /\ n <= 4
       => hand # <<>>
    /\ op # "add" \/ (s = AbsentScript /\ n <= 5) \/ (s = UpdateScript /\ n = 1)
       => hand \in Seq(StoredItem)

Target(req, step) == IF step = "session" THEN req.other ELSE req.cust

Follows(st, s) ==
    LET t == Remaining(st.todo)
    IN  /\ t # <<>>
        /\ IsRest(t, s)
        /\ HandOK(st.hand, st.req.op, s, Len(t))
        /\ Head(st.todo) = "create" =>
               /\ Head(t) \in {"value", "session"}
               /\ st.cart = [id |-> 0, cust |-> Target(st.req, Head(t)), items |-> <<>>]

\* The state of a request thread between two steps.
StateOK(st) ==
    /\ st \in WorkerState
    /\ st.cart.items \in Seq(StoredItem)
    /\ st.req = None => st = Free
    /\ st.req # None =>
        /\ st.todo # <<>>
        /\ \E s \in Scripts(st.req.op) : Follows(st, s)
        /\ Head(st.todo) \in LoadedSteps => st.cart.id # 0 /\ st.cart.cust \in Customers

\* The four collections a handler leaves behind, whatever it was doing.
StoreInv ==
    /\ carts \subseteq CartDoc
    /\ items \subseteq StoredItem
    /\ lagging \in Seq([carts : SUBSET CartDoc, items : SUBSET StoredItem])
    /\ nextId \in Nat \ {0}

TypeInv ==
    /\ StoreInv
    /\ worker \in [Workers -> WorkerState]
    /\ \A w \in Workers : StateOK(worker[w])
    /\ received \in 0..MaxRequests /\ aborted \in 0..MaxAborts
    /\ torn \subseteq Customers

-----------------------------------------------------------------------------

OpNames == {"get", "getItem", "add", "remove", "update", "merge", "delete"}

AllScripts ==
    {GetScript, DeleteScript, GetItemScript, AddScript, AbsentScript, PresentScript,
     UpdateScript, RemoveScript, MergeScript, MergeItemScript, DropSession}

\* Every script with its compositions written out, so that its steps can be
\* counted.
LEMMA Spelled ==
    /\ GetScript = <<"value">>
    /\ DeleteScript = <<"value", "deleteCart">>
    /\ GetItemScript = <<"value", "foundItem">>
    /\ AddScript = <<"value", "hasItem">>
    /\ AbsentScript = <<"value", "saveItem", "value", "saveItem", "value", "saveItem", "addItem">>
    /\ PresentScript = <<"value", "value", "foundItem", "value", "increment">>
    /\ UpdateScript = <<"value", "foundItem", "saveQuantity">>
    /\ RemoveScript = <<"value", "foundItem", "value", "value", "removeItem", "destroyItem">>
    /\ MergeScript = <<"session", "mergeItems">>
    /\ MergeItemScript = <<"value", "value", "mergeItem">>
    /\ DropSession = <<"session", "deleteCart">>
  BY DEF GetScript, DeleteScript, GetItemScript, AddScript, AbsentScript, PresentScript,
         UpdateScript, RemoveScript, MergeScript, MergeItemScript, DropSession

\* How many steps each script has.
LEMMA ScriptLengths ==
    /\ Len(GetScript) = 1 /\ Len(DeleteScript) = 2 /\ Len(GetItemScript) = 2
    /\ Len(AddScript) = 2 /\ Len(AbsentScript) = 7 /\ Len(PresentScript) = 5
    /\ Len(UpdateScript) = 3 /\ Len(RemoveScript) = 6 /\ Len(MergeScript) = 2
    /\ Len(MergeItemScript) = 3 /\ Len(DropSession) = 2
  BY Spelled

\* Scripts that ask for something different in the hand are different scripts.
LEMMA ScriptsDiffer ==
    /\ AbsentScript \notin {RemoveScript, UpdateScript, MergeItemScript, DropSession}
    /\ UpdateScript \notin {RemoveScript, DropSession, PresentScript, AddScript}
    /\ RemoveScript \notin {DropSession, MergeItemScript}
    /\ DropSession \notin {AddScript, MergeItemScript}
<1>1. AbsentScript \notin {RemoveScript, UpdateScript, MergeItemScript, DropSession}
  BY ScriptLengths
<1>2. UpdateScript \notin {RemoveScript, DropSession, PresentScript, AddScript}
  BY ScriptLengths
<1>3. RemoveScript \notin {DropSession, MergeItemScript}
  BY ScriptLengths
<1>4. DropSession # MergeItemScript
  BY ScriptLengths
<1>5. DropSession # AddScript
  BY Spelled
<1> QED BY <1>1, <1>2, <1>3, <1>4, <1>5

\* A script is a sequence of one step or more.
LEMMA ScriptType ==
    ASSUME NEW s \in AllScripts
    PROVE  s \in Seq(StepNames) /\ s # <<>>
<1>1. GetScript \in Seq(StepNames) /\ GetScript # <<>>     BY DEF GetScript, StepNames
<1>2. DeleteScript \in Seq(StepNames) /\ DeleteScript # <<>>  BY DEF DeleteScript, StepNames
<1>3. GetItemScript \in Seq(StepNames) /\ GetItemScript # <<>> BY DEF GetItemScript, StepNames
<1>4. AddScript \in Seq(StepNames) /\ AddScript # <<>>     BY DEF AddScript, StepNames
<1>5. AbsentScript \in Seq(StepNames) /\ AbsentScript # <<>>  BY DEF AbsentScript, StepNames
<1>6. PresentScript \in Seq(StepNames) /\ PresentScript # <<>> BY DEF PresentScript, StepNames
<1>7. UpdateScript \in Seq(StepNames) /\ UpdateScript # <<>>  BY DEF UpdateScript, StepNames
<1>8. RemoveScript \in Seq(StepNames) /\ RemoveScript # <<>>  BY DEF RemoveScript, StepNames
<1>9. MergeScript \in Seq(StepNames) /\ MergeScript # <<>>   BY DEF MergeScript, StepNames
<1>10. MergeItemScript \in Seq(StepNames) /\ MergeItemScript # <<>>
          BY DEF MergeItemScript, StepNames
<1>11. DropSession \in Seq(StepNames) /\ DropSession # <<>>  BY DEF DropSession, StepNames
<1> QED
  BY <1>1, <1>2, <1>3, <1>4, <1>5, <1>6, <1>7, <1>8, <1>9, <1>10, <1>11
     DEF AllScripts

\* Every script a handler goes through is one of the scripts of
\* CartsController and its parts.
LEMMA ScriptsAll ==
    ASSUME NEW op \in OpNames
    PROVE  Scripts(op) \subseteq AllScripts
  BY DEF OpNames, Scripts, AllScripts, Script

\* Where in which script a step stands: what is left after it is then known.
LEMMA Where ==
    ASSUME NEW s \in AllScripts, NEW m \in 1..Len(s)
    PROVE  /\ s[m] # "create"
           /\ s[m] = "session" => s \in {MergeScript, DropSession} /\ m = 1 /\ Len(s) = 2
           /\ s[m] = "hasItem" => s = AddScript /\ m = 2 /\ Len(s) = 2
           /\ s[m] = "foundItem" =>
                \/ s = GetItemScript /\ m = 2 /\ Len(s) = 2
                \/ s = PresentScript /\ m = 3 /\ Len(s) = 5
                \/ s = UpdateScript /\ m = 2 /\ Len(s) = 3
                \/ s = RemoveScript /\ m = 2 /\ Len(s) = 6
           /\ s[m] = "increment" => s = PresentScript /\ m = 5 /\ Len(s) = 5
           /\ s[m] = "saveItem" => s = AbsentScript /\ m \in {2, 4, 6} /\ Len(s) = 7
           /\ s[m] = "saveQuantity" => s = UpdateScript /\ m = 3 /\ Len(s) = 3
           /\ s[m] = "addItem" => s = AbsentScript /\ m = 7 /\ Len(s) = 7
           /\ s[m] = "removeItem" => s = RemoveScript /\ m = 5 /\ Len(s) = 6
           /\ s[m] = "destroyItem" => s = RemoveScript /\ m = 6 /\ Len(s) = 6
           /\ s[m] = "deleteCart" => s \in {DeleteScript, DropSession} /\ m = 2 /\ Len(s) = 2
           /\ s[m] = "mergeItems" => s = MergeScript /\ m = 2 /\ Len(s) = 2
           /\ s[m] = "mergeItem" => s = MergeItemScript /\ m = 3 /\ Len(s) = 3
<1>1. CASE s = GetScript       BY <1>1, Spelled
<1>2. CASE s = DeleteScript    BY <1>2, Spelled
<1>3. CASE s = GetItemScript   BY <1>3, Spelled
<1>4. CASE s = AddScript       BY <1>4, Spelled
<1>5. CASE s = AbsentScript
  <2>1. m \in {1, 2, 3, 4, 5, 6, 7} /\ Len(s) = 7 BY <1>5, Spelled
  <2> QED BY <1>5, <2>1, Spelled
<1>6. CASE s = PresentScript
  <2>1. m \in {1, 2, 3, 4, 5} /\ Len(s) = 5 BY <1>6, Spelled
  <2> QED BY <1>6, <2>1, Spelled
<1>7. CASE s = UpdateScript    BY <1>7, Spelled
<1>8. CASE s = RemoveScript
  <2>1. m \in {1, 2, 3, 4, 5, 6} /\ Len(s) = 6 BY <1>8, Spelled
  <2> QED BY <1>8, <2>1, Spelled
<1>9. CASE s = MergeScript     BY <1>9, Spelled
<1>10. CASE s = MergeItemScript BY <1>10, Spelled
<1>11. CASE s = DropSession    BY <1>11, Spelled
<1> QED
  BY <1>1, <1>2, <1>3, <1>4, <1>5, <1>6, <1>7, <1>8, <1>9, <1>10, <1>11 DEF AllScripts

\* A script belongs to its requests: only an add looks for an item, only a
\* merge loops over items.
LEMMA ScriptOps ==
    ASSUME NEW op \in OpNames, NEW s \in Scripts(op)
    PROVE  /\ s = GetItemScript => op = "getItem"
           /\ s \in {AddScript, AbsentScript, PresentScript} => op = "add"
           /\ s = RemoveScript => op = "remove"
           /\ s \in {MergeScript, MergeItemScript, DropSession} => op = "merge"
           /\ s = UpdateScript => op \in {"add", "update"}
           /\ s = DeleteScript => op = "delete"
<1>2. DeleteScript[2] = "deleteCart" /\ GetItemScript[2] = "foundItem" /\ AddScript[2] = "hasItem"
      /\ MergeScript[2] = "mergeItems" /\ DropSession[2] = "deleteCart"
      /\ DeleteScript[1] = "value" /\ DropSession[1] = "session"
      /\ UpdateScript[2] = "foundItem" /\ MergeItemScript[2] = "value"
  BY Spelled
<1> QED
  BY ScriptLengths, <1>2 DEF OpNames, Scripts, Script

-----------------------------------------------------------------------------
(* What a handler has left of its script *)

\* The rest of a script begins with the step at its place, and its tail is a
\* rest again.
LEMMA RestSteps ==
    ASSUME NEW s \in AllScripts, NEW t \in Seq(StepNames), t # <<>>, IsRest(t, s)
    PROVE  /\ Len(t) \in 1..Len(s) /\ Len(s) - Len(t) + 1 \in 1..Len(s)
           /\ Head(t) = s[Len(s) - Len(t) + 1]
           /\ Head(t) # "create"
           /\ Tail(t) \in Seq(StepNames)
           /\ Len(Tail(t)) = Len(t) - 1
           /\ Tail(t) = <<>> <=> Len(t) = 1
           /\ IsRest(Tail(t), s)
<1>1. s \in Seq(StepNames)
  BY ScriptType
<1>2. Len(t) \in 1..Len(s) /\ Len(s) - Len(t) + 1 \in 1..Len(s)
  BY <1>1 DEF IsRest
<1>3. Head(t) = s[Len(s) - Len(t) + 1]
  BY <1>1, <1>2 DEF IsRest
<1>4. Head(t) # "create"
  BY <1>2, <1>3, Where
<1>5. /\ Tail(t) \in Seq(StepNames) /\ Len(Tail(t)) = Len(t) - 1
      /\ Tail(t) = <<>> <=> Len(t) = 1
  <2>1. Tail(t) \in Seq(StepNames) /\ Len(Tail(t)) = Len(t) - 1
    BY HeadTailProperties
  <2>2. Tail(t) = <<>> <=> Len(Tail(t)) = 0
    BY <2>1, EmptySeq
  <2> QED BY <1>2, <2>1, <2>2
<1>6. IsRest(Tail(t), s)
  <2> SUFFICES ASSUME NEW j \in 1..Len(Tail(t))
               PROVE  Tail(t)[j] = s[Len(s) - Len(Tail(t)) + j]
    BY <1>1, <1>2, <1>5 DEF IsRest
  <2>1. j + 1 \in 1..Len(t) /\ Tail(t)[j] = t[j + 1]
    BY <1>5
  <2>2. Len(s) - Len(Tail(t)) + j = Len(s) - Len(t) + (j + 1)
    BY <1>1, <1>2, <1>5
  <2> QED BY <2>1, <2>2 DEF IsRest
<1> QED BY <1>2, <1>3, <1>4, <1>5, <1>6

\* A request names a customer; only a merge names a session too, and most name
\* an item.
LEMMA RequestOps ==
    ASSUME NEW req \in Requests
    PROVE  /\ req.op \in OpNames
           /\ req.cust \in Customers
           /\ req.op = "merge" => req.other \in Sessions
           /\ req.op # "merge" => req.other = None
           /\ req.op \in {"getItem", "add", "remove", "update"} => req.itemId \in Items
           /\ req.qty \in Nat
<1>1. CASE req \in CartRequests
  BY <1>1 DEF CartRequests, OpNames
<1>2. CASE req \in ItemRequests
  BY <1>2 DEF ItemRequests, OpNames
<1>3. CASE req \in UpdateRequests
  BY <1>3, CartsAssumption DEF UpdateRequests, OpNames
<1>4. CASE req \in MergeRequests
  BY <1>4 DEF MergeRequests, OpNames
<1> QED BY <1>1, <1>2, <1>3, <1>4 DEF Requests

\* A busy handler is at a known step of one of the scripts of its operation.
LEMMA AtStep ==
    ASSUME NEW st, StateOK(st), st.req # None
    PROVE  /\ st.req \in Requests /\ st.req.op \in OpNames
           /\ st.todo \in Seq(StepNames) /\ st.todo # <<>>
           /\ st.cart \in CartObject /\ st.hand \in Seq(Item) /\ st.qty \in Nat
           /\ \E s \in Scripts(st.req.op) :
                  /\ s \in AllScripts
                  /\ Follows(st, s)
                  /\ Remaining(st.todo) \in Seq(StepNames)
                  /\ Head(st.todo) # "create" => Remaining(st.todo) = st.todo
<1>1. /\ st.req \in Requests /\ st.todo \in Seq(StepNames) /\ st.todo # <<>>
      /\ st.cart \in CartObject /\ st.hand \in Seq(Item) /\ st.qty \in Nat
  BY DEF StateOK, WorkerState
<1>2. st.req.op \in OpNames
  BY <1>1, RequestOps
<1>3. PICK s \in Scripts(st.req.op) : Follows(st, s)
  BY DEF StateOK
<1>4. s \in AllScripts
  BY <1>2, ScriptsAll
<1>5. Remaining(st.todo) \in Seq(StepNames)
  BY <1>1 DEF Remaining
<1>6. Head(st.todo) # "create" => Remaining(st.todo) = st.todo
  BY DEF Remaining
<1> QED BY <1>1, <1>2, <1>3, <1>4, <1>5, <1>6

\* A sequence of stored items is a sequence of items.
LEMMA StoredSeq ==
    ASSUME NEW q \in Seq(StoredItem)
    PROVE  q \in Seq(Item)
  BY DEF StoredItem

\* A thread that serves no request is in order.
LEMMA FreeOK == StateOK(Free)
<1>1. NoCart \in CartObject /\ NoCart.items \in Seq(StoredItem)
  BY DEF NoCart, CartObject
<1>2. Free \in WorkerState /\ Free.cart = NoCart /\ Free.req = None
  BY <1>1 DEF Free, WorkerState
<1> QED BY <1>1, <1>2 DEF StateOK

\* The next step of the same script.
LEMMA StepOK ==
    ASSUME NEW st, StateOK(st), st.req # None,
           NEW s \in Scripts(st.req.op), Follows(st, s), Head(st.todo) # "create",
           NEW cart \in CartObject, cart.items \in Seq(StoredItem),
           NEW hand \in Seq(Item), NEW qty \in Nat,
           HandOK(hand, st.req.op, s, Len(st.todo) - 1),
           Tail(st.todo) # <<>> /\ Head(Tail(st.todo)) \in LoadedSteps =>
               cart.id # 0 /\ cart.cust \in Customers,
           NEW new,
           new = [st EXCEPT !.todo = Tail(@), !.cart = cart, !.hand = hand, !.qty = qty]
    PROVE  StateOK(IF new.todo = <<>> THEN Free ELSE new)
<1>1. /\ st.req \in Requests /\ st.req.op \in OpNames
      /\ st.todo \in Seq(StepNames) /\ st.todo # <<>>
      /\ Remaining(st.todo) = st.todo /\ s \in AllScripts
  BY AtStep, ScriptsAll DEF Remaining
<1>2. CASE Tail(st.todo) = <<>>
  <2>1. new.todo = <<>>
    BY <1>2 DEF StateOK, WorkerState
  <2> QED BY <2>1, FreeOK
<1>3. CASE Tail(st.todo) # <<>>
  <2>1. /\ new \in WorkerState /\ new.todo = Tail(st.todo) /\ new.cart = cart
        /\ new.hand = hand /\ new.req = st.req
    <3>1. Tail(st.todo) \in Seq(StepNames)
      BY <1>1, HeadTailProperties
    <3> QED BY <3>1 DEF StateOK, WorkerState
  <2>2. IsRest(st.todo, s)
    BY <1>1 DEF Follows
  <2>3. /\ Tail(st.todo) \in Seq(StepNames) /\ IsRest(Tail(st.todo), s)
        /\ Len(Tail(st.todo)) = Len(st.todo) - 1
    BY <1>1, <2>2, RestSteps
  <2>4. Head(Tail(st.todo)) # "create"
    BY <1>1, <1>3, <2>3, RestSteps
  <2>5. Remaining(new.todo) = Tail(st.todo)
    BY <2>1, <2>4 DEF Remaining
  <2>6. Follows(new, s)
    BY <1>3, <2>1, <2>3, <2>4, <2>5 DEF Follows
  <2>7. StateOK(new)
    BY <1>3, <2>1, <2>6 DEF StateOK
  <2> QED BY <1>3, <2>1, <2>7
<1> QED BY <1>2, <1>3

\* The first step of another script of the same operation.
LEMMA EnterOK ==
    ASSUME NEW st, StateOK(st), st.req # None,
           NEW s \in Scripts(st.req.op),
           NEW hand \in Seq(Item), NEW qty \in Nat,
           HandOK(hand, st.req.op, s, Len(s)),
           NEW new,
           new = [st EXCEPT !.todo = s, !.hand = hand, !.qty = qty]
    PROVE  StateOK(IF new.todo = <<>> THEN Free ELSE new)
<1>1. /\ st.req.op \in OpNames /\ s \in AllScripts /\ s \in Seq(StepNames) /\ s # <<>>
  BY AtStep, ScriptsAll, ScriptType
<1>2. IsRest(s, s)
  BY <1>1 DEF IsRest
<1>3. Head(s) \in {"value", "session"}
  BY Spelled, <1>1 DEF AllScripts
<1>4. /\ new \in WorkerState /\ new.todo = s /\ new.cart = st.cart
      /\ new.hand = hand /\ new.req = st.req
  BY <1>1 DEF StateOK, WorkerState
<1>5. Remaining(s) = s
  BY <1>3 DEF Remaining
<1>6. Follows(new, s)
  BY <1>1, <1>2, <1>3, <1>4, <1>5 DEF Follows
<1> QED BY <1>1, <1>3, <1>4, <1>6 DEF StateOK, LoadedSteps

-----------------------------------------------------------------------------
(* Induction on the naturals, from the well-foundedness of < *)

\* A nonempty set of naturals has a least element.
LEMMA LeastNat ==
    ASSUME NEW T, T \in SUBSET Nat, T # {}
    PROVE  \E n \in T : \A m \in T : n <= m
<1> DEFINE R == OpToRel(<, Nat)
<1>1. IsWellFoundedOn(R, Nat)
  BY NatLessThanWellFounded
<1>2. \A m, n \in Nat : m < n => <<m, n>> \in R
  BY DEF OpToRel
<1> HIDE DEF R
<1>3. PICK n \in T : \A m \in T : ~(<<m, n>> \in R)
  BY <1>1, WFMin
<1>4. ASSUME NEW m \in T PROVE n <= m
  <2>1. ~(m < n)
    BY <1>2, <1>3
  <2> QED BY <2>1
<1> QED BY <1>4

-----------------------------------------------------------------------------
(* The references that are resolved *)

KeptAt(f, k, refs, ids) ==
    IF k = 0 THEN <<>>
    ELSE IF refs[k] \in ids THEN Append(f[k - 1], refs[k]) ELSE f[k - 1]

IsKept(f, n, refs, ids) == f = [k \in 0..n |-> KeptAt(f, k, refs, ids)]

\* The count of the references that still resolve exists for every cart: by
\* induction, the least length without one has a shorter one that has none
\* either.
LEMMA KeptExists ==
    ASSUME NEW refs, NEW ids, NEW m \in Nat
    PROVE  \E f : IsKept(f, m, refs, ids)
<1> DEFINE Bad == {n \in Nat : ~ \E f : IsKept(f, n, refs, ids)}
<1> SUFFICES ASSUME Bad # {} PROVE FALSE
  OBVIOUS
<1>1. PICK n \in Bad : \A k \in Bad : n <= k
  <2>1. Bad \in SUBSET Nat
    OBVIOUS
  <2> HIDE DEF Bad
  <2> QED BY <2>1, LeastNat
<1>2. n # 0
  <2> SUFFICES IsKept([k \in 0..0 |-> <<>>], 0, refs, ids)
    BY <1>1
  <2> QED BY DEF IsKept, KeptAt
<1>3. n - 1 \in Nat /\ n - 1 \notin Bad
  BY <1>1, <1>2
<1>4. PICK f : IsKept(f, n - 1, refs, ids)
  BY <1>3
<1> DEFINE g == [k \in 0..n |-> IF k < n THEN f[k] ELSE KeptAt(f, n, refs, ids)]
<1>5. ASSUME NEW k \in 0..n PROVE g[k] = KeptAt(g, k, refs, ids)
  <2>1. k > 0 => g[k - 1] = f[k - 1]
    BY <1>3
  <2>2. KeptAt(g, k, refs, ids) = KeptAt(f, k, refs, ids)
    <3> HIDE DEF g
    <3> QED BY <2>1 DEF KeptAt
  <2>3. k < n => f[k] = KeptAt(f, k, refs, ids)
    BY <1>3, <1>4 DEF IsKept
  <2> QED BY <2>2, <2>3, <1>3
<1>6. IsKept(g, n, refs, ids)
  <2>1. g = [k \in 0..n |-> g[k]]
    OBVIOUS
  <2> HIDE DEF g
  <2> QED BY <2>1, <1>5 DEF IsKept
<1> QED BY <1>1, <1>6

\* Live(refs, ids) holds nothing but references of refs that are in ids, and
\* is refs when all of them are.
LEMMA LiveRefs ==
    ASSUME NEW S, NEW refs \in Seq(S), NEW ids
    PROVE  /\ Live(refs, ids) \in Seq(S)
           /\ \A k \in 1..Len(Live(refs, ids)) :
                  /\ Live(refs, ids)[k] \in ids
                  /\ \E j \in 1..Len(refs) : Live(refs, ids)[k] = refs[j]
           /\ (\A j \in 1..Len(refs) : refs[j] \in ids) => Live(refs, ids) = refs
<1> DEFINE kept == CHOOSE f : IsKept(f, Len(refs), refs, ids)
<1>1. Len(refs) \in Nat
  OBVIOUS
<1>2. IsKept(kept, Len(refs), refs, ids)
  BY KeptExists, <1>1
<1>3. Live(refs, ids) = kept[Len(refs)]
  BY DEF Live, IsKept, KeptAt
<1> HIDE DEF kept
<1> DEFINE
      Good(n) ==
          /\ kept[n] \in Seq(S)
          /\ \A k \in 1..Len(kept[n]) :
                 kept[n][k] \in ids /\ \E j \in 1..Len(refs) : kept[n][k] = refs[j]
          /\ (\A j \in 1..n : refs[j] \in ids) =>
                 Len(kept[n]) = n /\ \A j \in 1..n : kept[n][j] = refs[j]
      Bad == {n \in Nat : n <= Len(refs) /\ ~Good(n)}
<1>4. \A k \in 0..Len(refs) : kept[k] = KeptAt(kept, k, refs, ids)
  BY <1>2 DEF IsKept
<1>5. Good(0)
  <2>1. kept[0] = <<>>
    BY <1>4 DEF KeptAt
  <2> QED BY <2>1
<1>6. Bad = {}
  <2> SUFFICES ASSUME Bad # {} PROVE FALSE
    OBVIOUS
  <2> HIDE DEF Good
  <2>1. PICK n \in Bad : \A k \in Bad : n <= k
    <3>1. Bad \in SUBSET Nat
      OBVIOUS
    <3> HIDE DEF Bad
    <3> QED BY <3>1, LeastNat
  <2>2. n \in 1..Len(refs) /\ n - 1 \notin Bad /\ n - 1 \in Nat
    BY <2>1, <1>5
  <2>3. Good(n - 1)
    BY <2>2
  <2>4. kept[n] = KeptAt(kept, n, refs, ids)
    BY <1>4, <2>2
  <2> USE DEF Good
  <2>5. CASE refs[n] \in ids
    <3>1. kept[n] = Append(kept[n - 1], refs[n])
      BY <2>2, <2>4, <2>5 DEF KeptAt
    <3>2. Good(n)
      BY <3>1, <2>2, <2>3, <2>5
    <3> QED BY <2>1, <3>2
  <2>6. CASE refs[n] \notin ids
    <3>1. kept[n] = kept[n - 1]
      BY <2>2, <2>4, <2>6 DEF KeptAt
    <3>2. Good(n)
      BY <3>1, <2>2, <2>3, <2>6
    <3> QED BY <2>1, <3>2
  <2> QED BY <2>5, <2>6
<1>7. Good(Len(refs))
  <2> HIDE DEF Good
  <2> QED BY <1>6, <1>1
<1> DEFINE live == Live(refs, ids)
<1>8. ASSUME \A j \in 1..Len(refs) : refs[j] \in ids PROVE live = refs
  <2>1. /\ kept[Len(refs)] \in Seq(S) /\ Len(kept[Len(refs)]) = Len(refs)
        /\ \A j \in 1..Len(refs) : kept[Len(refs)][j] = refs[j]
    BY <1>7, <1>8
  <2>2. kept[Len(refs)] = refs
    BY <2>1, SeqEqual
  <2> QED BY <1>3, <2>2
<1>9. live \in Seq(S) /\ \A k \in 1..Len(live) :
          live[k] \in ids /\ \E j \in 1..Len(refs) : live[k] = refs[j]
  BY <1>3, <1>7
<1> QED BY <1>8, <1>9

-----------------------------------------------------------------------------
(* The documents a step reads and writes *)

\* What a read of a lagging secondary sees was written by somebody.
LEMMA ViewType ==
    ASSUME StoreInv
    PROVE  View.carts \subseteq CartDoc /\ View.items \subseteq StoredItem
<1>1. CASE lagging = <<>>
  BY <1>1 DEF StoreInv, View
<1>2. CASE lagging # <<>>
  <2>1. Head(lagging) \in [carts : SUBSET CartDoc, items : SUBSET StoredItem]
    BY <1>2, HeadTailProperties DEF StoreInv
  <2> QED BY <1>2, <2>1 DEF View
<1> QED BY <1>1, <1>2

\* The item document found by an id is one of the documents and has that id.
LEMMA DocOfId ==
    ASSUME NEW docs, NEW id \in Ids(docs)
    PROVE  ItemDoc(id, docs) \in docs /\ ItemDoc(id, docs).id = id
  BY DEF Ids, ItemDoc

\* The cart object read from a document keeps its id and customer and holds
\* stored items only.
LEMMA LoadType ==
    ASSUME StoreInv, NEW d \in View.carts
    PROVE  /\ Load(d) \in CartObject
           /\ Load(d).items \in Seq(StoredItem)
           /\ Load(d).id = d.id /\ Load(d).id # 0
           /\ Load(d).cust = d.cust /\ Load(d).cust \in Customers
<1> DEFINE live == Live(d.refs, Ids(View.items))
           loaded == [k \in 1..Len(live) |-> ItemDoc(live[k], View.items)]
<1>1. d \in CartDoc /\ View.items \subseteq StoredItem
  BY ViewType
<1>2. live \in Seq(Nat \ {0}) /\ \A k \in 1..Len(live) : live[k] \in Ids(View.items)
  BY <1>1, LiveRefs DEF CartDoc
<1>3. Load(d) = [id |-> d.id, cust |-> d.cust, items |-> loaded]
  BY DEF Load
<1> HIDE DEF live
<1>4. loaded \in Seq(StoredItem)
  <2>1. Len(live) \in Nat
    BY <1>2
  <2>2. \A k \in 1..Len(live) : ItemDoc(live[k], View.items) \in StoredItem
    BY <1>1, <1>2, DocOfId
  <2> QED BY <2>1, <2>2
<1> HIDE DEF loaded
<1>5. loaded \in Seq(Item)
  BY <1>4 DEF StoredItem
<1> QED BY <1>1, <1>3, <1>4, <1>5 DEF CartObject, CartDoc

\* Saving a cart turns its items into their ids, one by one.
LEMMA RefsType ==
    ASSUME NEW cart, cart.items \in Seq(StoredItem)
    PROVE  /\ Refs(cart) \in Seq(Nat \ {0})
           /\ Len(Refs(cart)) = Len(cart.items)
           /\ \A k \in 1..Len(cart.items) : Refs(cart)[k] = cart.items[k].id
  BY DEF Refs, StoredItem, Item

\* Saving a cart leaves cart documents only.
LEMMA SaveDocType ==
    ASSUME NEW cart \in CartObject, cart.id # 0, cart.cust \in Customers,
           cart.items \in Seq(StoredItem), NEW docs \in SUBSET CartDoc
    PROVE  SaveDoc(cart, docs) \subseteq CartDoc
<1>1. [id |-> cart.id, cust |-> cart.cust, refs |-> Refs(cart)] \in CartDoc
  BY RefsType DEF CartDoc, CartObject
<1> QED BY <1>1 DEF SaveDoc, Upsert

\* A write to the collections leaves documents of the right shape, in the
\* history too.
LEMMA WriteType ==
    ASSUME StoreInv, NEW newCarts \in SUBSET CartDoc, NEW newItems \in SUBSET StoredItem,
           Write(newCarts, newItems), nextId' \in Nat \ {0}
    PROVE  StoreInv'
<1> DEFINE old == [carts |-> carts, items |-> items]
           State == [carts : SUBSET CartDoc, items : SUBSET StoredItem]
           l == Append(lagging, old)
<1>1. old \in State
  BY DEF StoreInv
<1>2. l \in Seq(State) /\ l # <<>>
  BY <1>1 DEF StoreInv
<1>3. lagging' = IF Len(l) > MaxLag THEN Tail(l) ELSE l
  BY DEF Write
<1> HIDE DEF l
<1>4. lagging' \in Seq(State)
  BY <1>2, <1>3
<1> QED BY <1>4 DEF StoreInv, Write

\* What a step of w leaves when it does not touch the bounds.
LEMMA WorkerStep ==
    ASSUME TypeInv, StoreInv', NEW w \in Workers, NEW new, StateOK(new),
           worker' = [worker EXCEPT ![w] = new],
           UNCHANGED received, aborted' \in 0..MaxAborts, torn' \subseteq Customers
    PROVE  TypeInv'
<1>1. new \in WorkerState
  BY DEF StateOK
<1>2. worker' \in [Workers -> WorkerState]
  BY <1>1 DEF TypeInv
<1>3. \A v \in Workers : StateOK(worker'[v])
  BY DEF TypeInv
<1> QED BY <1>2, <1>3 DEF TypeInv

-----------------------------------------------------------------------------
(* Type correctness, one step of a handler at a time *)

\* A thread about to take a step serves a request and is in order.
LEMMA BusyStep ==
    ASSUME TypeInv, NEW w \in Workers, NEW step, Does(w, step)
    PROVE  StateOK(worker[w]) /\ worker[w].req # None /\ Head(worker[w].todo) = step
  BY DEF TypeInv, StateOK, Does, Free

\* A thread stands at some place of a script of its request.
LEMMA ScriptStep ==
    ASSUME NEW st, StateOK(st), st.req # None, Head(st.todo) # "create"
    PROVE  \E s \in Scripts(st.req.op) : \E m \in 1..Len(s) :
               /\ s \in AllScripts
               /\ Follows(st, s)
               /\ HandOK(st.hand, st.req.op, s, Len(st.todo))
               /\ Len(st.todo) = Len(s) - m + 1
               /\ s[m] = Head(st.todo)
<1>1. PICK s \in Scripts(st.req.op) :
          s \in AllScripts /\ Follows(st, s) /\ Remaining(st.todo) = st.todo
  BY AtStep
<1>2. IsRest(st.todo, s) /\ st.todo \in Seq(StepNames) /\ st.todo # <<>>
  BY <1>1, AtStep DEF Follows
<1>3. /\ Len(st.todo) \in 1..Len(s) /\ Len(s) - Len(st.todo) + 1 \in 1..Len(s)
      /\ Head(st.todo) = s[Len(s) - Len(st.todo) + 1]
  BY <1>1, <1>2, RestSteps
<1>4. HandOK(st.hand, st.req.op, s, Len(st.todo))
  BY <1>1 DEF Follows
<1>5. Len(st.todo) = Len(s) - (Len(s) - Len(st.todo) + 1) + 1
  BY <1>1, <1>3, ScriptType
<1> QED BY <1>1, <1>3, <1>4, <1>5

\* A look-up of the cart leaves the hand as it is.
LEMMA HandKept ==
    ASSUME NEW s \in AllScripts, NEW m \in 1..Len(s), NEW n, n = Len(s) - m + 1,
           NEW hand, NEW op, s[m] \in {"value", "session"}, HandOK(hand, op, s, n)
    PROVE  HandOK(hand, op, s, n - 1)
<1>1. Len(s) \in Nat
  BY ScriptType
<1>2. s = AbsentScript => n # 6
  BY <1>1, Spelled, ScriptLengths
<1>3. s = UpdateScript => n # 2
  BY <1>1, Spelled, ScriptLengths
<1>4. s = RemoveScript => n # 5
  BY <1>1, Spelled, ScriptLengths
<1> QED BY <1>1, <1>2, <1>3, <1>4 DEF HandOK

\* Only a merge looks up the session's cart.
LEMMA SessionScripts ==
    ASSUME NEW s \in AllScripts, NEW m \in 1..Len(s), s[m] = "session"
    PROVE  s \in {MergeScript, DropSession}
  BY Where

\* CartResource.value() with a cart found, or none: the thread goes on in
\* order.
LEMMA FindType ==
    ASSUME TypeInv, NEW w \in Workers, Find(w)
    PROVE  TypeInv'
<1> DEFINE st == worker[w]
           step == Head(st.todo)
           c == IF Does(w, "value") THEN st.req.cust ELSE st.req.other
           blank == [id |-> 0, cust |-> c, items |-> <<>>]
<1>1. StateOK(st) /\ st.req # None /\ step \in {"value", "session"} /\ step # "create"
  BY BusyStep DEF Find
<1>2. /\ st.req \in Requests /\ st.todo \in Seq(StepNames) /\ st.todo # <<>>
      /\ st.hand \in Seq(Item) /\ st.qty \in Nat
  BY <1>1, AtStep
<1>3. PICK s \in Scripts(st.req.op) : \E m \in 1..Len(s) :
          /\ s \in AllScripts /\ Follows(st, s) /\ HandOK(st.hand, st.req.op, s, Len(st.todo))
          /\ Len(st.todo) = Len(s) - m + 1 /\ s[m] = step
  BY <1>1, ScriptStep
<1>4. c = Target(st.req, step)
  BY <1>1, <1>2 DEF Does, Target
<1>5. /\ UNCHANGED <<carts, items, lagging, nextId, received, aborted, torn>>
      /\ StoreInv'
  BY DEF Find, store, TypeInv, StoreInv
<1>6. torn' \subseteq Customers /\ aborted' \in 0..MaxAborts
  BY <1>5 DEF TypeInv
<1>7. CASE \E d \in CartsOf(c, View.carts) : Step(w, Load(d), st.hand)
  <2>1. PICK d \in CartsOf(c, View.carts) : Step(w, Load(d), st.hand)
    BY <1>7
  <2>2. d \in View.carts
    BY <2>1 DEF CartsOf
  <2>3. /\ Load(d) \in CartObject /\ Load(d).items \in Seq(StoredItem)
        /\ Load(d).id # 0 /\ Load(d).cust \in Customers
    BY <2>2, LoadType DEF TypeInv
  <2>4. HandOK(st.hand, st.req.op, s, Len(st.todo) - 1)
    <3> HIDE DEF st, step
    <3> QED BY <1>1, <1>3, HandKept
  <2> DEFINE new == [st EXCEPT !.todo = Tail(@), !.cart = Load(d), !.hand = st.hand]
  <2>5. new = [st EXCEPT !.todo = Tail(@), !.cart = Load(d), !.hand = st.hand, !.qty = st.qty]
    BY <1>1 DEF StateOK, WorkerState
  <2>6. StateOK(IF new.todo = <<>> THEN Free ELSE new)
    <3> HIDE DEF new
    <3> QED BY <1>1, <1>2, <1>3, <2>3, <2>4, <2>5, StepOK
  <2>7. worker' = [worker EXCEPT ![w] = IF new.todo = <<>> THEN Free ELSE new]
    BY <2>1 DEF Step, Continue
  <2> HIDE DEF new
  <2> QED BY <1>5, <1>6, <2>6, <2>7, WorkerStep
<1>8. CASE Continue(w, [st EXCEPT !.todo = <<"create">> \o @, !.cart = blank])
  <2> DEFINE new == [st EXCEPT !.todo = <<"create">> \o @, !.cart = blank]
             todo == <<"create">> \o st.todo
  <2>1. <<"create">> \in Seq(StepNames) /\ Len(<<"create">>) = 1 /\ <<"create">>[1] = "create"
    BY DEF StepNames
  <2>2. todo \in Seq(StepNames) /\ todo # <<>> /\ Head(todo) = "create" /\ Tail(todo) = st.todo
    <3>1. todo \in Seq(StepNames) /\ Len(todo) = 1 + Len(st.todo)
          /\ \A i \in 1..Len(todo) : todo[i] = IF i <= 1 THEN "create" ELSE st.todo[i - 1]
      BY <1>2, <2>1, ConcatProperties
    <3> HIDE DEF todo
    <3>2. todo # <<>> /\ Head(todo) = "create"
      BY <1>2, <3>1
    <3>3. /\ Tail(todo) \in Seq(StepNames) /\ Len(Tail(todo)) = Len(st.todo)
          /\ \A i \in 1..Len(Tail(todo)) : Tail(todo)[i] = todo[i + 1]
      BY <1>2, <3>1, <3>2, HeadTailProperties
    <3>4. \A i \in 1..Len(st.todo) : Tail(todo)[i] = st.todo[i]
      BY <1>2, <3>1, <3>3
    <3>5. Tail(todo) = st.todo
      BY <1>2, <3>3, <3>4, SeqEqual
    <3> QED BY <3>1, <3>2, <3>5
  <2>3. c \in Customers
    <3>1. step = "session" => st.req.op = "merge"
      <4>1. step = "session" => s \in {MergeScript, DropSession}
        BY <1>3, SessionScripts
      <4>2. st.req.op \in OpNames
        BY <1>2, RequestOps
      <4> QED BY <1>3, <4>1, <4>2, ScriptOps
    <3> QED BY <1>1, <1>2, <1>4, <3>1, RequestOps, CartsAssumption DEF Target
  <2>4. blank \in CartObject /\ blank.items \in Seq(StoredItem)
    BY <2>3 DEF CartObject
  <2> HIDE DEF blank, todo
  <2>5. /\ new \in WorkerState /\ new.todo = todo /\ new.cart = blank
        /\ new.hand = st.hand /\ new.req = st.req
    BY <1>1, <2>2, <2>4 DEF StateOK, WorkerState, todo
  <2>6. Remaining(st.todo) = st.todo /\ Remaining(new.todo) = st.todo
    BY <1>1, <2>2, <2>5 DEF Remaining
  <2>7. Follows(new, s)
    BY <1>1, <1>3, <1>4, <2>2, <2>5, <2>6 DEF Follows, blank
  <2>8. StateOK(new)
    BY <1>1, <1>3, <2>2, <2>4, <2>5, <2>7 DEF StateOK, LoadedSteps
  <2>9. worker' = [worker EXCEPT ![w] = new]
    BY <1>8, <2>2, <2>5 DEF Continue
  <2> HIDE DEF new
  <2> QED BY <1>5, <1>6, <2>8, <2>9, WorkerStep
<1> QED BY <1>7, <1>8 DEF Find

\* CartResource.create(): the new document has a fresh id and the thread holds
\* it.
LEMMA CreateType ==
    ASSUME TypeInv, NEW w \in Workers, Create(w)
    PROVE  TypeInv'
<1> DEFINE st == worker[w]
           new == [st EXCEPT !.todo = Tail(@), !.cart = NoCart, !.hand = st.hand]
<1>1. StateOK(st) /\ st.req # None /\ Head(st.todo) = "create"
  BY BusyStep DEF Create
<1>2. /\ st.req \in Requests /\ st.todo \in Seq(StepNames) /\ st.todo # <<>>
      /\ st.cart \in CartObject /\ st.hand \in Seq(Item) /\ st.qty \in Nat
  BY <1>1, AtStep
<1>3. PICK s \in Scripts(st.req.op) : s \in AllScripts /\ Follows(st, s)
  BY <1>1, AtStep
<1> DEFINE t == Tail(st.todo)
<1>4. /\ t # <<>> /\ IsRest(t, s) /\ HandOK(st.hand, st.req.op, s, Len(t))
      /\ Head(t) \in {"value", "session"}
      /\ st.cart = [id |-> 0, cust |-> Target(st.req, Head(t)), items |-> <<>>]
  BY <1>1, <1>3 DEF Follows, Remaining
<1>5. t \in Seq(StepNames)
  BY <1>2, HeadTailProperties
<1>6. Target(st.req, Head(t)) \in Customers
  <2>1. /\ Len(s) - Len(t) + 1 \in 1..Len(s) /\ Head(t) = s[Len(s) - Len(t) + 1]
    BY <1>3, <1>4, <1>5, RestSteps
  <2>2. Head(t) = "session" => s \in {MergeScript, DropSession}
    BY <1>3, <2>1, SessionScripts
  <2>3. st.req.op \in OpNames
    BY <1>2, RequestOps
  <2>4. Head(t) = "session" => st.req.op = "merge"
    BY <1>3, <2>2, <2>3, ScriptOps
  <2> QED BY <1>2, <2>4, RequestOps, CartsAssumption DEF Target
<1>7. StoreInv'
  <2> DEFINE cart == [st.cart EXCEPT !.id = nextId]
  <2>1. nextId \in Nat \ {0} /\ carts \subseteq CartDoc /\ items \subseteq StoredItem
    BY DEF TypeInv, StoreInv
  <2>2. /\ cart \in CartObject /\ cart.id # 0 /\ cart.cust \in Customers
        /\ cart.items \in Seq(StoredItem)
    <3>1. cart = [id |-> nextId, cust |-> Target(st.req, Head(t)), items |-> <<>>]
      BY <1>4
    <3> HIDE DEF cart
    <3>2. <<>> \in Seq(Item) /\ <<>> \in Seq(StoredItem)
      OBVIOUS
    <3> DEFINE cust == Target(st.req, Head(t))
    <3> HIDE DEF cust
    <3> QED BY <1>6, <2>1, <3>1, <3>2 DEF CartObject, cust
  <2>3. Write(SaveDoc(cart, carts), items) /\ nextId' \in Nat \ {0}
    BY <2>1 DEF Create
  <2> HIDE DEF cart
  <2>4. SaveDoc(cart, carts) \in SUBSET CartDoc
    BY <2>1, <2>2, SaveDocType
  <2> QED BY <2>1, <2>3, <2>4, WriteType DEF TypeInv
<1>8. /\ new \in WorkerState /\ new.todo = t /\ new.cart = NoCart
      /\ new.hand = st.hand /\ new.req = st.req
  BY <1>1, <1>5, FreeOK DEF StateOK, WorkerState, Free
<1>9. StateOK(new)
  <2>1. Remaining(t) = t
    BY <1>4 DEF Remaining
  <2>2. Follows(new, s)
    BY <1>4, <1>8, <2>1 DEF Follows
  <2>3. /\ NoCart.items \in Seq(StoredItem)
        /\ Head(t) \notin LoadedSteps
    BY <1>4 DEF NoCart, LoadedSteps
  <2>4. new.cart.items \in Seq(StoredItem) /\ Head(new.todo) \notin LoadedSteps
        /\ new.todo # <<>> /\ new.req # None
    BY <1>1, <1>4, <1>8, <2>3
  <2> HIDE DEF new
  <2> QED BY <1>3, <1>8, <2>2, <2>4 DEF StateOK
<1>10. /\ worker' = [worker EXCEPT ![w] = new]
       /\ UNCHANGED received /\ torn' \subseteq Customers /\ aborted' \in 0..MaxAborts
  BY <1>4, <1>8 DEF Create, Step, Continue, TypeInv
<1> HIDE DEF new
<1> QED BY <1>7, <1>9, <1>10, WorkerStep

\* A step that only changes its own thread, by StepOK or EnterOK.
LEMMA PrivateStep ==
    ASSUME TypeInv, NEW w \in Workers, NEW new,
           StateOK(IF new.todo = <<>> THEN Free ELSE new), Continue(w, new),
           UNCHANGED <<store, received, aborted>>, torn' \subseteq Customers
    PROVE  TypeInv'
<1>1. StoreInv'
  BY DEF store, TypeInv, StoreInv
<1>2. worker' = [worker EXCEPT ![w] = IF new.todo = <<>> THEN Free ELSE new]
  BY DEF Continue
<1>3. UNCHANGED received /\ aborted' \in 0..MaxAborts
  BY DEF TypeInv
<1> QED BY <1>1, <1>2, <1>3, WorkerStep

\* An exception ends the handler and leaves the collections to their own
\* invariant.
LEMMA FailType ==
    ASSUME TypeInv, NEW w \in Workers, Fail(w), UNCHANGED <<store, received>>,
           aborted' \in 0..MaxAborts, torn' \subseteq Customers
    PROVE  TypeInv'
<1>1. StoreInv'
  BY DEF store, TypeInv, StoreInv
<1>2. worker' = [worker EXCEPT ![w] = Free]
  BY DEF Fail
<1> QED BY <1>1, <1>2, FreeOK, WorkerStep

\* addToCart goes on with the script of an item that is there, or of one that
\* is not.
LEMMA HasItemType ==
    ASSUME TypeInv, NEW w \in Workers, HasItem(w)
    PROVE  TypeInv'
<1> DEFINE st == worker[w]
<1>1. StateOK(st) /\ st.req # None /\ Head(st.todo) = "hasItem" /\ Head(st.todo) # "create"
  BY BusyStep DEF HasItem
<1>2. /\ st.req \in Requests /\ st.hand \in Seq(Item) /\ st.qty \in Nat /\ st.req.op \in OpNames
  BY <1>1, AtStep
<1>3. PICK s \in Scripts(st.req.op) : \E m \in 1..Len(s) :
          /\ s \in AllScripts /\ HandOK(st.hand, st.req.op, s, Len(st.todo))
          /\ Len(st.todo) = Len(s) - m + 1 /\ s[m] = "hasItem"
  BY <1>1, ScriptStep
<1>4. s = AddScript
  BY <1>3, Where
<1>5. st.req.op = "add"
  BY <1>2, <1>3, <1>4, ScriptOps
<1>6. st.hand # <<>>
  BY <1>3, <1>4 DEF HandOK
<1> DEFINE next == IF Wanted(w) # {} THEN PresentScript ELSE AbsentScript
           new == [st EXCEPT !.todo = next]
<1>7. next \in Scripts(st.req.op)
  BY <1>5 DEF Scripts
<1>8. HandOK(st.hand, st.req.op, next, Len(next))
  <2>1. AbsentScript # UpdateScript /\ PresentScript # UpdateScript
        /\ PresentScript # AbsentScript
    BY ScriptLengths
  <2>2. HandOK(st.hand, st.req.op, AbsentScript, Len(AbsentScript))
    BY <1>5, <1>6, <2>1, ScriptLengths DEF HandOK
  <2>3. HandOK(st.hand, st.req.op, PresentScript, Len(PresentScript))
    BY <1>5, <1>6, <2>1, ScriptLengths DEF HandOK
  <2> QED BY <2>2, <2>3
<1> HIDE DEF next
<1>9. new = [st EXCEPT !.todo = next, !.hand = st.hand, !.qty = st.qty]
  BY <1>1 DEF StateOK, WorkerState
<1>10. /\ Continue(w, new) /\ UNCHANGED <<store, received, aborted>>
       /\ torn' \subseteq Customers
  BY DEF HasItem, TypeInv, next
<1> HIDE DEF new
<1>11. StateOK(IF new.todo = <<>> THEN Free ELSE new)
  <2> HIDE DEF st
  <2> QED BY <1>1, <1>2, <1>7, <1>8, <1>9, EnterOK
<1> QED BY <1>10, <1>11, PrivateStep

\* FoundItem returns an item of the cart with the item id that was asked for,
\* the first one.
LEMMA FirstWantedIn ==
    ASSUME NEW w \in Workers, worker[w].cart.items \in Seq(StoredItem), Wanted(w) # {}
    PROVE  /\ FirstWanted(w) \in 1..Len(worker[w].cart.items)
           /\ FirstWanted(w) \in Wanted(w)
           /\ \A j \in Wanted(w) : FirstWanted(w) <= j
           /\ worker[w].cart.items[FirstWanted(w)] \in StoredItem
           /\ worker[w].cart.items[FirstWanted(w)].itemId = worker[w].req.itemId
<1>1. Wanted(w) \in SUBSET Nat /\ Wanted(w) \subseteq 1..Len(worker[w].cart.items)
  BY DEF Wanted
<1>2. \E k \in Wanted(w) : \A j \in Wanted(w) : k <= j
  BY <1>1, LeastNat
<1>3. FirstWanted(w) \in Wanted(w) /\ \A j \in Wanted(w) : FirstWanted(w) <= j
  BY <1>2 DEF FirstWanted
<1> QED BY <1>1, <1>3 DEF Wanted

\* getItem and the found branch of addToCart take the item out of the cart
\* that was read.
LEMMA FindItemType ==
    ASSUME TypeInv, NEW w \in Workers, FindItem(w)
    PROVE  TypeInv'
<1> DEFINE st == worker[w]
<1>1. StateOK(st) /\ st.req # None /\ Head(st.todo) = "foundItem" /\ Head(st.todo) # "create"
  BY BusyStep DEF FindItem
<1>2. /\ st.req \in Requests /\ st.todo \in Seq(StepNames) /\ st.todo # <<>>
      /\ st.cart \in CartObject /\ st.cart.items \in Seq(StoredItem)
      /\ st.hand \in Seq(Item) /\ st.qty \in Nat /\ st.req.op \in OpNames
      /\ st.cart.id # 0 /\ st.cart.cust \in Customers
  BY <1>1, AtStep DEF StateOK, LoadedSteps
<1>3. UNCHANGED <<store, received, aborted>> /\ torn' \subseteq Customers
  BY DEF FindItem, TypeInv
<1>4. CASE Wanted(w) = {}
  <2>1. Fail(w) /\ UNCHANGED <<store, received>> /\ aborted' \in 0..MaxAborts
    BY <1>3, <1>4 DEF FindItem, TypeInv
  <2> QED BY <1>3, <2>1, FailType
<1>5. CASE Wanted(w) # {}
  <2> DEFINE found == st.cart.items[FirstWanted(w)]
             new == [st EXCEPT !.todo = Tail(@), !.cart = st.cart, !.hand = <<found>>]
  <2>1. PICK s \in Scripts(st.req.op) :
            s \in AllScripts /\ Follows(st, s)
    BY <1>1, ScriptStep
  <2>2. found \in StoredItem
    BY <1>2, <1>5, FirstWantedIn
  <2> HIDE DEF found
  <2>3. <<found>> \in Seq(StoredItem) /\ <<found>> \in Seq(Item) /\ <<found>> # <<>>
    BY <2>2 DEF StoredItem
  <2>4. HandOK(<<found>>, st.req.op, s, Len(st.todo) - 1)
    BY <2>3 DEF HandOK
  <2>5. new = [st EXCEPT !.todo = Tail(@), !.cart = st.cart, !.hand = <<found>>, !.qty = st.qty]
    BY <1>1 DEF StateOK, WorkerState
  <2>6. Continue(w, new)
    BY <1>5 DEF FindItem, Step, found
  <2> HIDE DEF new
  <2>7. StateOK(IF new.todo = <<>> THEN Free ELSE new)
    <3> HIDE DEF st
    <3> QED BY <1>1, <1>2, <2>1, <2>3, <2>4, <2>5, StepOK
  <2> QED BY <1>3, <2>6, <2>7, PrivateStep
<1> QED BY <1>4, <1>5

\* The increment goes on with the update, and keeps its item.
LEMMA IncrementType ==
    ASSUME TypeInv, NEW w \in Workers, Increment(w)
    PROVE  TypeInv'
<1> DEFINE st == worker[w]
<1>1. StateOK(st) /\ st.req # None /\ Head(st.todo) = "increment" /\ Head(st.todo) # "create"
  BY BusyStep DEF Increment
<1>2. /\ st.req \in Requests /\ st.hand \in Seq(Item) /\ st.req.op \in OpNames
      /\ st.cart.items \in Seq(StoredItem)
  BY <1>1, AtStep DEF StateOK
<1>3. PICK s \in Scripts(st.req.op) : \E m \in 1..Len(s) :
          /\ s \in AllScripts
          /\ Len(st.todo) = Len(s) - m + 1 /\ s[m] = "increment"
  BY <1>1, ScriptStep
<1>4. s = PresentScript
  BY <1>3, Where
<1>5. st.req.op = "add"
  BY <1>2, <1>3, <1>4, ScriptOps
<1>6. UNCHANGED <<store, received, aborted>> /\ torn' \subseteq Customers
  BY DEF Increment, TypeInv
<1>7. CASE Wanted(w) = {}
  <2>1. Fail(w) /\ UNCHANGED <<store, received>> /\ aborted' \in 0..MaxAborts
    BY <1>6, <1>7 DEF Increment, TypeInv
  <2> QED BY <1>6, <2>1, FailType
<1>8. CASE Wanted(w) # {}
  <2> DEFINE qty == st.cart.items[FirstWanted(w)].qty + 1
             new == [st EXCEPT !.todo = UpdateScript, !.qty = qty]
  <2>1. qty \in Nat
    <3>1. st.cart.items[FirstWanted(w)] \in StoredItem
      BY <1>2, <1>8, FirstWantedIn
    <3> QED BY <3>1 DEF StoredItem, Item
  <2>2. UpdateScript \in Scripts(st.req.op)
           /\ HandOK(st.hand, st.req.op, UpdateScript, Len(UpdateScript))
    BY <1>5, ScriptLengths, Spelled DEF HandOK, Scripts
  <2>3. Continue(w, new)
    BY <1>8 DEF Increment
  <2> HIDE DEF qty
  <2>4. new = [st EXCEPT !.todo = UpdateScript, !.hand = st.hand, !.qty = qty]
    BY <1>1 DEF StateOK, WorkerState
  <2> HIDE DEF new
  <2>5. StateOK(IF new.todo = <<>> THEN Free ELSE new)
    <3> HIDE DEF st
    <3> QED BY <1>1, <1>2, <2>1, <2>2, <2>4, EnterOK
  <2> QED BY <1>6, <2>3, <2>5, PrivateStep
<1> QED BY <1>7, <1>8

\* A step that writes to the database and goes on with its script.
LEMMA WritingStep ==
    ASSUME TypeInv, NEW w \in Workers, NEW new,
           StateOK(IF new.todo = <<>> THEN Free ELSE new), Continue(w, new),
           NEW newCarts \in SUBSET CartDoc, NEW newItems \in SUBSET StoredItem,
           Write(newCarts, newItems), nextId' \in Nat \ {0},
           UNCHANGED <<received, aborted, torn>>
    PROVE  TypeInv'
<1>1. StoreInv'
  BY WriteType DEF TypeInv
<1>2. worker' = [worker EXCEPT ![w] = IF new.todo = <<>> THEN Free ELSE new]
  BY DEF Continue
<1>3. UNCHANGED received /\ aborted' \in 0..MaxAborts /\ torn' \subseteq Customers
  BY DEF TypeInv
<1> QED BY <1>1, <1>2, <1>3, WorkerStep

\* Nothing is left after the last step.
LEMMA LastTail ==
    ASSUME NEW S, NEW t \in Seq(S), Len(t) = 1
    PROVE  Tail(t) = <<>>
<1>1. t # <<>>
  OBVIOUS
<1>2. Tail(t) \in Seq(S) /\ Len(Tail(t)) = 0
  BY <1>1, HeadTailProperties
<1> QED BY <1>2, EmptySeq

\* The collections hold documents.
LEMMA StoreTypes ==
    ASSUME TypeInv
    PROVE  carts \in SUBSET CartDoc /\ items \in SUBSET StoredItem /\ nextId \in Nat \ {0}
  BY DEF TypeInv, StoreInv

\* ItemResource.create(): the hand then holds the stored item.
LEMMA SaveItemType ==
    ASSUME TypeInv, NEW w \in Workers, SaveItem(w)
    PROVE  TypeInv'
<1> DEFINE st == worker[w]
           fresh == st.hand[1].id = 0
           item == [st.hand[1] EXCEPT !.id = IF fresh THEN nextId ELSE @]
           new == [st EXCEPT !.todo = Tail(@), !.cart = st.cart, !.hand = <<item>>]
<1>1. StateOK(st) /\ st.req # None /\ Head(st.todo) = "saveItem" /\ Head(st.todo) # "create"
  BY BusyStep DEF SaveItem
<1>2. /\ st.hand \in Seq(Item) /\ st.qty \in Nat /\ st.req.op \in OpNames
      /\ st.cart \in CartObject /\ st.cart.items \in Seq(StoredItem)
      /\ st.cart.id # 0 /\ st.cart.cust \in Customers
  BY <1>1, AtStep DEF StateOK, LoadedSteps
<1>3. PICK s \in Scripts(st.req.op) : \E m \in 1..Len(s) :
          /\ s \in AllScripts /\ Follows(st, s) /\ HandOK(st.hand, st.req.op, s, Len(st.todo))
          /\ Len(st.todo) = Len(s) - m + 1 /\ s[m] = "saveItem"
  BY <1>1, ScriptStep
<1>4. s = AbsentScript
  BY <1>3, Where
<1>5. st.hand # <<>>
  BY <1>3, <1>4 DEF HandOK
<1>6. st.hand[1] \in Item
  BY <1>2, <1>5
<1>7. item \in StoredItem
  BY <1>6, StoreTypes DEF StoredItem, Item
<1> HIDE DEF item
<1>8. <<item>> \in Seq(Item) /\ <<item>> \in Seq(StoredItem) /\ <<item>> # <<>>
  BY <1>7 DEF StoredItem
<1>9. HandOK(<<item>>, st.req.op, s, Len(st.todo) - 1)
  BY <1>8 DEF HandOK
<1>10. new = [st EXCEPT !.todo = Tail(@), !.cart = st.cart, !.hand = <<item>>, !.qty = st.qty]
  BY <1>1 DEF StateOK, WorkerState
<1>11. /\ Write(carts, Upsert(item, items)) /\ Continue(w, new)
       /\ nextId' = IF fresh THEN nextId + 1 ELSE nextId
       /\ UNCHANGED <<received, aborted, torn>>
  BY DEF SaveItem, Step, item
<1> HIDE DEF new
<1>12. StateOK(IF new.todo = <<>> THEN Free ELSE new)
  <2> HIDE DEF st
  <2> QED BY <1>1, <1>2, <1>3, <1>8, <1>9, <1>10, StepOK
<1>13. Upsert(item, items) \in SUBSET StoredItem /\ nextId' \in Nat \ {0}
  BY <1>7, <1>11, StoreTypes DEF Upsert
<1> QED BY <1>11, <1>12, <1>13, StoreTypes, WritingStep

\* ItemResource.merge() stores the item again with its new quantity.
LEMMA SaveQuantityType ==
    ASSUME TypeInv, NEW w \in Workers, SaveQuantity(w)
    PROVE  TypeInv'
<1> DEFINE st == worker[w]
           item == [st.hand[1] EXCEPT !.qty = st.qty]
           new == [st EXCEPT !.todo = Tail(@), !.cart = st.cart, !.hand = st.hand]
<1>1. StateOK(st) /\ st.req # None /\ Head(st.todo) = "saveQuantity" /\ Head(st.todo) # "create"
  BY BusyStep DEF SaveQuantity
<1>2. /\ st.hand \in Seq(Item) /\ st.qty \in Nat /\ st.req.op \in OpNames
      /\ st.cart \in CartObject /\ st.cart.items \in Seq(StoredItem)
      /\ st.todo \in Seq(StepNames) /\ st.todo # <<>>
  BY <1>1, AtStep DEF StateOK
<1>3. PICK s \in Scripts(st.req.op) : \E m \in 1..Len(s) :
          /\ s \in AllScripts /\ Follows(st, s) /\ HandOK(st.hand, st.req.op, s, Len(st.todo))
          /\ Len(st.todo) = Len(s) - m + 1 /\ s[m] = "saveQuantity"
  BY <1>1, ScriptStep
<1>4. s = UpdateScript /\ Len(st.todo) = 1
  <2>1. PICK m \in 1..Len(s) : Len(st.todo) = Len(s) - m + 1 /\ s[m] = "saveQuantity"
    BY <1>3
  <2>2. s = UpdateScript /\ m = 3 /\ Len(s) = 3
    BY <1>3, <2>1, Where
  <2> QED BY <2>1, <2>2
<1>5. st.hand # <<>> /\ st.hand \in Seq(StoredItem)
  BY <1>3, <1>4 DEF HandOK
<1>6. st.hand[1] \in StoredItem
  BY <1>5
<1>7. item \in StoredItem
  BY <1>2, <1>6 DEF StoredItem, Item
<1>8. new.todo = <<>>
  <2>1. Tail(st.todo) = <<>>
    BY <1>2, <1>4, LastTail
  <2> QED BY <1>1, <2>1 DEF StateOK, WorkerState
<1> HIDE DEF item
<1>9. /\ Write(carts, Upsert(item, items)) /\ Continue(w, new)
      /\ UNCHANGED <<nextId, received, aborted, torn>>
  BY DEF SaveQuantity, Step, item
<1> HIDE DEF new
<1>10. StateOK(IF new.todo = <<>> THEN Free ELSE new)
  BY <1>8, FreeOK
<1>11. Upsert(item, items) \in SUBSET StoredItem /\ nextId' \in Nat \ {0}
  BY <1>7, <1>9, StoreTypes DEF Upsert
<1> QED BY <1>9, <1>10, <1>11, StoreTypes, WritingStep

\* The three saves of a loaded cart.
LEMMA SaveWithType ==
    ASSUME TypeInv, NEW w \in Workers, worker[w].cart.id # 0, worker[w].cart.cust \in Customers,
           NEW newItems \in Seq(StoredItem)
    PROVE  SaveDoc([worker[w].cart EXCEPT !.items = newItems], carts) \in SUBSET CartDoc
<1> DEFINE cart == [worker[w].cart EXCEPT !.items = newItems]
<1>1. worker[w].cart \in CartObject /\ newItems \in Seq(Item)
  BY DEF TypeInv, StateOK, WorkerState, StoredItem
<1>2. /\ cart \in CartObject /\ cart.id # 0 /\ cart.cust \in Customers
      /\ cart.items \in Seq(StoredItem)
  BY <1>1 DEF CartObject
<1> HIDE DEF cart
<1>3. SaveDoc(cart, carts) \in SUBSET CartDoc
  BY <1>2, StoreTypes, SaveDocType
<1> QED BY <1>3 DEF cart

\* CartContentsResource.add() saves the cart with the item appended.
LEMMA AddItemType ==
    ASSUME TypeInv, NEW w \in Workers, AddItem(w)
    PROVE  TypeInv'
<1> DEFINE st == worker[w]
           new == [st EXCEPT !.todo = Tail(@), !.cart = st.cart, !.hand = <<>>]
           added == Append(st.cart.items, st.hand[1])
           newCarts == SaveDoc([st.cart EXCEPT !.items = added], carts)
<1>1. StateOK(st) /\ st.req # None /\ Head(st.todo) = "addItem" /\ Head(st.todo) # "create"
  BY BusyStep DEF AddItem
<1>2. /\ st.cart.items \in Seq(StoredItem)
      /\ st.cart.id # 0 /\ st.cart.cust \in Customers
      /\ st.todo \in Seq(StepNames) /\ st.todo # <<>>
  BY <1>1, AtStep DEF StateOK, LoadedSteps
<1>3. PICK s \in Scripts(st.req.op) : \E m \in 1..Len(s) :
          /\ s \in AllScripts /\ HandOK(st.hand, st.req.op, s, Len(st.todo))
          /\ Len(st.todo) = Len(s) - m + 1 /\ s[m] = "addItem"
  BY <1>1, ScriptStep
<1>4. s = AbsentScript /\ Len(st.todo) = 1
  <2>1. PICK m \in 1..Len(s) : Len(st.todo) = Len(s) - m + 1 /\ s[m] = "addItem"
    BY <1>3
  <2>2. s = AbsentScript /\ m = 7 /\ Len(s) = 7
    BY <1>3, <2>1, Where
  <2> QED BY <2>1, <2>2
<1>5. st.hand # <<>> /\ st.hand \in Seq(StoredItem)
  <2>1. HandOK(st.hand, st.req.op, AbsentScript, 1)
    BY <1>3, <1>4
  <2> QED BY <2>1 DEF HandOK
<1>6. added \in Seq(StoredItem)
  BY <1>2, <1>5
<1>7. newCarts \in SUBSET CartDoc
  <2> HIDE DEF added
  <2> QED BY <1>2, <1>6, SaveWithType
<1>8. new.todo = <<>>
  <2>1. Tail(st.todo) = <<>>
    BY <1>2, <1>4, LastTail
  <2> QED BY <1>1, <2>1 DEF StateOK, WorkerState
<1>9. /\ Write(newCarts, items) /\ Continue(w, new)
      /\ UNCHANGED <<nextId, received, aborted, torn>>
  BY DEF AddItem, SaveWith, Step
<1> HIDE DEF new, newCarts
<1>10. StateOK(IF new.todo = <<>> THEN Free ELSE new) /\ nextId' \in Nat \ {0}
  BY <1>8, <1>9, FreeOK, StoreTypes
<1> QED BY <1>7, <1>9, <1>10, StoreTypes, WritingStep

\* A sequence without its n-th element: its elements keep their order.
LEMMA RemoveAtType ==
    ASSUME NEW S, NEW t \in Seq(S), NEW n \in 1..Len(t)
    PROVE  /\ RemoveAt(t, n) \in Seq(S)
           /\ Len(RemoveAt(t, n)) = Len(t) - 1
           /\ \A k \in 1..Len(t) - 1 : RemoveAt(t, n)[k] = IF k < n THEN t[k] ELSE t[k + 1]
<1> DEFINE a == SubSeq(t, 1, n - 1)
           b == SubSeq(t, n + 1, Len(t))
<1>1. a \in Seq(S) /\ Len(a) = n - 1 /\ \A k \in 1..n - 1 : a[k] = t[k]
  OBVIOUS
<1>2. b \in Seq(S) /\ Len(b) = Len(t) - n /\ \A k \in 1..Len(t) - n : b[k] = t[k + n]
  OBVIOUS
<1>3. RemoveAt(t, n) = a \o b
  BY DEF RemoveAt
<1> HIDE DEF a, b
<1>4. /\ a \o b \in Seq(S) /\ Len(a \o b) = Len(a) + Len(b)
      /\ \A k \in 1..Len(a) + Len(b) : (a \o b)[k] = IF k <= Len(a) THEN a[k] ELSE b[k - Len(a)]
  BY <1>1, <1>2, ConcatProperties
<1>5. ASSUME NEW k \in 1..Len(t) - 1
      PROVE  (a \o b)[k] = IF k < n THEN t[k] ELSE t[k + 1]
  <2>1. k \in 1..Len(a) + Len(b)
    BY <1>1, <1>2
  <2>2. CASE k < n
    BY <1>1, <1>4, <2>1, <2>2
  <2>3. CASE ~(k < n)
    <3>1. (a \o b)[k] = b[k - (n - 1)]
      BY <1>1, <1>4, <2>1, <2>3
    <3>2. k - (n - 1) \in 1..Len(t) - n /\ k - (n - 1) + n = k + 1
      BY <2>3
    <3> QED BY <1>2, <2>3, <3>1, <3>2
  <2> QED BY <2>2, <2>3
<1> QED BY <1>1, <1>2, <1>3, <1>4, <1>5

\* CartContentsResource.delete() saves the cart without the item, or as it is.
LEMMA RemoveItemType ==
    ASSUME TypeInv, NEW w \in Workers, RemoveItem(w)
    PROVE  TypeInv'
<1> DEFINE st == worker[w]
           new == [st EXCEPT !.todo = Tail(@), !.cart = st.cart, !.hand = st.hand]
           kept == IF Wanted(w) = {} THEN st.cart.items
                   ELSE RemoveAt(st.cart.items, FirstWanted(w))
           newCarts == SaveDoc([st.cart EXCEPT !.items = kept], carts)
<1>1. StateOK(st) /\ st.req # None /\ Head(st.todo) = "removeItem" /\ Head(st.todo) # "create"
  BY BusyStep DEF RemoveItem
<1>2. /\ st.cart \in CartObject /\ st.cart.items \in Seq(StoredItem)
      /\ st.cart.id # 0 /\ st.cart.cust \in Customers
      /\ st.hand \in Seq(Item) /\ st.qty \in Nat
  BY <1>1, AtStep DEF StateOK, LoadedSteps
<1>3. PICK s \in Scripts(st.req.op) : \E m \in 1..Len(s) :
          /\ s \in AllScripts /\ Follows(st, s) /\ HandOK(st.hand, st.req.op, s, Len(st.todo))
          /\ Len(st.todo) = Len(s) - m + 1 /\ s[m] = "removeItem"
  BY <1>1, ScriptStep
<1>4. s = RemoveScript /\ Len(st.todo) = 2
  <2>1. PICK m \in 1..Len(s) : Len(st.todo) = Len(s) - m + 1 /\ s[m] = "removeItem"
    BY <1>3
  <2>2. s = RemoveScript /\ m = 5 /\ Len(s) = 6
    BY <1>3, <2>1, Where
  <2> QED BY <2>1, <2>2
<1>5. HandOK(st.hand, st.req.op, s, Len(st.todo) - 1)
  <2>1. HandOK(st.hand, st.req.op, RemoveScript, 2)
    BY <1>3, <1>4
  <2>2. HandOK(st.hand, st.req.op, RemoveScript, 1)
    BY <2>1, ScriptsDiffer DEF HandOK
  <2> QED BY <1>4, <2>2
<1>6. kept \in Seq(StoredItem)
  BY <1>2, FirstWantedIn, RemoveAtType
<1>7. newCarts \in SUBSET CartDoc
  <2> HIDE DEF kept
  <2> QED BY <1>2, <1>6, SaveWithType
<1>8. new = [st EXCEPT !.todo = Tail(@), !.cart = st.cart, !.hand = st.hand, !.qty = st.qty]
  BY <1>1 DEF StateOK, WorkerState
<1>9. /\ Write(newCarts, items) /\ Continue(w, new)
      /\ UNCHANGED <<nextId, received, aborted, torn>>
  BY DEF RemoveItem, SaveWith, Step
<1> HIDE DEF new, newCarts
<1>10. StateOK(IF new.todo = <<>> THEN Free ELSE new) /\ nextId' \in Nat \ {0}
  <2>1. nextId' \in Nat \ {0}
    BY <1>9, StoreTypes
  <2> HIDE DEF st
  <2> QED BY <1>1, <1>2, <1>3, <1>5, <1>8, <2>1, StepOK
<1> QED BY <1>7, <1>9, <1>10, StoreTypes, WritingStep

\* The steps that only delete a document: destroyItem and deleteCart.
LEMMA LastStepOK ==
    ASSUME NEW st, StateOK(st), st.req # None, Head(st.todo) \in {"destroyItem", "deleteCart"},
           NEW new, new.todo = Tail(st.todo)
    PROVE  StateOK(IF new.todo = <<>> THEN Free ELSE new)
<1>1. PICK s \in Scripts(st.req.op) : \E m \in 1..Len(s) :
          /\ s \in AllScripts /\ Len(st.todo) = Len(s) - m + 1 /\ s[m] = Head(st.todo)
  BY ScriptStep
<1>2. PICK m \in 1..Len(s) : Len(st.todo) = Len(s) - m + 1 /\ s[m] = Head(st.todo)
  BY <1>1
<1>3. m = Len(s) /\ Len(s) \in {2, 6}
  BY <1>1, <1>2, Where
<1>4. Len(st.todo) = 1 /\ st.todo \in Seq(StepNames)
  BY <1>2, <1>3, AtStep
<1>5. new.todo = <<>>
  BY <1>4, LastTail
<1> QED BY <1>5, FreeOK

\* ItemResource.destroy() deletes the item document and ends the handler.
LEMMA DestroyItemType ==
    ASSUME TypeInv, NEW w \in Workers, DestroyItem(w)
    PROVE  TypeInv'
<1> DEFINE st == worker[w]
           new == [st EXCEPT !.todo = Tail(@), !.cart = st.cart, !.hand = st.hand]
           left == {i \in items : i.id # st.hand[1].id}
<1>1. StateOK(st) /\ st.req # None /\ Head(st.todo) = "destroyItem"
  BY BusyStep DEF DestroyItem
<1>2. new.todo = Tail(st.todo)
  BY <1>1 DEF StateOK, WorkerState
<1>3. /\ Write(carts, left) /\ Continue(w, new)
      /\ UNCHANGED <<nextId, received, aborted, torn>>
  BY DEF DestroyItem, Step
<1> HIDE DEF new
<1>4. StateOK(IF new.todo = <<>> THEN Free ELSE new)
  BY <1>1, <1>2, LastStepOK
<1>5. left \in SUBSET StoredItem /\ nextId' \in Nat \ {0}
  BY <1>3, StoreTypes
<1> HIDE DEF left
<1> QED BY <1>3, <1>4, <1>5, StoreTypes, WritingStep

\* CartResource.destroy() deletes the cart document and ends the handler.
LEMMA DeleteCartType ==
    ASSUME TypeInv, NEW w \in Workers, DeleteCart(w)
    PROVE  TypeInv'
<1> DEFINE st == worker[w]
           new == [st EXCEPT !.todo = Tail(@), !.cart = st.cart, !.hand = st.hand]
           left == {d \in carts : d.id # st.cart.id}
<1>1. StateOK(st) /\ st.req # None /\ Head(st.todo) = "deleteCart"
  BY BusyStep DEF DeleteCart
<1>2. new.todo = Tail(st.todo)
  BY <1>1 DEF StateOK, WorkerState
<1>3. /\ Write(left, items) /\ Continue(w, new)
      /\ UNCHANGED <<nextId, received, aborted, torn>>
  BY DEF DeleteCart, Step
<1> HIDE DEF new
<1>4. StateOK(IF new.todo = <<>> THEN Free ELSE new)
  BY <1>1, <1>2, LastStepOK
<1>5. left \in SUBSET CartDoc /\ nextId' \in Nat \ {0}
  BY <1>3, StoreTypes
<1> HIDE DEF left
<1> QED BY <1>3, <1>4, <1>5, StoreTypes, WritingStep

\* A merge with items left goes on with the next one, and otherwise drops the
\* session's cart.
LEMMA MergeRestOK ==
    ASSUME NEW hand \in Seq(StoredItem)
    PROVE  /\ MergeRest(hand) \in {MergeItemScript, DropSession}
           /\ MergeRest(hand) \in Scripts("merge")
           /\ HandOK(hand, "merge", MergeRest(hand), Len(MergeRest(hand)))
<1>1. MergeRest(hand) = IF hand = <<>> THEN DropSession ELSE MergeItemScript
  BY DEF MergeRest, MergeItemScript
<1> QED BY <1>1, ScriptsDiffer DEF Scripts, HandOK

\* CartResource.merge() takes the items of the session's cart one by one.
LEMMA MergeItemsType ==
    ASSUME TypeInv, NEW w \in Workers, MergeItems(w)
    PROVE  TypeInv'
<1> DEFINE st == worker[w]
           taken == st.cart.items
           new == [st EXCEPT !.todo = MergeRest(taken), !.hand = taken]
<1>1. StateOK(st) /\ st.req # None /\ Head(st.todo) = "mergeItems" /\ Head(st.todo) # "create"
  BY BusyStep DEF MergeItems
<1>2. /\ st.req \in Requests /\ st.req.op \in OpNames /\ st.qty \in Nat
      /\ taken \in Seq(StoredItem) /\ taken \in Seq(Item)
  BY <1>1, AtStep, StoredSeq DEF StateOK
<1>3. PICK s \in Scripts(st.req.op) : \E m \in 1..Len(s) : s \in AllScripts /\ s[m] = "mergeItems"
  BY <1>1, ScriptStep
<1>4. s = MergeScript
  BY <1>3, Where
<1>5. st.req.op = "merge"
  BY <1>2, <1>3, <1>4, ScriptOps
<1>6. new = [st EXCEPT !.todo = MergeRest(taken), !.hand = taken, !.qty = st.qty]
  BY <1>1 DEF StateOK, WorkerState
<1>7. Continue(w, new) /\ UNCHANGED <<store, received, aborted>> /\ torn' \subseteq Customers
  <2>1. Named(st.req) \subseteq Customers
    BY <1>2, <1>5, RequestOps, CartsAssumption DEF Named
  <2>2. torn \subseteq Customers
    BY DEF TypeInv
  <2> QED BY <2>1, <2>2 DEF MergeItems
<1> HIDE DEF taken, new
<1>8. StateOK(IF new.todo = <<>> THEN Free ELSE new)
  <2>1. /\ MergeRest(taken) \in Scripts(st.req.op)
        /\ HandOK(taken, st.req.op, MergeRest(taken), Len(MergeRest(taken)))
    BY <1>2, <1>5, MergeRestOK
  <2> HIDE DEF st
  <2> QED BY <1>1, <1>2, <1>6, <2>1, EnterOK
<1> QED BY <1>7, <1>8, PrivateStep

\* An item of the session's cart is added to the customer's.
LEMMA MergeItemType ==
    ASSUME TypeInv, NEW w \in Workers, MergeItem(w)
    PROVE  TypeInv'
<1> DEFINE st == worker[w]
           left == Tail(st.hand)
           new == [st EXCEPT !.todo = MergeRest(left), !.hand = left]
           added == Append(st.cart.items, Head(st.hand))
           newCarts == SaveDoc([st.cart EXCEPT !.items = added], carts)
<1>1. StateOK(st) /\ st.req # None /\ Head(st.todo) = "mergeItem" /\ Head(st.todo) # "create"
  BY BusyStep DEF MergeItem
<1>2. /\ st.req \in Requests /\ st.req.op \in OpNames /\ st.qty \in Nat
      /\ st.cart.items \in Seq(StoredItem)
      /\ st.cart.id # 0 /\ st.cart.cust \in Customers
  BY <1>1, AtStep DEF StateOK, LoadedSteps
<1>3. PICK s \in Scripts(st.req.op) : \E m \in 1..Len(s) :
          /\ s \in AllScripts /\ s[m] = "mergeItem"
          /\ HandOK(st.hand, st.req.op, s, Len(st.todo))
  BY <1>1, ScriptStep
<1>4. s = MergeItemScript
  BY <1>3, Where
<1>5. st.req.op = "merge"
  BY <1>2, <1>3, <1>4, ScriptOps
<1>6. st.hand # <<>> /\ st.hand \in Seq(StoredItem)
  BY <1>3, <1>4, <1>5 DEF HandOK
<1>7. /\ left \in Seq(StoredItem) /\ left \in Seq(Item) /\ Head(st.hand) \in StoredItem
      /\ added \in Seq(StoredItem)
  BY <1>2, <1>6, HeadTailProperties DEF StoredItem
<1>8. newCarts \in SUBSET CartDoc
  <2> HIDE DEF added
  <2> QED BY <1>2, <1>7, SaveWithType
<1>9. new = [st EXCEPT !.todo = MergeRest(left), !.hand = left, !.qty = st.qty]
  BY <1>1 DEF StateOK, WorkerState
<1>10. /\ Write(newCarts, items) /\ Continue(w, new)
       /\ UNCHANGED <<nextId, received, aborted, torn>>
  BY DEF MergeItem, SaveWith
<1> HIDE DEF left, new, newCarts
<1>11. StateOK(IF new.todo = <<>> THEN Free ELSE new) /\ nextId' \in Nat \ {0}
  <2>1. /\ MergeRest(left) \in Scripts(st.req.op)
        /\ HandOK(left, st.req.op, MergeRest(left), Len(MergeRest(left)))
    BY <1>5, <1>7, MergeRestOK
  <2>2. nextId' \in Nat \ {0}
    BY <1>10, StoreTypes
  <2> HIDE DEF st
  <2> QED BY <1>1, <1>2, <1>7, <1>9, <2>1, <2>2, EnterOK
<1> QED BY <1>8, <1>10, <1>11, StoreTypes, WritingStep

\* A request starts its handler at the first step.
LEMMA ReceiveType ==
    ASSUME TypeInv, NEW w \in Workers, NEW req \in Requests, Receive(w, req)
    PROVE  TypeInv'
<1> DEFINE hand == IF req.op = "add" THEN <<[id |-> 0, itemId |-> req.itemId, qty |-> 1]>>
                                     ELSE <<>>
           s == Script(req.op)
           new == [req |-> req, todo |-> s, cart |-> NoCart, qty |-> req.qty, hand |-> hand]
<1>1. /\ req.op \in OpNames /\ req.qty \in Nat /\ req # None
      /\ req.op = "add" => req.itemId \in Items
  BY RequestOps, NoneIsNoRequest
<1>2. hand \in Seq(Item) /\ (req.op = "add" => hand # <<>>) /\ (req.op # "add" => hand = <<>>)
  <2>1. CASE req.op = "add"
    <3>1. [id |-> 0, itemId |-> req.itemId, qty |-> 1] \in Item
      BY <1>1, <2>1 DEF Item
    <3> QED BY <2>1, <3>1
  <2>2. CASE req.op # "add"
    BY <2>2
  <2> QED BY <2>1, <2>2
<1> HIDE DEF hand
<1>3. s \in Scripts(req.op)
  BY <1>1 DEF Scripts, Script, OpNames
<1>4. s \in AllScripts /\ s \in Seq(StepNames) /\ s # <<>>
  BY <1>1, <1>3, ScriptsAll, ScriptType
<1>5. HandOK(hand, req.op, s, Len(s))
  <2>1. CASE req.op = "add"
    <3>1. s = AddScript
      BY <2>1 DEF Script
    <3>2. AddScript # AbsentScript /\ AddScript # UpdateScript
      BY ScriptLengths
    <3> QED BY <1>2, <2>1, <3>1, <3>2 DEF HandOK
  <2>2. CASE req.op # "add"
    <3>1. hand \in Seq(StoredItem)
      BY <1>2, <2>2
    <3>2. s \notin {AddScript, AbsentScript, MergeItemScript}
      <4>1. s \in {GetScript, GetItemScript, RemoveScript, UpdateScript, MergeScript, DeleteScript}
        BY <1>1, <2>2 DEF Script, OpNames
      <4>2. AddScript \notin {GetScript, RemoveScript, UpdateScript}
        BY ScriptLengths
      <4>3. AddScript \notin {GetItemScript, MergeScript, DeleteScript}
        BY Spelled
      <4>4. AbsentScript \notin {GetScript, GetItemScript, RemoveScript, UpdateScript, MergeScript,
                                 DeleteScript}
        BY ScriptLengths
      <4>5. MergeItemScript \notin {GetScript, GetItemScript, RemoveScript, MergeScript,
                                    DeleteScript}
        BY ScriptLengths
      <4>6. MergeItemScript # UpdateScript
        BY Spelled
      <4> QED BY <4>1, <4>2, <4>3, <4>4, <4>5, <4>6
    <3>3. ~(s = UpdateScript /\ Len(s) = 1)
      BY ScriptLengths
    <3>4. ~(s = RemoveScript /\ Len(s) <= 4)
      <4> SUFFICES ASSUME s = RemoveScript PROVE ~(Len(s) <= 4)
        OBVIOUS
      <4>1. Len(s) = 6
        BY ScriptLengths
      <4> QED BY <4>1
    <3> HIDE DEF s
    <3> QED BY <2>2, <3>1, <3>2, <3>3, <3>4 DEF HandOK
  <2> QED BY <2>1, <2>2
<1> HIDE DEF s
<1>6. IsRest(s, s)
  BY <1>4 DEF IsRest
<1>7. Head(s) \in {"value", "session"}
  BY Spelled, <1>4 DEF AllScripts
<1>8. NoCart \in CartObject /\ NoCart.items \in Seq(StoredItem)
  BY DEF NoCart, CartObject
<1>9. Remaining(s) = s
  BY <1>7 DEF Remaining
<1>10. new \in WorkerState
  BY <1>1, <1>2, <1>4, <1>8 DEF WorkerState
<1>11. Follows(new, s)
  BY <1>4, <1>5, <1>6, <1>7, <1>9 DEF Follows
<1>12. StateOK(new)
  BY <1>1, <1>3, <1>4, <1>7, <1>8, <1>10, <1>11 DEF StateOK, LoadedSteps
<1>13. worker' = [worker EXCEPT ![w] = new] /\ UNCHANGED <<store, aborted, torn>>
       /\ received' = received + 1 /\ received < MaxRequests
  BY DEF Receive, hand, s
<1> HIDE DEF new
<1>14. worker' \in [Workers -> WorkerState] /\ \A v \in Workers : StateOK(worker'[v])
  BY <1>10, <1>12, <1>13 DEF TypeInv
<1>15. received' \in 0..MaxRequests
  BY <1>13, CartsAssumption DEF TypeInv
<1>16. StoreInv'
  BY <1>13 DEF store, TypeInv, StoreInv
<1> QED BY <1>13, <1>14, <1>15, <1>16 DEF TypeInv

\* The service gives up a handler between two steps.
LEMMA AbortType ==
    ASSUME TypeInv, NEW w \in Workers, Abort(w)
    PROVE  TypeInv'
<1>1. \A d \in carts : d.cust \in Customers
  BY StoreTypes DEF CartDoc
<1>2. torn' \subseteq Customers
  BY <1>1 DEF Abort, TypeInv
<1>3. aborted' \in 0..MaxAborts
  BY CartsAssumption DEF Abort, TypeInv
<1> QED BY <1>2, <1>3, FailType DEF Abort

\* A secondary catches up with the next write.
LEMMA CatchUpType ==
    ASSUME TypeInv, CatchUp
    PROVE  TypeInv'
<1> DEFINE State == [carts : SUBSET CartDoc, items : SUBSET StoredItem]
<1>1. lagging \in Seq(State) /\ lagging # <<>> /\ lagging' = Tail(lagging)
  BY DEF CatchUp, TypeInv, StoreInv
<1>2. lagging' \in Seq(State)
  <2> HIDE DEF State
  <2> QED BY <1>1, HeadTailProperties
<1>3. StoreInv'
  BY <1>2 DEF CatchUp, TypeInv, StoreInv
<1> QED BY <1>3 DEF CatchUp, TypeInv

\* Nothing happens.
LEMMA StutterType ==
    ASSUME TypeInv, UNCHANGED vars
    PROVE  TypeInv'
<1>1. StoreInv'
  BY DEF vars, TypeInv, StoreInv
<1> QED BY <1>1 DEF vars, TypeInv

\* The service starts empty, with every thread free.
LEMMA InitType ==
    ASSUME Init
    PROVE  TypeInv
<1>1. StoreInv
  BY DEF Init, StoreInv
<1>2. \A w \in Workers : StateOK(worker[w]) /\ worker[w] \in WorkerState
  BY FreeOK DEF Init, StateOK
<1>3. worker \in [Workers -> WorkerState]
  BY <1>2 DEF Init
<1> QED BY <1>1, <1>2, <1>3, CartsAssumption DEF Init, TypeInv

\* Whatever the steps of a handler are called, it is one of these.
LEMMA TypeStep ==
    ASSUME TypeInv, [Next]_vars
    PROVE  TypeInv'
<1>1. ASSUME NEW w \in Workers, Handle(w) PROVE TypeInv'
  BY <1>1, FindType, CreateType, HasItemType, FindItemType, IncrementType, SaveItemType,
     SaveQuantityType, AddItemType, RemoveItemType, DestroyItemType, DeleteCartType,
     MergeItemsType, MergeItemType DEF Handle
<1>2. ASSUME NEW w \in Workers, NEW req \in Requests, Receive(w, req) PROVE TypeInv'
  BY <1>2, ReceiveType
<1>3. ASSUME NEW w \in Workers, Abort(w) PROVE TypeInv'
  BY <1>3, AbortType
<1>4. CASE CatchUp
  BY <1>4, CatchUpType
<1>5. CASE Quiesce \/ UNCHANGED vars
  BY <1>5, StutterType DEF Quiesce
<1> QED BY <1>1, <1>2, <1>3, <1>4, <1>5 DEF Next

\* A sequence over a set is one over a larger set.
LEMMA SeqOfSubset ==
    ASSUME NEW S, NEW T, S \subseteq T, NEW q \in Seq(S)
    PROVE  q \in Seq(T)
  OBVIOUS

\* Threads and collections in order are of the declared types.
LEMMA TypeInvOK ==
    ASSUME TypeInv
    PROVE  TypeOK
<1>1. items \subseteq Item
  BY StoreTypes DEF StoredItem
<1>2. lagging \in Seq([carts : SUBSET CartDoc, items : SUBSET Item])
  <2> DEFINE S == [carts : SUBSET CartDoc, items : SUBSET StoredItem]
             T == [carts : SUBSET CartDoc, items : SUBSET Item]
  <2>1. S \subseteq T
    BY DEF StoredItem
  <2>2. lagging \in Seq(S)
    BY DEF TypeInv, StoreInv
  <2> HIDE DEF S, T
  <2>3. lagging \in Seq(T)
    BY <2>1, <2>2, SeqOfSubset
  <2> QED BY <2>3 DEF T
<1>3. \A w \in Workers : Busy(w) <=> worker[w].todo # <<>>
  BY DEF TypeInv, StateOK, Busy, Free
<1> QED BY <1>1, <1>2, <1>3 DEF TypeInv, StoreInv, TypeOK

\* Every variable keeps its type, for any number of threads, customers and items.
THEOREM TypeCorrect == Spec => []TypeOK
<1>1. Init => TypeInv
  BY InitType
<1>2. TypeInv /\ [Next]_vars => TypeInv'
  BY TypeStep
<1>3. TypeInv => TypeOK
  BY TypeInvOK
<1> QED BY <1>1, <1>2, <1>3, PTL DEF Spec

-----------------------------------------------------------------------------
(* The carts one customer can have *)

\* The states of the primary that can still be read, the current one last.
States == Append(lagging, [carts |-> carts, items |-> items])

Docs == UNION {States[k].carts : k \in 1..Len(States)}

\* What a thread may still insert as a cart of its customer: the cart it holds,
\* or a new one.
Token(st, w) == IF st.cart.id = 0 THEN <<"new", w>> ELSE <<"id", st.cart.id>>

Holders(c) == {w \in Workers : worker[w].cart.cust = c}

\* The carts of c that can be read or still be inserted.
Tokens(c) == {<<"id", d.id>> : d \in CartsOf(c, Docs)} \cup {Token(worker[w], w) : w \in Holders(c)}

\* Each write adds at most one document, and the replica is at most MaxLag behind.
HistoryInv ==
    /\ Len(lagging) <= MaxLag
    /\ \A k \in 1..Len(lagging) : \E doc : States[k + 1].carts \subseteq States[k].carts \cup {doc}

BoundInv ==
    /\ TypeInv
    /\ HistoryInv
    /\ \A d, e \in carts : d.id = e.id => d = e
    /\ \A c \in Customers :
           /\ IsFiniteSet(Tokens(c))
           /\ Cardinality(Tokens(c)) <= Cardinality(Workers) + MaxLag

\* The states a read can see are the lagging ones, the oldest first, and the
\* present one.
LEMMA StatesFacts ==
    ASSUME StoreInv
    PROVE  /\ lagging \in Seq([carts : SUBSET CartDoc, items : SUBSET StoredItem])
           /\ Len(States) = Len(lagging) + 1
           /\ \A k \in 1..Len(lagging) : States[k] = lagging[k]
           /\ States[Len(lagging) + 1] = [carts |-> carts, items |-> items]
           /\ View = States[1]
<1>1. lagging \in Seq([carts : SUBSET CartDoc, items : SUBSET StoredItem])
  BY DEF StoreInv
<1>2. /\ Len(States) = Len(lagging) + 1
      /\ \A k \in 1..Len(lagging) : States[k] = lagging[k]
      /\ States[Len(lagging) + 1] = [carts |-> carts, items |-> items]
  BY <1>1 DEF States
<1>3. View = States[1]
  <2>1. CASE lagging = <<>>
    BY <1>2, <2>1 DEF View
  <2>2. CASE lagging # <<>>
    BY <1>1, <1>2, <2>2 DEF View
  <2> QED BY <2>1, <2>2
<1> QED BY <1>1, <1>2, <1>3

\* The cart documents that exist or can still be read.
LEMMA DocsFacts ==
    ASSUME StoreInv
    PROVE  /\ \A d : d \in Docs <=> d \in carts \/ \E k \in 1..Len(lagging) : d \in lagging[k].carts
           /\ carts \subseteq Docs
           /\ View.carts \subseteq Docs
           /\ Docs \subseteq CartDoc
<1>1. \A k : k \in 1..Len(States) <=> k \in 1..Len(lagging) \/ k = Len(lagging) + 1
  BY StatesFacts
<1>2. \A d : d \in Docs <=> d \in carts \/ \E k \in 1..Len(lagging) : d \in lagging[k].carts
  BY <1>1, StatesFacts DEF Docs
<1>3. View.carts \subseteq Docs
  <2>1. 1 \in 1..Len(States)
    BY StatesFacts
  <2> QED BY <2>1, StatesFacts DEF Docs
<1>4. ASSUME NEW k \in 1..Len(lagging) PROVE lagging[k].carts \subseteq CartDoc
  <2> DEFINE State == [carts : SUBSET CartDoc, items : SUBSET StoredItem]
  <2>1. lagging \in Seq(State)
    BY StatesFacts
  <2>2. lagging[k] \in State
    <3> HIDE DEF State
    <3> QED BY <2>1, ElementOfSeq
  <2> QED BY <2>2
<1>5. carts \subseteq CartDoc
  BY DEF StoreInv
<1> QED BY <1>2, <1>3, <1>4, <1>5

\* A write adds to what can be read at most the one document it writes.
LEMMA WriteHistory ==
    ASSUME StoreInv, HistoryInv, NEW newCarts, NEW newItems, Write(newCarts, newItems),
           NEW doc, newCarts \subseteq carts \cup {doc}
    PROVE  /\ HistoryInv'
           /\ \A d \in Docs' : d \in Docs \/ d \in newCarts
<1> DEFINE State == [carts : SUBSET CartDoc, items : SUBSET StoredItem]
           old == [carts |-> carts, items |-> items]
           now == [carts |-> newCarts, items |-> newItems]
<1>1. /\ States \in Seq(State) /\ Len(States) = Len(lagging) + 1
      /\ Len(lagging) \in Nat /\ Len(lagging) <= MaxLag /\ MaxLag \in Nat
  <2>1. old \in State
    BY DEF StoreInv
  <2> QED BY <2>1, CartsAssumption, StatesFacts DEF StoreInv, States, HistoryInv
<1>2. lagging' = IF Len(States) > MaxLag THEN Tail(States) ELSE States
  BY DEF Write, States
<1>3. States' = Append(lagging', now)
  BY DEF States, Write
<1>4. \A k \in 1..Len(lagging) : \E x : States[k + 1].carts \subseteq States[k].carts \cup {x}
  BY DEF HistoryInv
<1>5. States[Len(States)].carts = carts
  BY <1>1, StatesFacts
<1> HIDE DEF State, now
<1>6. CASE lagging' = States
  <2>1. Len(lagging') <= MaxLag
    BY <1>1, <1>2, <1>6
  <2>2. /\ \A k \in 1..Len(States) : States'[k] = States[k]
        /\ States'[Len(States) + 1] = now /\ Len(States') = Len(States) + 1
    BY <1>1, <1>3, <1>6
  <2>3. ASSUME NEW k \in 1..Len(States)
        PROVE  \E x : States'[k + 1].carts \subseteq States'[k].carts \cup {x}
    <3>1. CASE k = Len(States)
      <4>1. States'[k].carts = carts /\ States'[k + 1].carts = newCarts
        BY <1>1, <1>5, <2>2, <3>1 DEF now
      <4> QED BY <4>1
    <3>2. CASE k # Len(States)
      <4>1. k \in 1..Len(lagging) /\ k + 1 \in 1..Len(States)
        BY <1>1, <3>2
      <4> QED BY <1>4, <2>2, <4>1
    <3> QED BY <3>1, <3>2
  <2>4. ASSUME NEW d \in Docs' PROVE d \in Docs \/ d \in newCarts
    <3>1. PICK k \in 1..Len(States') : d \in States'[k].carts
      BY DEF Docs
    <3>2. k \in 1..Len(States) \/ k = Len(States) + 1
      BY <1>1, <2>2, <3>1
    <3> QED BY <2>2, <3>1, <3>2 DEF Docs, now
  <2> QED BY <1>6, <2>1, <2>3, <2>4 DEF HistoryInv
<1>7. CASE lagging' = Tail(States) /\ Len(States) > MaxLag
  <2>1. /\ lagging' \in Seq(State) /\ Len(lagging') = Len(lagging)
        /\ \A k \in 1..Len(lagging) : lagging'[k] = States[k + 1]
    <3>1. States # <<>>
      BY <1>1
    <3> QED BY <1>1, <1>7, <3>1, HeadTailProperties
  <2>2. /\ \A k \in 1..Len(lagging) : States'[k] = States[k + 1]
        /\ States'[Len(lagging) + 1] = now /\ Len(States') = Len(lagging) + 1
    BY <1>1, <1>3, <2>1
  <2>3. ASSUME NEW k \in 1..Len(lagging)
        PROVE  \E x : States'[k + 1].carts \subseteq States'[k].carts \cup {x}
    <3>1. CASE k = Len(lagging)
      <4>1. States'[k].carts = carts /\ States'[k + 1].carts = newCarts
        BY <1>1, <1>5, <2>2, <3>1 DEF now
      <4> QED BY <4>1
    <3>2. CASE k # Len(lagging)
      <4>1. k + 1 \in 1..Len(lagging)
        BY <1>1, <3>2
      <4> QED BY <1>4, <2>2, <4>1
    <3> QED BY <3>1, <3>2
  <2>4. ASSUME NEW d \in Docs' PROVE d \in Docs \/ d \in newCarts
    <3>1. PICK k \in 1..Len(States') : d \in States'[k].carts
      BY DEF Docs
    <3>2. k \in 1..Len(lagging) \/ k = Len(lagging) + 1
      BY <1>1, <2>2, <3>1
    <3>3. \A j \in 1..Len(lagging) : j + 1 \in 1..Len(States)
      BY <1>1
    <3> QED BY <2>2, <3>1, <3>2, <3>3 DEF Docs, now
  <2> QED BY <1>1, <2>1, <2>3, <2>4 DEF HistoryInv
<1> QED BY <1>2, <1>6, <1>7

\* The image of a finite set has no more elements than the set.
LEMMA ImageSize ==
    ASSUME NEW S, IsFiniteSet(S), NEW T, NEW f, \A t \in T : \E s \in S : t = f[s]
    PROVE  IsFiniteSet(T) /\ Cardinality(T) <= Cardinality(S)
           /\ Cardinality(T) \in Nat /\ Cardinality(S) \in Nat
<1> DEFINE R == {s \in S : f[s] \in T}
           g == [s \in R |-> f[s]]
<1>1. IsFiniteSet(R) /\ Cardinality(R) <= Cardinality(S)
  BY FS_Subset
<1>2. g \in Surjection(R, T)
  BY DEF Surjection
<1>3. IsFiniteSet(T) /\ Cardinality(T) <= Cardinality(R)
  BY <1>1, <1>2, FS_Surjection
<1> QED BY <1>1, <1>3, FS_CardinalityType

\* A union has at most as many elements as its parts together.
LEMMA UnionSize ==
    ASSUME NEW S, NEW T, IsFiniteSet(S), IsFiniteSet(T)
    PROVE  /\ IsFiniteSet(S \cup T)
           /\ Cardinality(S \cup T) <= Cardinality(S) + Cardinality(T)
<1>1. IsFiniteSet(S \cap T)
  BY FS_Subset, S \cap T \in SUBSET S
<1>2. Cardinality(S \cap T) \in Nat /\ Cardinality(S) \in Nat /\ Cardinality(T) \in Nat
  BY <1>1, FS_CardinalityType
<1>3. IsFiniteSet(S \cup T)
      /\ Cardinality(S \cup T) = Cardinality(S) + Cardinality(T) - Cardinality(S \cap T)
  BY FS_Union
<1> QED BY <1>2, <1>3

\* A customer of whom the replica shows no cart can be given one by each thread
\* and has been given at most one by each write the replica has still to show.
LEMMA UnseenBound ==
    ASSUME StoreInv, HistoryInv, NEW c, CartsOf(c, View.carts) = {}
    PROVE  /\ IsFiniteSet(Tokens(c))
           /\ Cardinality(Tokens(c)) <= Cardinality(Workers) + MaxLag
<1> DEFINE n == Len(lagging)
           added == [k \in 1..n |-> CHOOSE doc :
                        States[k + 1].carts \subseteq States[k].carts \cup {doc}]
           ids == [k \in 1..n |-> <<"id", added[k].id>>]
           tokens == [w \in Workers |-> Token(worker[w], w)]
           A == {<<"id", d.id>> : d \in CartsOf(c, Docs)}
           B == {Token(worker[w], w) : w \in Holders(c)}
<1>1. n \in Nat /\ n <= MaxLag /\ MaxLag \in Nat
  BY CartsAssumption, StatesFacts DEF HistoryInv
<1>2. \A k \in 1..n : States[k + 1].carts \subseteq States[k].carts \cup {added[k]}
  BY DEF HistoryInv
<1> HIDE DEF added
<1>3. ASSUME NEW d \in CartsOf(c, Docs) PROVE \E k \in 1..n : d = added[k]
  <2> DEFINE Seen == {k \in 1..Len(States) : d \in States[k].carts}
  <2>1. Len(States) = n + 1 /\ d \in Docs /\ d.cust = c
    BY StatesFacts DEF CartsOf
  <2>2. Seen \in SUBSET Nat /\ Seen # {}
    BY <1>1, <2>1 DEF Docs
  <2>3. PICK k \in Seen : \A j \in Seen : k <= j
    <3> HIDE DEF Seen
    <3> QED BY <2>2, LeastNat
  <2>4. k # 1
    <3>1. d \notin States[1].carts
      BY <2>1, StatesFacts DEF CartsOf
    <3> QED BY <2>3, <3>1
  <2>5. k - 1 \in 1..n /\ k - 1 + 1 = k
    BY <1>1, <2>1, <2>3, <2>4
  <2>6. k - 1 \notin Seen
    BY <2>3, <2>5
  <2>7. d \in States[k - 1].carts \cup {added[k - 1]}
    BY <1>2, <2>3, <2>5
  <2>8. d = added[k - 1]
    BY <1>1, <2>1, <2>5, <2>6, <2>7
  <2> QED BY <2>5, <2>8
<1>4. IsFiniteSet(1..n) /\ Cardinality(1..n) = n
  <2>1. 1 \in Int /\ n \in Int
    BY <1>1
  <2> HIDE DEF n
  <2>2. IsFiniteSet(1..n) /\ Cardinality(1..n) = IF 1 > n THEN 0 ELSE n - 1 + 1
    BY <2>1, FS_Interval
  <2> QED BY <1>1, <2>2
<1>5. IsFiniteSet(A) /\ Cardinality(A) <= n /\ Cardinality(A) \in Nat
  <2>1. \A t \in A : \E k \in 1..n : t = ids[k]
    BY <1>3
  <2> HIDE DEF A, ids
  <2> QED BY <1>4, <2>1, ImageSize
<1>6. IsFiniteSet(B) /\ Cardinality(B) <= Cardinality(Workers) /\ Cardinality(B) \in Nat
      /\ Cardinality(Workers) \in Nat
  <2>1. \A t \in B : \E w \in Workers : t = tokens[w]
    BY DEF Holders
  <2>2. IsFiniteSet(Workers)
    BY CartsAssumption
  <2> HIDE DEF B, tokens
  <2> QED BY <2>1, <2>2, ImageSize
<1>7. Tokens(c) = A \cup B
  BY DEF Tokens
<1> HIDE DEF A, B
<1>8. IsFiniteSet(A \cup B) /\ Cardinality(A \cup B) <= Cardinality(A) + Cardinality(B)
      /\ Cardinality(A \cup B) \in Nat
  BY <1>5, <1>6, UnionSize, FS_CardinalityType
<1> QED BY <1>1, <1>5, <1>6, <1>7, <1>8

\* What a step of w does that neither looks a cart up nor creates one: w keeps
\* the cart it holds or lets go of it, and saves no other.
Keeps(w) ==
    /\ worker'[w].cart \in {worker[w].cart, NoCart}
    /\ \A v \in Workers \ {w} : worker'[v] = worker[v]

Effect(w) ==
    /\ Keeps(w)
    /\ \/ UNCHANGED <<carts, items, lagging>>
       \/ \E newCarts, newItems :
              /\ Write(newCarts, newItems)
              /\ \/ newCarts \subseteq carts
                 \/ /\ worker[w].cart.id # 0
                    /\ \E refs : newCarts = Upsert([id |-> worker[w].cart.id,
                                                    cust |-> worker[w].cart.cust,
                                                    refs |-> refs], carts)

\* A thread that goes on has the cart it was given; the others keep theirs.
LEMMA ContinueCart ==
    ASSUME TypeInv, NEW w \in Workers, NEW new, Continue(w, new)
    PROVE  /\ worker'[w].cart \in {new.cart, NoCart}
           /\ new.todo # <<>> => worker'[w].cart = new.cart
           /\ \A v \in Workers \ {w} : worker'[v] = worker[v]
<1>1. worker \in [Workers -> WorkerState]
  BY DEF TypeInv
<1>2. worker'[w] = (IF new.todo = <<>> THEN Free ELSE new)
      /\ \A v \in Workers \ {w} : worker'[v] = worker[v]
  BY <1>1 DEF Continue
<1> QED BY <1>2 DEF Free

\* A step that writes no cart leaves the carts a customer may get as they
\* were.
LEMMA StepKeeps ==
    ASSUME TypeInv, NEW w \in Workers, NEW hand, Step(w, worker[w].cart, hand)
    PROVE  Keeps(w)
<1> DEFINE new == [worker[w] EXCEPT !.todo = Tail(@), !.cart = worker[w].cart, !.hand = hand]
<1>1. new.cart = worker[w].cart
  BY DEF TypeInv, StateOK, WorkerState
<1>2. Continue(w, new)
  BY DEF Step
<1> HIDE DEF new
<1> QED BY <1>1, <1>2, ContinueCart DEF Keeps

\* Saving a cart puts one document with the id and customer of the cart in
\* place of the old one.
LEMMA SaveEffect ==
    ASSUME TypeInv, NEW w \in Workers, NEW newItems, SaveWith(w, newItems), worker[w].cart.id # 0
    PROVE  \E newCarts : \E refs :
               /\ Write(newCarts, items)
               /\ newCarts = Upsert([id |-> worker[w].cart.id, cust |-> worker[w].cart.cust,
                                     refs |-> refs], carts)
<1> DEFINE cart == [worker[w].cart EXCEPT !.items = newItems]
<1>1. cart.id = worker[w].cart.id /\ cart.cust = worker[w].cart.cust
  BY DEF TypeInv, StateOK, WorkerState, CartObject
<1>2. Write(SaveDoc(cart, carts), items)
  BY DEF SaveWith
<1>3. SaveDoc(cart, carts)
          = Upsert([id |-> cart.id, cust |-> cart.cust, refs |-> Refs(cart)], carts)
  BY DEF SaveDoc
<1> HIDE DEF cart
<1> QED BY <1>1, <1>2, <1>3

\* A step that uses a cart has one that was looked up: it has an id and a
\* customer.
LEMMA Loaded ==
    ASSUME TypeInv, NEW w \in Workers, NEW step \in LoadedSteps, Does(w, step)
    PROVE  worker[w].cart.id # 0 /\ worker[w].cart.cust \in Customers
  BY BusyStep DEF StateOK

\* Every step of a thread writes no cart, saves the one it holds or drops it.
LEMMA Effects ==
    ASSUME TypeInv, NEW w \in Workers,
           \/ \E req \in Requests : Receive(w, req)
           \/ Handle(w) /\ ~Find(w) /\ ~Create(w)
           \/ Abort(w)
    PROVE  Effect(w)
<1> DEFINE st == worker[w]
           Saves == \E newCarts, newItems :
              /\ Write(newCarts, newItems)
              /\ \/ newCarts \subseteq carts
                 \/ /\ worker[w].cart.id # 0
                    /\ \E refs : newCarts = Upsert([id |-> worker[w].cart.id,
                                                    cust |-> worker[w].cart.cust,
                                                    refs |-> refs], carts)
<1>1. st \in WorkerState
  BY DEF TypeInv, StateOK
<1>2. ASSUME Fail(w) PROVE Keeps(w)
  <2>1. worker' = [worker EXCEPT ![w] = Free] /\ worker \in [Workers -> WorkerState]
    BY <1>2 DEF Fail, TypeInv
  <2> QED BY <2>1 DEF Keeps, Free
<1>3. CASE \E req \in Requests : Receive(w, req)
  <2>1. PICK req \in Requests : Receive(w, req)
    BY <1>3
  <2> DEFINE hand == IF req.op = "add" THEN <<[id |-> 0, itemId |-> req.itemId, qty |-> 1]>>
                                       ELSE <<>>
             new == [req |-> req, todo |-> Script(req.op), cart |-> NoCart, qty |-> req.qty,
                     hand |-> hand]
  <2>2. new.cart = NoCart
    OBVIOUS
  <2>3. /\ worker' = [worker EXCEPT ![w] = new] /\ worker \in [Workers -> WorkerState]
        /\ UNCHANGED <<carts, items, lagging>>
    BY <2>1 DEF Receive, store, TypeInv
  <2> HIDE DEF new
  <2>4. Keeps(w)
    BY <2>2, <2>3 DEF Keeps
  <2> QED BY <2>3, <2>4 DEF Effect
<1>4. CASE HasItem(w)
  <2>1. Keeps(w)
    BY <1>1, <1>4, ContinueCart DEF HasItem, WorkerState, Keeps
  <2> QED BY <1>4, <2>1 DEF HasItem, Effect, store
<1>5. CASE FindItem(w)
  <2>1. Keeps(w)
    BY <1>2, <1>5, StepKeeps DEF FindItem
  <2> QED BY <1>5, <2>1 DEF FindItem, Effect, store
<1>6. CASE Increment(w)
  <2>1. Keeps(w)
    <3> DEFINE new == [st EXCEPT !.todo = UpdateScript,
                                 !.qty = st.cart.items[FirstWanted(w)].qty + 1]
    <3>1. new.cart = st.cart
      BY <1>1 DEF WorkerState
    <3>2. Fail(w) \/ Continue(w, new)
      BY <1>6 DEF Increment
    <3> HIDE DEF new
    <3> QED BY <1>2, <3>1, <3>2, ContinueCart DEF Keeps
  <2> QED BY <1>6, <2>1 DEF Increment, Effect, store
<1>7. CASE MergeItems(w)
  <2>1. Keeps(w)
    <3> DEFINE new == [st EXCEPT !.todo = MergeRest(st.cart.items), !.hand = st.cart.items]
    <3>1. Continue(w, new) /\ new.cart = st.cart
      BY <1>1, <1>7 DEF MergeItems, WorkerState
    <3> HIDE DEF new
    <3> QED BY <3>1, ContinueCart DEF Keeps
  <2> QED BY <1>7, <2>1 DEF MergeItems, Effect, store
<1>8. CASE Abort(w)
  BY <1>2, <1>8 DEF Abort, Effect, store
<1>9. CASE SaveItem(w)
  <2>1. Keeps(w)
    BY <1>9, StepKeeps DEF SaveItem
  <2>2. \E newItems : Write(carts, newItems)
    BY <1>9 DEF SaveItem
  <2>3. Saves
    BY <2>2
  <2> QED BY <2>1, <2>3 DEF Effect
<1>10. CASE SaveQuantity(w)
  <2>1. Keeps(w)
    BY <1>10, StepKeeps DEF SaveQuantity
  <2>2. \E newItems : Write(carts, newItems)
    BY <1>10 DEF SaveQuantity
  <2>3. Saves
    BY <2>2
  <2> QED BY <2>1, <2>3 DEF Effect
<1>11. CASE DestroyItem(w)
  <2>1. Keeps(w)
    BY <1>11, StepKeeps DEF DestroyItem
  <2>2. \E newItems : Write(carts, newItems)
    BY <1>11 DEF DestroyItem
  <2>3. Saves
    BY <2>2
  <2> QED BY <2>1, <2>3 DEF Effect
<1>12. CASE DeleteCart(w)
  <2>1. Keeps(w)
    BY <1>12, StepKeeps DEF DeleteCart
  <2>2. Write({d \in carts : d.id # worker[w].cart.id}, items)
    BY <1>12 DEF DeleteCart
  <2>3. Saves
    BY <2>2
  <2> QED BY <2>1, <2>3 DEF Effect
<1>13. CASE AddItem(w)
  <2>1. Keeps(w)
    BY <1>13, StepKeeps DEF AddItem
  <2>2. st.cart.id # 0
    BY <1>13, Loaded DEF AddItem, LoadedSteps
  <2>3. Saves
    BY <1>13, <2>2, SaveEffect DEF AddItem
  <2> QED BY <2>1, <2>3 DEF Effect
<1>14. CASE RemoveItem(w)
  <2>1. Keeps(w)
    BY <1>14, StepKeeps DEF RemoveItem
  <2>2. st.cart.id # 0
    BY <1>14, Loaded DEF RemoveItem, LoadedSteps
  <2>3. Saves
    BY <1>14, <2>2, SaveEffect DEF RemoveItem
  <2> QED BY <2>1, <2>3 DEF Effect
<1>15. CASE MergeItem(w)
  <2>1. Keeps(w)
    <3> DEFINE new == [st EXCEPT !.todo = MergeRest(Tail(st.hand)), !.hand = Tail(st.hand)]
    <3>1. Continue(w, new) /\ new.cart = st.cart
      BY <1>1, <1>15 DEF MergeItem, WorkerState
    <3> HIDE DEF new
    <3> QED BY <3>1, ContinueCart DEF Keeps
  <2>2. st.cart.id # 0
    BY <1>15, Loaded DEF MergeItem, LoadedSteps
  <2>3. Saves
    BY <1>15, <2>2, SaveEffect DEF MergeItem
  <2> QED BY <2>1, <2>3 DEF Effect
<1> QED
  BY <1>3, <1>4, <1>5, <1>6, <1>7, <1>8, <1>9, <1>10, <1>11, <1>12, <1>13, <1>14, <1>15
     DEF Handle

\* No step that is an Effect gives a customer a cart it could not have had.
LEMMA EffectBound ==
    ASSUME BoundInv, TypeInv', NEW w \in Workers, Effect(w)
    PROVE  BoundInv'
<1> DEFINE st == worker[w]
<1>1. StoreInv /\ HistoryInv /\ StoreInv'
  BY DEF BoundInv, TypeInv
<1>2. /\ worker'[w].cart \in {st.cart, NoCart}
      /\ \A v \in Workers \ {w} : worker'[v] = worker[v]
  BY DEF Effect, Keeps
<1>4. /\ HistoryInv'
      /\ \A d \in Docs' : d \in Docs \/ (st.cart.id # 0 /\ d.id = st.cart.id
            /\ d.cust = st.cart.cust)
      /\ \A d, e \in carts' : d.id = e.id => d = e
  <2>1. CASE UNCHANGED <<carts, items, lagging>>
    <3>1. States' = States
      BY <2>1 DEF States
    <3> QED BY <1>1, <2>1, <3>1 DEF HistoryInv, Docs, BoundInv
  <2>2. CASE \E newCarts, newItems :
                 Write(newCarts, newItems) /\ newCarts \subseteq carts
    <3>1. PICK newCarts, newItems : Write(newCarts, newItems) /\ newCarts \subseteq carts
      BY <2>2
    <3>2. newCarts \subseteq carts \cup {NoCart}
      BY <3>1
    <3>3. HistoryInv' /\ \A d \in Docs' : d \in Docs \/ d \in newCarts
      BY <1>1, <3>1, <3>2, WriteHistory
    <3>4. carts' = newCarts /\ carts \subseteq Docs
      BY <1>1, <3>1, DocsFacts DEF Write
    <3> QED BY <3>1, <3>3, <3>4 DEF BoundInv
  <2>3. CASE \E newCarts, newItems :
                 /\ Write(newCarts, newItems) /\ st.cart.id # 0
                 /\ \E refs : newCarts = Upsert([id |-> st.cart.id, cust |-> st.cart.cust,
                                                 refs |-> refs], carts)
    <3>1. PICK newCarts, newItems, refs :
              /\ Write(newCarts, newItems) /\ st.cart.id # 0
              /\ newCarts = Upsert([id |-> st.cart.id, cust |-> st.cart.cust, refs |-> refs], carts)
      BY <2>3
    <3> DEFINE doc == [id |-> st.cart.id, cust |-> st.cart.cust, refs |-> refs]
    <3>2. doc.id = st.cart.id /\ doc.cust = st.cart.cust
      OBVIOUS
    <3> HIDE DEF doc
    <3>3. newCarts = {d \in carts : d.id # doc.id} \cup {doc}
      BY <3>1 DEF Upsert, doc
    <3>4. newCarts \subseteq carts \cup {doc}
      BY <3>3
    <3>5. HistoryInv' /\ \A d \in Docs' : d \in Docs \/ d \in newCarts
      BY <1>1, <3>1, <3>4, WriteHistory
    <3>6. carts' = newCarts /\ carts \subseteq Docs
      BY <1>1, <3>1, DocsFacts DEF Write
    <3>7. \A d, e \in carts' : d.id = e.id => d = e
      BY <3>3, <3>6 DEF BoundInv
    <3> QED BY <3>1, <3>2, <3>4, <3>5, <3>6, <3>7
  <2> QED BY <2>1, <2>2, <2>3 DEF Effect
<1>5. ASSUME NEW c \in Customers
      PROVE  Tokens(c)' \subseteq Tokens(c)
  <2>1. NoCart.cust \notin Customers
    BY CartsAssumption DEF NoCart
  <2>2. st.cart.cust = c => Token(st, w) \in Tokens(c)
    BY DEF Tokens, Holders
  <2>3. ASSUME NEW d \in Docs', d.cust = c PROVE <<"id", d.id>> \in Tokens(c)
    <3>1. CASE d \in Docs
      BY <2>3, <3>1 DEF Tokens, CartsOf
    <3>2. CASE st.cart.id # 0 /\ d.id = st.cart.id /\ d.cust = st.cart.cust
      BY <2>2, <2>3, <3>2 DEF Token
    <3> QED BY <1>4, <3>1, <3>2
  <2>4. ASSUME NEW v \in Workers, worker'[v].cart.cust = c PROVE Token(worker'[v], v) \in Tokens(c)
    <3>1. CASE v = w
      <4>1. worker'[v].cart = st.cart
        BY <1>2, <2>1, <2>4, <3>1
      <4>2. Token(worker'[v], v) = Token(st, w)
        BY <3>1, <4>1 DEF Token
      <4> QED BY <2>2, <2>4, <3>1, <4>1, <4>2
    <3>2. CASE v # w
      BY <1>2, <2>4, <3>2 DEF Tokens, Holders
    <3> QED BY <3>1, <3>2
  <2>5. Tokens(c)' = {<<"id", d.id>> : d \in {d \in Docs' : d.cust = c}} \cup
                     {Token(worker'[v], v) : v \in {v \in Workers : worker'[v].cart.cust = c}}
    BY DEF Tokens, Holders, CartsOf, Token
  <2> QED BY <2>3, <2>4, <2>5
<1>6. ASSUME NEW c \in Customers
      PROVE  /\ IsFiniteSet(Tokens(c)')
             /\ Cardinality(Tokens(c)') <= Cardinality(Workers) + MaxLag
  <2>1. IsFiniteSet(Tokens(c)) /\ Cardinality(Tokens(c)) <= Cardinality(Workers) + MaxLag
    BY DEF BoundInv
  <2>2. IsFiniteSet(Tokens(c)') /\ Cardinality(Tokens(c)') <= Cardinality(Tokens(c))
    BY <1>5, <2>1, FS_Subset
  <2>3. Cardinality(Tokens(c)) \in Nat /\ Cardinality(Tokens(c)') \in Nat
        /\ Cardinality(Workers) \in Nat /\ MaxLag \in Nat
    BY <2>1, <2>2, FS_CardinalityType, CartsAssumption
  <2> QED BY <2>1, <2>2, <2>3
<1> QED BY <1>4, <1>6 DEF BoundInv

\* The bound of UnseenBound, for every customer.
UnseenBounded ==
    \A c : StoreInv /\ HistoryInv /\ CartsOf(c, View.carts) = {} =>
               /\ IsFiniteSet(Tokens(c))
               /\ Cardinality(Tokens(c)) <= Cardinality(Workers) + MaxLag

\* The bound on the threads that have not seen a cart yet, in the next state.
LEMMA UnseenNext == UnseenBounded'
<1>1. UnseenBounded
  BY UnseenBound DEF UnseenBounded
<1> QED BY <1>1, PTL

\* A step that leaves the collections alone reads the same documents.
LEMMA SameStore ==
    ASSUME BoundInv, UNCHANGED <<carts, items, lagging>>
    PROVE  /\ HistoryInv' /\ Docs' = Docs /\ View' = View
           /\ \A d, e \in carts' : d.id = e.id => d = e
<1>1. States' = States
  BY DEF States
<1>2. HistoryInv' /\ Docs' = Docs /\ View' = View
  BY <1>1 DEF HistoryInv, Docs, View, BoundInv
<1> QED BY <1>2 DEF BoundInv

\* Where no customer gets a token, none gets too many.
LEMMA FewerTokens ==
    ASSUME BoundInv, NEW c \in Customers, Tokens(c)' \subseteq Tokens(c)
    PROVE  /\ IsFiniteSet(Tokens(c)')
           /\ Cardinality(Tokens(c)') <= Cardinality(Workers) + MaxLag
<1>1. IsFiniteSet(Tokens(c)) /\ Cardinality(Tokens(c)) <= Cardinality(Workers) + MaxLag
  BY DEF BoundInv
<1>2. IsFiniteSet(Tokens(c)') /\ Cardinality(Tokens(c)') <= Cardinality(Tokens(c))
  BY <1>1, FS_Subset
<1>3. Cardinality(Tokens(c)) \in Nat /\ Cardinality(Tokens(c)') \in Nat
      /\ Cardinality(Workers) \in Nat /\ MaxLag \in Nat
  BY <1>1, <1>2, FS_CardinalityType, CartsAssumption
<1> QED BY <1>1, <1>2, <1>3

\* What stands for a cart of a customer, in the next state.
LEMMA TokensNext ==
    ASSUME NEW c
    PROVE  Tokens(c)' = {<<"id", d.id>> : d \in {d \in Docs' : d.cust = c}} \cup
                        {Token(worker'[v], v) : v \in {v \in Workers : worker'[v].cart.cust = c}}
  BY DEF Tokens, Holders, CartsOf, Token

\* A look-up that finds no cart makes one token of its thread.
LEMMA FindBound ==
    ASSUME BoundInv, TypeInv', NEW w \in Workers, Find(w)
    PROVE  BoundInv'
<1> DEFINE st == worker[w]
<1>0. PICK c : c = IF Does(w, "value") THEN st.req.cust ELSE st.req.other
  OBVIOUS
<1>1. TypeInv /\ StoreInv /\ HistoryInv /\ StoreInv' /\ st \in WorkerState
  BY DEF BoundInv, TypeInv
<1>2. /\ HistoryInv' /\ Docs' = Docs /\ View' = View
      /\ \A d, e \in carts' : d.id = e.id => d = e
  BY SameStore DEF Find, store
<1>3. NoCart.cust \notin Customers
  BY CartsAssumption DEF NoCart
<1>4. CASE \E d \in CartsOf(c, View.carts) : Step(w, Load(d), st.hand)
  <2>1. PICK d \in CartsOf(c, View.carts) : Step(w, Load(d), st.hand)
    BY <1>4
  <2> DEFINE new == [st EXCEPT !.todo = Tail(@), !.cart = Load(d), !.hand = st.hand]
  <2>2. Continue(w, new) /\ new.cart = Load(d)
    BY <1>1, <2>1 DEF Step, WorkerState
  <2> HIDE DEF new
  <2>3. worker'[w].cart \in {Load(d), NoCart} /\ \A v \in Workers \ {w} : worker'[v] = worker[v]
    BY <1>1, <2>2, ContinueCart
  <2>4. Load(d).id = d.id /\ Load(d).cust = d.cust
    BY DEF Load
  <2>5. d \in Docs /\ d.id # 0
    BY <1>1, DocsFacts DEF CartsOf, CartDoc
  <2>6. ASSUME NEW b \in Customers PROVE Tokens(b)' \subseteq Tokens(b)
    <3>1. ASSUME NEW v \in Workers, worker'[v].cart.cust = b
          PROVE  Token(worker'[v], v) \in Tokens(b)
      <4>1. CASE v = w
        <5>1. worker'[v].cart = Load(d)
          BY <1>3, <2>3, <3>1, <4>1
        <5>2. Token(worker'[v], v) = <<"id", d.id>> /\ d.cust = b
          BY <2>4, <2>5, <3>1, <5>1 DEF Token
        <5> QED BY <2>5, <5>2 DEF Tokens, CartsOf
      <4>2. CASE v # w
        BY <2>3, <3>1, <4>2 DEF Tokens, Holders
      <4> QED BY <4>1, <4>2
    <3>2. {<<"id", e.id>> : e \in {e \in Docs' : e.cust = b}} \subseteq Tokens(b)
      BY <1>2 DEF Tokens, CartsOf
    <3> QED BY <3>1, <3>2, TokensNext
  <2> QED BY <1>2, <2>6, FewerTokens DEF BoundInv
<1>5. CASE /\ CartsOf(c, View.carts) = {}
           /\ Continue(w, [st EXCEPT !.todo = <<"create">> \o @,
                                     !.cart = [id |-> 0, cust |-> c, items |-> <<>>]])
  <2> DEFINE new == [st EXCEPT !.todo = <<"create">> \o @,
                               !.cart = [id |-> 0, cust |-> c, items |-> <<>>]]
  <2>1. Continue(w, new) /\ new.cart.cust = c
    BY <1>1, <1>5 DEF WorkerState
  <2> HIDE DEF new
  <2>2. worker'[w].cart \in {new.cart, NoCart} /\ \A v \in Workers \ {w} : worker'[v] = worker[v]
    BY <1>1, <2>1, ContinueCart
  <2>3. ASSUME NEW b \in Customers, b # c PROVE Tokens(b)' \subseteq Tokens(b)
    <3>1. ASSUME NEW v \in Workers, worker'[v].cart.cust = b
          PROVE  Token(worker'[v], v) \in Tokens(b)
      <4>1. v # w
        BY <1>3, <2>1, <2>2, <2>3, <3>1
      <4> QED BY <2>2, <3>1, <4>1 DEF Tokens, Holders
    <3>2. {<<"id", e.id>> : e \in {e \in Docs' : e.cust = b}} \subseteq Tokens(b)
      BY <1>2 DEF Tokens, CartsOf
    <3> QED BY <3>1, <3>2, TokensNext
  <2>4. CartsOf(c, View'.carts) = {}
    BY <1>2, <1>5
  <2>5. IsFiniteSet(Tokens(c)') /\ Cardinality(Tokens(c)') <= Cardinality(Workers) + MaxLag
    <3>1. \A b : StoreInv' /\ HistoryInv' /\ CartsOf(b, View'.carts) = {} =>
               /\ IsFiniteSet(Tokens(b)')
               /\ Cardinality(Tokens(b)') <= Cardinality(Workers) + MaxLag
      BY UnseenNext DEF UnseenBounded, CartsOf
    <3> QED BY <1>1, <1>2, <2>4, <3>1
  <2>6. ASSUME NEW b \in Customers
        PROVE  /\ IsFiniteSet(Tokens(b)')
               /\ Cardinality(Tokens(b)') <= Cardinality(Workers) + MaxLag
    <3>1. CASE b = c
      BY <2>5, <3>1
    <3>2. CASE b # c
      BY <2>3, <3>2, FewerTokens
    <3> QED BY <3>1, <3>2
  <2> QED BY <1>2, <2>6 DEF BoundInv
<1> QED BY <1>0, <1>4, <1>5 DEF Find

\* A creation trades the token of a thread for that of a document.
LEMMA CreateBound ==
    ASSUME BoundInv, TypeInv', NEW w \in Workers, Create(w)
    PROVE  BoundInv'
<1> DEFINE st == worker[w]
           c == st.cart.cust
           cart == [st.cart EXCEPT !.id = nextId]
           new == [st EXCEPT !.todo = Tail(@), !.cart = NoCart, !.hand = st.hand]
<1>1. TypeInv /\ StoreInv /\ HistoryInv /\ StoreInv' /\ st \in WorkerState
  BY DEF BoundInv, TypeInv
<1>2. st.cart.id = 0
  <2>1. StateOK(st) /\ st.req # None /\ Head(st.todo) = "create"
    BY <1>1, BusyStep DEF Create
  <2>2. PICK s \in Scripts(st.req.op) : Follows(st, s)
    BY <2>1 DEF StateOK
  <2> QED BY <2>1, <2>2 DEF Follows
<1>3. worker'[w].cart = NoCart /\ \A v \in Workers \ {w} : worker'[v] = worker[v]
  <2>1. Continue(w, new) /\ new.cart = NoCart
    BY <1>1 DEF Create, Step, WorkerState
  <2> HIDE DEF new
  <2> QED BY <1>1, <2>1, ContinueCart
<1>4. cart.id = nextId /\ cart.cust = c
  BY <1>1 DEF WorkerState, CartObject
<1> DEFINE doc == [id |-> cart.id, cust |-> cart.cust, refs |-> Refs(cart)]
           newCarts == {d \in carts : d.id # doc.id} \cup {doc}
<1>5. Write(newCarts, items) /\ doc.id = nextId /\ doc.cust = c
  BY <1>4 DEF Create, SaveDoc, Upsert
<1> HIDE DEF doc, new, cart
<1>6. HistoryInv' /\ \A d \in Docs' : d \in Docs \/ d \in newCarts
  <2>1. newCarts \subseteq carts \cup {doc}
    OBVIOUS
  <2> HIDE DEF newCarts
  <2> QED BY <1>1, <1>5, <2>1, WriteHistory
<1>7. \A d, e \in carts' : d.id = e.id => d = e
  <2>1. carts' = newCarts
    BY <1>5 DEF Write
  <2> QED BY <2>1 DEF BoundInv
<1>8. \A d \in Docs' : d \in Docs \/ d = doc
  BY <1>1, <1>6, DocsFacts
<1>9. ASSUME NEW b \in Customers
      PROVE  Tokens(b)' \subseteq
                 IF b = c THEN (Tokens(b) \ {<<"new", w>>}) \cup {<<"id", nextId>>} ELSE Tokens(b)
  <2>1. NoCart.cust # b
    BY CartsAssumption DEF NoCart
  <2>2. ASSUME NEW d \in Docs', d.cust = b
        PROVE  /\ <<"id", d.id>> \in Tokens(b) \/ (b = c /\ d.id = nextId)
               /\ <<"id", d.id>> # <<"new", w>>
    BY <1>5, <1>8, <2>2 DEF Tokens, CartsOf
  <2>3. ASSUME NEW v \in Workers, worker'[v].cart.cust = b
        PROVE  Token(worker'[v], v) \in Tokens(b) /\ Token(worker'[v], v) # <<"new", w>>
    <3>1. v # w
      BY <1>3, <2>1, <2>3
    <3> QED BY <1>3, <2>3, <3>1 DEF Tokens, Holders, Token
  <2> QED BY <2>2, <2>3, TokensNext
<1>10. ASSUME NEW b \in Customers
       PROVE  /\ IsFiniteSet(Tokens(b)')
              /\ Cardinality(Tokens(b)') <= Cardinality(Workers) + MaxLag
  <2>1. CASE b # c
    BY <1>9, <2>1, FewerTokens
  <2>2. CASE b = c
    <3> DEFINE T == Tokens(b)
               rest == T \ {<<"new", w>>}
    <3>1. <<"new", w>> \in T
      BY <1>2, <2>2 DEF Tokens, Holders, Token
    <3>2. IsFiniteSet(T) /\ Cardinality(T) <= Cardinality(Workers) + MaxLag
      BY DEF BoundInv
    <3>3. Tokens(b)' \subseteq rest \cup {<<"id", nextId>>}
      BY <1>9, <2>2
    <3> HIDE DEF T
    <3>4. IsFiniteSet(rest) /\ Cardinality(rest) = Cardinality(T) - 1
      BY <3>1, <3>2, FS_RemoveElement
    <3> HIDE DEF rest
    <3>5. IsFiniteSet(rest \cup {<<"id", nextId>>})
          /\ Cardinality(rest \cup {<<"id", nextId>>})
                \in {Cardinality(rest), Cardinality(rest) + 1}
      BY <3>4, FS_AddElement
    <3>6. IsFiniteSet(Tokens(b)')
          /\ Cardinality(Tokens(b)') <= Cardinality(rest \cup {<<"id", nextId>>})
      BY <3>3, <3>5, FS_Subset
    <3>7. Cardinality(T) \in Nat /\ Cardinality(Tokens(b)') \in Nat
          /\ Cardinality(Workers) \in Nat /\ MaxLag \in Nat
      BY <3>2, <3>6, FS_CardinalityType, CartsAssumption
    <3> QED BY <3>2, <3>4, <3>5, <3>6, <3>7
  <2> QED BY <2>1, <2>2
<1> QED BY <1>6, <1>7, <1>10 DEF BoundInv

\* A secondary that catches up shows no document that was not counted.
LEMMA CatchUpBound ==
    ASSUME BoundInv, TypeInv', CatchUp
    PROVE  BoundInv'
<1> DEFINE State == [carts : SUBSET CartDoc, items : SUBSET StoredItem]
<1>1. /\ TypeInv /\ StoreInv /\ HistoryInv /\ StoreInv'
      /\ worker' = worker /\ carts' = carts /\ items' = items
      /\ lagging \in Seq(State) /\ lagging # <<>> /\ lagging' = Tail(lagging)
  BY DEF BoundInv, TypeInv, StoreInv, CatchUp
<1> HIDE DEF State
<1>2. /\ Len(lagging) \in Nat /\ Len(lagging') = Len(lagging) - 1
      /\ \A k \in 1..Len(lagging') : lagging'[k] = lagging[k + 1]
  BY <1>1, HeadTailProperties
<1>3. \A k \in 1..Len(lagging') + 1 : States'[k] = States[k + 1]
  <2>1. /\ \A k \in 1..Len(lagging') : States'[k] = lagging'[k]
        /\ States'[Len(lagging') + 1] = [carts |-> carts, items |-> items]
    <3>1. lagging' \in Seq(State)
      BY <1>1, HeadTailProperties
    <3> QED BY <1>1, <3>1 DEF States
  <2>2. \A k \in 1..Len(lagging') : k + 1 \in 1..Len(lagging)
    BY <1>2
  <2>3. Len(lagging') + 1 = Len(lagging)
    BY <1>2
  <2> QED BY <1>1, <1>2, <2>1, <2>2, <2>3, StatesFacts
<1>4. HistoryInv'
  <2>1. Len(lagging') <= MaxLag
    BY <1>1, <1>2, CartsAssumption DEF HistoryInv
  <2>2. ASSUME NEW k \in 1..Len(lagging')
        PROVE  \E doc : States'[k + 1].carts \subseteq States'[k].carts \cup {doc}
    <3>1. k \in 1..Len(lagging') + 1 /\ k + 1 \in 1..Len(lagging') + 1 /\ k + 1 \in 1..Len(lagging)
      BY <1>2
    <3> QED BY <1>1, <1>3, <3>1 DEF HistoryInv
  <2> QED BY <2>1, <2>2 DEF HistoryInv
<1>5. Docs' \subseteq Docs
  <2>1. ASSUME NEW k \in 1..Len(lagging') PROVE lagging'[k].carts \subseteq Docs
    <3>1. k + 1 \in 1..Len(lagging) /\ lagging'[k] = lagging[k + 1]
      BY <1>2
    <3> QED BY <1>1, <3>1, DocsFacts
  <2>2. \A d : d \in Docs' => d \in carts' \/ \E k \in 1..Len(lagging') : d \in lagging'[k].carts
    <3>1. /\ Len(States') = Len(lagging') + 1
          /\ \A k \in 1..Len(lagging') : States'[k] = lagging'[k]
          /\ States'[Len(lagging') + 1] = [carts |-> carts', items |-> items']
      <4>1. lagging' \in Seq(State)
        BY <1>1, HeadTailProperties
      <4> QED BY <4>1 DEF States
    <3>2. \A k : k \in 1..Len(States') <=> k \in 1..Len(lagging') \/ k = Len(lagging') + 1
      BY <1>2, <3>1
    <3> QED BY <3>1, <3>2 DEF Docs
  <2> QED BY <1>1, <2>1, <2>2, DocsFacts
<1>6. ASSUME NEW c \in Customers PROVE Tokens(c)' \subseteq Tokens(c)
  BY <1>1, <1>5 DEF Tokens, Holders, CartsOf, Token
<1>7. \A d, e \in carts' : d.id = e.id => d = e
  BY <1>1 DEF BoundInv
<1> QED BY <1>4, <1>6, <1>7, FewerTokens DEF BoundInv

\* Nothing happens to what is counted.
LEMMA StutterBound ==
    ASSUME BoundInv, TypeInv', UNCHANGED vars
    PROVE  BoundInv'
<1>1. UNCHANGED <<carts, items, lagging, worker>>
  BY DEF vars
<1>2. HistoryInv' /\ Docs' = Docs /\ \A d, e \in carts' : d.id = e.id => d = e
  BY <1>1, SameStore
<1>3. ASSUME NEW c \in Customers PROVE Tokens(c)' \subseteq Tokens(c)
  BY <1>1, <1>2 DEF Tokens, Holders, CartsOf, Token
<1> QED BY <1>2, <1>3, FewerTokens DEF BoundInv

\* At the start there is nothing to count.
LEMMA BoundInit == Init => BoundInv
<1> SUFFICES ASSUME Init PROVE BoundInv
  OBVIOUS
<1>1. TypeInv /\ StoreInv
  BY InitType DEF TypeInv
<1>2. lagging = <<>> /\ carts = {} /\ Len(lagging) = 0 /\ \A k : k \notin 1..0
  BY DEF Init
<1>3. HistoryInv
  BY <1>2, CartsAssumption DEF HistoryInv
<1>4. ASSUME NEW c \in Customers PROVE Tokens(c) = {}
  <2>1. Holders(c) = {}
    BY CartsAssumption DEF Init, Holders, Free, NoCart
  <2>2. CartsOf(c, Docs) = {}
    BY <1>1, <1>2, DocsFacts DEF CartsOf
  <2> QED BY <2>1, <2>2 DEF Tokens
<1>5. Cardinality({}) = 0 /\ IsFiniteSet({}) /\ Cardinality(Workers) \in Nat /\ MaxLag \in Nat
  BY FS_EmptySet, CartsAssumption, FS_CardinalityType
<1>6. ASSUME NEW c \in Customers
      PROVE  IsFiniteSet(Tokens(c)) /\ Cardinality(Tokens(c)) <= Cardinality(Workers) + MaxLag
  <2>1. Tokens(c) = {}
    BY <1>4
  <2>2. 0 <= Cardinality(Workers) + MaxLag
    BY <1>5
  <2> QED BY <1>5, <2>1, <2>2
<1>7. \A d, e \in carts : d.id = e.id => d = e
  BY <1>2
<1> QED BY <1>1, <1>3, <1>6, <1>7 DEF BoundInv

\* Every step keeps the bound.
LEMMA BoundStep ==
    ASSUME BoundInv, [Next]_vars
    PROVE  BoundInv'
<1>1. TypeInv /\ TypeInv'
  BY TypeStep DEF BoundInv
<1>2. ASSUME NEW w \in Workers, Handle(w) PROVE BoundInv'
  <2>1. CASE Find(w)
    BY <1>1, <2>1, FindBound
  <2>2. CASE Create(w)
    BY <1>1, <2>2, CreateBound
  <2>3. CASE ~Find(w) /\ ~Create(w)
    BY <1>1, <1>2, <2>3, Effects, EffectBound
  <2> QED BY <2>1, <2>2, <2>3
<1>3. ASSUME NEW w \in Workers, \E req \in Requests : Receive(w, req) PROVE BoundInv'
  BY <1>1, <1>3, Effects, EffectBound
<1>4. ASSUME NEW w \in Workers, Abort(w) PROVE BoundInv'
  BY <1>1, <1>4, Effects, EffectBound
<1>5. CASE CatchUp
  BY <1>1, <1>5, CatchUpBound
<1>6. CASE Quiesce \/ UNCHANGED vars
  BY <1>1, <1>6, StutterBound DEF Quiesce
<1> QED BY <1>2, <1>3, <1>4, <1>5, <1>6 DEF Next

\* The bound on tokens bounds the cart documents.
LEMMA BoundInvOK ==
    ASSUME BoundInv
    PROVE  CartBound
<1>1. StoreInv
  BY DEF BoundInv, TypeInv
<1>2. ASSUME NEW c \in Customers
      PROVE  Cardinality(CartsOf(c, carts)) <= Cardinality(Workers) + MaxLag
  <2> DEFINE C == CartsOf(c, carts)
             T == Tokens(c)
             named == [t \in T |-> CHOOSE d \in C : t = <<"id", d.id>>]
  <2>1. IsFiniteSet(T) /\ Cardinality(T) <= Cardinality(Workers) + MaxLag
    BY DEF BoundInv
  <2>2. ASSUME NEW d \in C PROVE \E t \in T : d = named[t]
    <3>1. <<"id", d.id>> \in T
      BY <1>1, DocsFacts DEF Tokens, CartsOf
    <3>2. \A e \in C : <<"id", d.id>> = <<"id", e.id>> => d = e
      BY DEF BoundInv, CartsOf
    <3> QED BY <3>1, <3>2
  <2> HIDE DEF C, T, named
  <2>3. /\ Cardinality(C) <= Cardinality(T)
        /\ Cardinality(C) \in Nat /\ Cardinality(T) \in Nat
    BY <2>1, <2>2, ImageSize
  <2>4. Cardinality(Workers) \in Nat /\ MaxLag \in Nat
    BY CartsAssumption, FS_CardinalityType
  <2> QED BY <2>1, <2>3, <2>4 DEF C
<1> QED BY <1>2 DEF CartBound

\* However look-ups and creations interleave, and however far the reads lag, a
\* customer never has more cart documents than there are request threads and
\* writes a read may miss: CartResource.value() lets each thread that saw none
\* create one.
THEOREM CartsBounded == Spec => []CartBound
<1>1. BoundInv /\ [Next]_vars => BoundInv'
  BY BoundStep
<1>2. BoundInv => CartBound
  BY BoundInvOK
<1> QED BY <1>1, <1>2, BoundInit, PTL DEF Spec

-----------------------------------------------------------------------------
(* Where a handler is in its script *)

\* The last step of the script a handler is in.
Goal(st) == st.todo[Len(st.todo)]

\* Where a handler is in its script, by the step it is about to take and the
\* last step it will.
LEMMA AtScript ==
    ASSUME NEW st, StateOK(st), st.req # None, Head(st.todo) # "create"
    PROVE  \E s \in Scripts(st.req.op) : \E m \in 1..Len(s) :
               /\ s \in AllScripts
               /\ HandOK(st.hand, st.req.op, s, Len(st.todo))
               /\ Len(st.todo) = Len(s) - m + 1
               /\ s[m] = Head(st.todo) /\ s[Len(s)] = Goal(st)
               /\ Tail(st.todo) = <<>> <=> m = Len(s)
               /\ m < Len(s) => /\ Head(Tail(st.todo)) = s[m + 1]
                                /\ Tail(st.todo)[Len(Tail(st.todo))] = s[Len(s)]
<1>1. PICK s \in Scripts(st.req.op) : \E m \in 1..Len(s) :
          /\ s \in AllScripts /\ Follows(st, s)
          /\ HandOK(st.hand, st.req.op, s, Len(st.todo))
          /\ Len(st.todo) = Len(s) - m + 1 /\ s[m] = Head(st.todo)
  BY ScriptStep
<1>2. PICK m \in 1..Len(s) : Len(st.todo) = Len(s) - m + 1 /\ s[m] = Head(st.todo)
  BY <1>1
<1> DEFINE t == st.todo
           u == Tail(t)
<1>3. t \in Seq(StepNames) /\ t # <<>> /\ IsRest(t, s) /\ s \in Seq(StepNames)
  <2>1. t \in Seq(StepNames) /\ t # <<>> /\ Remaining(t) = t
    BY AtStep
  <2> QED BY <1>1, <2>1, ScriptType DEF Follows
<1>4. /\ u \in Seq(StepNames) /\ Len(u) = Len(t) - 1 /\ IsRest(u, s)
      /\ u = <<>> <=> Len(t) = 1
  BY <1>1, <1>3, RestSteps
<1>5. s[Len(s)] = Goal(st)
  <2>1. Len(t) \in 1..Len(t) /\ Len(s) \in Nat /\ Len(s) - Len(t) + Len(t) = Len(s)
    BY <1>3
  <2> QED BY <1>3, <2>1 DEF IsRest, Goal
<1>6. ASSUME m < Len(s)
      PROVE  Head(u) = s[m + 1] /\ u[Len(u)] = s[Len(s)]
  <2>1. Len(s) \in Nat /\ m \in Nat /\ Len(u) = Len(s) - m
    BY <1>2, <1>3, <1>4
  <2> HIDE DEF u, t
  <2>3. Len(u) \in 1..Len(u) /\ 1 \in 1..Len(u)
        /\ Len(s) - Len(u) + Len(u) = Len(s) /\ Len(s) - Len(u) + 1 = m + 1
    BY <1>6, <2>1
  <2>2. Head(u) = u[1]
    BY <1>4, <2>3
  <2> QED BY <1>4, <2>2, <2>3 DEF IsRest
<1>7. u = <<>> <=> m = Len(s)
  BY <1>2, <1>3, <1>4
<1> QED BY <1>1, <1>2, <1>5, <1>6, <1>7

\* No step of these comes right after the customer's cart was looked up.
Unread == {"create", "session", "mergeItems", "destroyItem", "saveQuantity"}

\* What can be told from the step a handler is about to take.
PhaseOK(step, op, rest, goal, hand) ==
    /\ rest # <<>> => rest[Len(rest)] = goal
    /\ step = "value" =>
         /\ op # "merge" \/ (goal = "mergeItem" /\ Head(rest) \in {"value", "mergeItem"})
         /\ rest # <<>> => Head(rest) \notin Unread
    /\ step = "session" =>
         /\ op = "merge" /\ rest # <<>> /\ Head(rest) = goal
         /\ Head(rest) \in {"mergeItems", "deleteCart"}
    /\ step = "hasItem" => op = "add" /\ rest = <<>> /\ goal = "hasItem"
    /\ step = "foundItem" =>
         /\ op = "remove" <=> goal = "destroyItem"
         /\ goal \in {"foundItem", "increment", "saveQuantity", "destroyItem"}
         /\ op \in {"getItem", "add", "update", "remove"}
         /\ rest # <<>> => Head(rest) \in {"value", "saveQuantity"}
    /\ step = "increment" => op = "add" /\ rest = <<>> /\ goal = "increment"
    /\ step = "saveItem" =>
         op = "add" /\ goal = "addItem" /\ rest # <<>> /\ Head(rest) \in {"value", "addItem"}
    /\ step = "saveQuantity" =>
         op \in {"add", "update"} /\ rest = <<>> /\ goal = "saveQuantity"
    /\ step = "addItem" => op = "add" /\ rest = <<>> /\ goal = "addItem"
    /\ step = "removeItem" =>
         op = "remove" /\ rest # <<>> /\ Head(rest) = "destroyItem" /\ hand # <<>>
    /\ step = "destroyItem" => op = "remove" /\ rest = <<>> /\ hand # <<>>
    /\ step = "deleteCart" => op \in {"delete", "merge"} /\ rest = <<>> /\ goal = "deleteCart"
    /\ step = "mergeItems" => op = "merge" /\ rest = <<>> /\ goal = "mergeItems"
    /\ step = "mergeItem" =>
         op = "merge" /\ rest = <<>> /\ goal = "mergeItem" /\ hand # <<>>

\* The step, the request and what is left of the script determine each other
\* as PhaseOK says.
LEMMA Phase ==
    ASSUME NEW st, StateOK(st), st.req # None, Head(st.todo) # "create",
           NEW step, Head(st.todo) = step, NEW op, st.req.op = op,
           NEW rest, Tail(st.todo) = rest
    PROVE  PhaseOK(step, op, rest, Goal(st), st.hand)
<1>1. PICK s \in Scripts(st.req.op) : \E m \in 1..Len(s) :
               /\ s \in AllScripts
               /\ HandOK(st.hand, st.req.op, s, Len(st.todo))
               /\ Len(st.todo) = Len(s) - m + 1
               /\ s[m] = Head(st.todo) /\ s[Len(s)] = Goal(st)
               /\ Tail(st.todo) = <<>> <=> m = Len(s)
               /\ m < Len(s) => /\ Head(Tail(st.todo)) = s[m + 1]
                                /\ Tail(st.todo)[Len(Tail(st.todo))] = s[Len(s)]
  BY AtScript
<1>2. PICK m \in 1..Len(s) :
               /\ s \in AllScripts
               /\ HandOK(st.hand, op, s, Len(s) - m + 1)
               /\ s[m] = step /\ s[Len(s)] = Goal(st)
               /\ rest = <<>> <=> m = Len(s)
               /\ m < Len(s) => /\ Head(rest) = s[m + 1]
                                /\ rest[Len(rest)] = Goal(st)
  BY <1>1
<1>3. op \in OpNames /\ s \in Scripts(op)
  BY AtStep
<1>4. Len(s) \in Nat /\ m \in Nat /\ m <= Len(s) /\ (m # Len(s) => m < Len(s))
  BY <1>2, ScriptType
<1> DEFINE n == Len(s) - m + 1
<1>5. rest # <<>> => rest[Len(rest)] = Goal(st)
  BY <1>2, <1>4
<1>6. step = "value" =>
          /\ op # "merge" \/ (Goal(st) = "mergeItem" /\ Head(rest) \in {"value", "mergeItem"})
          /\ rest # <<>> => Head(rest) \notin Unread
  <2>1. SUFFICES ASSUME step = "value"
                 PROVE  /\ op # "merge" \/ (Goal(st) = "mergeItem"
                              /\ Head(rest) \in {"value", "mergeItem"})
                        /\ rest # <<>> => Head(rest) \notin Unread
    OBVIOUS
  <2>2. ASSUME m < Len(s) PROVE s[m + 1] \notin Unread
    <3>1. m + 1 \in 1..Len(s) /\ m + 1 # 1
      BY <1>4, <2>2
    <3>2. s[m + 1] # "create" /\ s[m + 1] # "session"
      BY <1>2, <3>1, Where
    <3>3. ASSUME s[m + 1] = "mergeItems" PROVE FALSE
      <4>1. s = MergeScript /\ m + 1 = 2
        BY <1>2, <3>1, <3>3, Where
      <4>2. m = 1
        BY <1>4, <4>1
      <4> QED BY <1>2, <2>1, <4>1, <4>2, Spelled
    <3>4. ASSUME s[m + 1] = "destroyItem" PROVE FALSE
      <4>1. s = RemoveScript /\ m + 1 = 6
        BY <1>2, <3>1, <3>4, Where
      <4>2. m = 5
        BY <1>4, <4>1
      <4> QED BY <1>2, <2>1, <4>1, <4>2, Spelled
    <3>5. ASSUME s[m + 1] = "saveQuantity" PROVE FALSE
      <4>1. s = UpdateScript /\ m + 1 = 3
        BY <1>2, <3>1, <3>5, Where
      <4>2. m = 2
        BY <1>4, <4>1
      <4> QED BY <1>2, <2>1, <4>1, <4>2, Spelled
    <3> QED BY <3>2, <3>3, <3>4, <3>5 DEF Unread
  <2>3. ASSUME op = "merge" PROVE Goal(st) = "mergeItem" /\ Head(rest) \in {"value", "mergeItem"}
    <3>1. s \in {MergeScript, MergeItemScript, DropSession}
      BY <1>3, <2>3 DEF Scripts
    <3>2. CASE s = MergeScript
      <4>1. m \in {1, 2}
        BY <1>4, <3>2, ScriptLengths
      <4> QED BY <1>2, <2>1, <3>2, <4>1, Spelled
    <3>3. CASE s = DropSession
      <4>1. m \in {1, 2}
        BY <1>4, <3>3, ScriptLengths
      <4> QED BY <1>2, <2>1, <3>3, <4>1, Spelled
    <3>4. CASE s = MergeItemScript
      <4>1. m \in {1, 2, 3} /\ Len(s) = 3
        BY <1>4, <3>4, ScriptLengths
      <4> QED BY <1>2, <2>1, <3>4, <4>1, Spelled
    <3> QED BY <3>1, <3>2, <3>3, <3>4
  <2> QED BY <1>2, <1>4, <2>2, <2>3
<1>7. step = "session" =>
                /\ op = "merge" /\ rest # <<>> /\ Head(rest) = Goal(st)
                /\ Head(rest) \in {"mergeItems", "deleteCart"}
  <2>1. SUFFICES ASSUME step = "session"
                 PROVE  /\ op = "merge" /\ rest # <<>> /\ Head(rest) = Goal(st)
                        /\ Head(rest) \in {"mergeItems", "deleteCart"}
    OBVIOUS
  <2>2. s \in {MergeScript, DropSession} /\ m = 1 /\ Len(s) = 2
    BY <1>2, <2>1, Where
  <2>3. op = "merge"
    BY <1>3, <2>2, ScriptOps
  <2> QED BY <1>2, <2>2, <2>3, Spelled
<1>8. step = "hasItem" => op = "add" /\ rest = <<>> /\ Goal(st) = "hasItem"
  BY <1>2, <1>3, Where, ScriptOps
<1>9. step = "foundItem" =>
                /\ op = "remove" <=> Goal(st) = "destroyItem"
                /\ Goal(st) \in {"foundItem", "increment", "saveQuantity", "destroyItem"}
                /\ op \in {"getItem", "add", "update", "remove"}
                /\ rest # <<>> => Head(rest) \in {"value", "saveQuantity"}
  <2>1. SUFFICES ASSUME step = "foundItem"
                 PROVE /\ op = "remove" <=> Goal(st) = "destroyItem"
                       /\ Goal(st) \in {"foundItem", "increment", "saveQuantity", "destroyItem"}
                       /\ op \in {"getItem", "add", "update", "remove"}
                       /\ rest # <<>> => Head(rest) \in {"value", "saveQuantity"}
    OBVIOUS
  <2>2. \/ s = GetItemScript /\ m = 2 /\ Len(s) = 2
        \/ s = PresentScript /\ m = 3 /\ Len(s) = 5
        \/ s = UpdateScript /\ m = 2 /\ Len(s) = 3
        \/ s = RemoveScript /\ m = 2 /\ Len(s) = 6
    BY <1>2, <2>1, Where
  <2>3. CASE s = GetItemScript /\ m = 2 /\ Len(s) = 2
    BY <1>2, <1>3, <2>3, ScriptOps, Spelled
  <2>4. CASE s = PresentScript /\ m = 3 /\ Len(s) = 5
    BY <1>2, <1>3, <2>4, ScriptOps, Spelled
  <2>5. CASE s = UpdateScript /\ m = 2 /\ Len(s) = 3
    BY <1>2, <1>3, <2>5, ScriptOps, Spelled
  <2>6. CASE s = RemoveScript /\ m = 2 /\ Len(s) = 6
    BY <1>2, <1>3, <2>6, ScriptOps, Spelled
  <2> QED BY <2>2, <2>3, <2>4, <2>5, <2>6
<1>10. step = "increment" => op = "add" /\ rest = <<>> /\ Goal(st) = "increment"
  <2>1. ASSUME step = "increment" PROVE s = PresentScript /\ m = 5 /\ Len(s) = 5
    BY <1>2, <2>1, Where
  <2> QED BY <1>2, <1>3, <2>1, ScriptOps
<1>11. step = "saveItem" =>
                op = "add" /\ Goal(st) = "addItem" /\ rest # <<>>
                   /\ Head(rest) \in {"value", "addItem"}
  <2>1. SUFFICES ASSUME step = "saveItem"
                 PROVE  op = "add" /\ Goal(st) = "addItem" /\ rest # <<>>
                           /\ Head(rest) \in {"value", "addItem"}
    OBVIOUS
  <2>2. s = AbsentScript /\ m \in {2, 4, 6} /\ Len(s) = 7
    BY <1>2, <2>1, Where
  <2>3. op = "add"
    BY <1>3, <2>2, ScriptOps
  <2> QED BY <1>2, <2>2, <2>3, Spelled
<1>12. step = "saveQuantity" =>
                op \in {"add", "update"} /\ rest = <<>> /\ Goal(st) = "saveQuantity"
  BY <1>2, <1>3, Where, ScriptOps
<1>13. step = "addItem" => op = "add" /\ rest = <<>> /\ Goal(st) = "addItem"
  <2>1. ASSUME step = "addItem" PROVE s = AbsentScript /\ m = 7 /\ Len(s) = 7
    BY <1>2, <2>1, Where
  <2> QED BY <1>2, <1>3, <2>1, ScriptOps
<1>14. step = "removeItem" =>
                op = "remove" /\ rest # <<>> /\ Head(rest) = "destroyItem" /\ st.hand # <<>>
  <2>1. SUFFICES ASSUME step = "removeItem"
                 PROVE  op = "remove" /\ rest # <<>> /\ Head(rest) = "destroyItem" /\ st.hand # <<>>
    OBVIOUS
  <2>2. s = RemoveScript /\ m = 5 /\ Len(s) = 6
    BY <1>2, <2>1, Where
  <2>3. op = "remove" /\ rest # <<>> /\ Head(rest) = "destroyItem"
    BY <1>2, <1>3, <2>2, ScriptOps, Spelled
  <2>4. st.hand # <<>>
    BY <1>2, <2>2 DEF HandOK
  <2> QED BY <2>3, <2>4
<1>15. step = "destroyItem" => op = "remove" /\ rest = <<>> /\ st.hand # <<>>
  <2>1. SUFFICES ASSUME step = "destroyItem"
                 PROVE  op = "remove" /\ rest = <<>> /\ st.hand # <<>>
    OBVIOUS
  <2>2. s = RemoveScript /\ m = 6 /\ Len(s) = 6
    BY <1>2, <2>1, Where
  <2>3. op = "remove" /\ rest = <<>>
    BY <1>2, <1>3, <2>2, ScriptOps, Spelled
  <2>4. st.hand # <<>>
    BY <1>2, <2>2 DEF HandOK
  <2> QED BY <2>3, <2>4
<1>16. step = "deleteCart" => op \in {"delete", "merge"} /\ rest = <<>> /\ Goal(st) = "deleteCart"
  BY <1>2, <1>3, Where, ScriptOps
<1>17. step = "mergeItems" => op = "merge" /\ rest = <<>> /\ Goal(st) = "mergeItems"
  BY <1>2, <1>3, Where, ScriptOps
<1>18. step = "mergeItem" =>
                op = "merge" /\ rest = <<>> /\ Goal(st) = "mergeItem" /\ st.hand # <<>>
  <2>1. SUFFICES ASSUME step = "mergeItem"
                 PROVE  op = "merge" /\ rest = <<>> /\ Goal(st) = "mergeItem" /\ st.hand # <<>>
    OBVIOUS
  <2>2. s = MergeItemScript /\ m = 3 /\ Len(s) = 3
    BY <1>2, <2>1, Where
  <2>3. op = "merge" /\ rest = <<>> /\ Goal(st) = "mergeItem"
    BY <1>2, <1>3, <2>1, <2>2, ScriptOps
  <2>4. st.hand # <<>>
    BY <1>2, <2>2 DEF HandOK
  <2> QED BY <2>3, <2>4
<1> QED
  BY <1>5, <1>6, <1>7, <1>8, <1>9, <1>10, <1>11, <1>12, <1>13, <1>14, <1>15, <1>16, <1>17, <1>18
     DEF PhaseOK

\* The same for a thread about to take a step.
LEMMA PhaseOf ==
    ASSUME TypeInv, NEW w \in Workers, NEW step, Does(w, step), step # "create"
    PROVE  PhaseOK(step, worker[w].req.op, Tail(worker[w].todo), Goal(worker[w]), worker[w].hand)
<1>1. StateOK(worker[w]) /\ worker[w].req # None /\ Head(worker[w].todo) = step
  BY BusyStep
<1> QED BY <1>1, Phase

-----------------------------------------------------------------------------
(* Requests of one customer that never overlap, and reads from the primary: *)
(* a customer has one cart                                                  *)

\* w is handling a request, and is about to take one of these steps.
At(w, steps) == Busy(w) /\ Head(worker[w].todo) \in steps

\* The customer whose cart w uses.
Owner(w) ==
    IF worker[w].req.op = "merge" /\ Head(worker[w].todo) # "mergeItem"
    THEN worker[w].req.other
    ELSE worker[w].req.cust

\* No two carts have an id or a customer in common.
OneEach == \A d, e \in carts : d.id = e.id \/ d.cust = e.cust => d = e

\* The requests in progress name different customers.
Separate ==
    \A v, w \in Workers :
        v # w /\ Busy(v) /\ Busy(w) => Named(worker[v].req) \cap Named(worker[w].req) = {}

\* A handler that creates a cart has seen none, and there is none still.
Creating(w) ==
    At(w, {"create"}) =>
        /\ worker[w].cart.cust \in Named(worker[w].req)
        /\ \A d \in carts : d.cust # worker[w].cart.cust

\* A handler that uses the cart it has read finds it in the collection.
HoldsCart(w) ==
    At(w, LoadedSteps) =>
        \E d \in carts : /\ d.id = worker[w].cart.id
                         /\ d.cust = worker[w].cart.cust /\ d.cust = Owner(w)

OneCartInv ==
    /\ TypeInv
    /\ lagging = <<>>
    /\ OneEach
    /\ \A d \in carts : d.id < nextId
    /\ Separate
    /\ \A w \in Workers : Creating(w) /\ HoldsCart(w)

\* What a step of w does to the carts when it creates none: nothing, or the
\* cart it holds is replaced or deleted.
CartsChange(w) ==
    \/ carts' = carts
    \/ \E old \in carts :
           /\ old.id = worker[w].cart.id /\ old.cust = Owner(w)
           /\ \/ carts' = carts \ {old}
              \/ \E doc : /\ doc.id = old.id /\ doc.cust = old.cust
                          /\ carts' = (carts \ {old}) \cup {doc}

\* A thread works on a cart of the customer, or of the session, that its
\* request names.
LEMMA NamedCustomers ==
    ASSUME TypeInv, NEW w \in Workers, Busy(w)
    PROVE  /\ worker[w].req \in Requests /\ worker[w].req.op \in OpNames
           /\ worker[w].req.cust \in Named(worker[w].req)
           /\ worker[w].req.op = "merge" => worker[w].req.other \in Named(worker[w].req)
           /\ Owner(w) \in Named(worker[w].req)
           /\ Named(worker[w].req) \subseteq Customers
<1>1. worker[w].req \in Requests
  BY AtStep DEF TypeInv, Busy
<1> QED BY <1>1, RequestOps, CartsAssumption DEF Named, Owner

\* What a thread is after a step, and that the other threads are what they
\* were.
LEMMA Continued ==
    ASSUME TypeInv, NEW w \in Workers, NEW new, Continue(w, new)
    PROVE  /\ worker'[w] = IF new.todo = <<>> THEN Free ELSE new
           /\ \A v \in Workers \ {w} : worker'[v] = worker[v]
           /\ Busy(w)' => worker'[w] = new /\ new.todo # <<>>
  BY DEF Continue, TypeInv, Busy, Free

\* A step leaves the other threads alone, and w with the request it had, if any.
OwnStep(w) ==
    /\ \A v \in Workers \ {w} : worker'[v] = worker[v]
    /\ Busy(w)' => worker'[w].req = worker[w].req

\* A step of a handler is a step of one busy thread.
LEMMA OneThread ==
    ASSUME TypeInv, NEW w \in Workers, Handle(w) \/ Abort(w)
    PROVE  Busy(w) /\ OwnStep(w)
<1> DEFINE st == worker[w]
<1>1. st \in WorkerState /\ worker \in [Workers -> WorkerState]
  BY DEF TypeInv, StateOK
<1>2. Busy(w)
  <2>1. CASE Abort(w)
    BY <2>1 DEF Abort
  <2>2. CASE Handle(w)
    <3>1. st.todo # <<>>
      BY <2>2 DEF Handle, Find, Create, HasItem, FindItem, Increment, SaveItem, SaveQuantity,
         AddItem, RemoveItem, DestroyItem, DeleteCart, MergeItems, MergeItem, Does
    <3> QED BY <3>1 DEF TypeInv, StateOK, Free, Busy
  <2> QED BY <2>1, <2>2
<1> SUFFICES OwnStep(w)
  BY <1>2
<1>3. Fail(w) => OwnStep(w)
  BY <1>1 DEF Fail, Busy, Free, OwnStep
<1>4. \A new : new.req = st.req /\ Continue(w, new) => OwnStep(w)
  BY Continued DEF OwnStep
<1>5. ASSUME NEW cart, NEW hand, Step(w, cart, hand) PROVE OwnStep(w)
  <2> DEFINE new == [st EXCEPT !.todo = Tail(@), !.cart = cart, !.hand = hand]
  <2>1. Continue(w, new) /\ new.req = st.req
    BY <1>1, <1>5 DEF Step, WorkerState
  <2> HIDE DEF new
  <2> QED BY <1>4, <2>1
<1>6. CASE Find(w)
  <2>1. ASSUME NEW c, Continue(w, [st EXCEPT !.todo = <<"create">> \o @,
                                             !.cart = [id |-> 0, cust |-> c, items |-> <<>>]])
        PROVE  OwnStep(w)
    <3> DEFINE new == [st EXCEPT !.todo = <<"create">> \o @,
                                 !.cart = [id |-> 0, cust |-> c, items |-> <<>>]]
    <3>1. Continue(w, new) /\ new.req = st.req
      BY <1>1, <2>1 DEF WorkerState
    <3> HIDE DEF new
    <3> QED BY <1>4, <3>1
  <2>2. PICK c : \/ \E d \in CartsOf(c, View.carts) : Step(w, Load(d), st.hand)
                 \/ Continue(w, [st EXCEPT !.todo = <<"create">> \o @,
                                           !.cart = [id |-> 0, cust |-> c, items |-> <<>>]])
    BY <1>6 DEF Find
  <2> QED BY <1>5, <2>1, <2>2
<1>7. CASE HasItem(w)
  <2> DEFINE new == [st EXCEPT !.todo = IF Wanted(w) # {} THEN PresentScript ELSE AbsentScript]
  <2>1. Continue(w, new) /\ new.req = st.req
    BY <1>1, <1>7 DEF HasItem, WorkerState
  <2> HIDE DEF new
  <2> QED BY <1>4, <2>1
<1>8. CASE Increment(w)
  <2> DEFINE new == [st EXCEPT !.todo = UpdateScript, !.qty = st.cart.items[FirstWanted(w)].qty + 1]
  <2>1. new.req = st.req /\ (Fail(w) \/ Continue(w, new))
    BY <1>1, <1>8 DEF Increment, WorkerState
  <2> HIDE DEF new
  <2> QED BY <1>3, <1>4, <2>1
<1>9. CASE MergeItems(w)
  <2> DEFINE new == [st EXCEPT !.todo = MergeRest(st.cart.items), !.hand = st.cart.items]
  <2>1. Continue(w, new) /\ new.req = st.req
    BY <1>1, <1>9 DEF MergeItems, WorkerState
  <2> HIDE DEF new
  <2> QED BY <1>4, <2>1
<1>10. CASE MergeItem(w)
  <2> DEFINE new == [st EXCEPT !.todo = MergeRest(Tail(st.hand)), !.hand = Tail(st.hand)]
  <2>1. Continue(w, new) /\ new.req = st.req
    BY <1>1, <1>10 DEF MergeItem, WorkerState
  <2> HIDE DEF new
  <2> QED BY <1>4, <2>1
<1>11. CASE FindItem(w)
  BY <1>3, <1>5, <1>11 DEF FindItem
<1>12. CASE Abort(w)
  BY <1>3, <1>12 DEF Abort
<1>13. CASE Create(w)
  BY <1>5, <1>13 DEF Create
<1>14. CASE SaveItem(w)
  BY <1>5, <1>14 DEF SaveItem
<1>15. CASE \/ SaveQuantity(w) \/ AddItem(w) \/ RemoveItem(w) \/ DestroyItem(w) \/ DeleteCart(w)
  BY <1>5, <1>15 DEF SaveQuantity, AddItem, RemoveItem, DestroyItem, DeleteCart
<1> QED
  BY <1>6, <1>7, <1>8, <1>9, <1>10, <1>11, <1>12, <1>13, <1>14, <1>15 DEF Handle

\* With no lag there is nothing left to show after a write.
LEMMA NoLag ==
    ASSUME MaxLag = 0, lagging = <<>>, NEW newCarts, NEW newItems, Write(newCarts, newItems)
    PROVE  lagging' = <<>> /\ carts' = newCarts /\ items' = newItems
<1>1. lagging' = LET l == Append(lagging, [carts |-> carts, items |-> items])
                 IN  IF Len(l) > MaxLag THEN Tail(l) ELSE l
  BY DEF Write
<1> DEFINE l == Append(lagging, [carts |-> carts, items |-> items])
<1>2. l = <<[carts |-> carts, items |-> items]>>
  OBVIOUS
<1>3. Len(l) = 1 /\ Tail(l) = <<>>
  BY <1>2
<1> HIDE DEF l
<1>4. lagging' = IF Len(l) > MaxLag THEN Tail(l) ELSE l
  BY <1>1 DEF l
<1> QED BY <1>3, <1>4 DEF Write

\* The ids of the items of a cart object.
RefsOf(its) == [k \in 1..Len(its) |-> its[k].id]

\* With nothing lagging, a save replaces one document, the thread's, and no
\* other.
LEMMA SavedCart ==
    ASSUME MaxLag = 0, OneCartInv, NEW w \in Workers, At(w, LoadedSteps),
           NEW newItems, SaveWith(w, newItems)
    PROVE  /\ lagging' = <<>> /\ items' = items
           /\ \E old \in carts : \E doc :
                  /\ old.id = worker[w].cart.id /\ old.cust = worker[w].cart.cust
                  /\ old.cust = Owner(w)
                  /\ doc = [id |-> old.id, cust |-> old.cust, refs |-> RefsOf(newItems)]
                  /\ carts' = (carts \ {old}) \cup {doc}
<1> DEFINE cart == [worker[w].cart EXCEPT !.items = newItems]
           doc == [id |-> cart.id, cust |-> cart.cust, refs |-> Refs(cart)]
<1>1. Write(SaveDoc(cart, carts), items)
  BY DEF SaveWith
<1>2. lagging' = <<>> /\ items' = items /\ carts' = {d \in carts : d.id # cart.id} \cup {doc}
  BY <1>1, NoLag DEF OneCartInv, SaveDoc, Upsert
<1>3. PICK old \in carts : /\ old.id = worker[w].cart.id /\ old.cust = worker[w].cart.cust
                           /\ old.cust = Owner(w)
  BY DEF OneCartInv, HoldsCart
<1>4. cart.id = old.id /\ cart.cust = old.cust /\ cart.items = newItems
  BY <1>3 DEF OneCartInv, TypeInv, StateOK, WorkerState, CartObject
<1>5. doc = [id |-> old.id, cust |-> old.cust, refs |-> RefsOf(newItems)]
  BY <1>4 DEF Refs, RefsOf
<1> HIDE DEF doc, cart
<1>6. carts' = (carts \ {old}) \cup {doc}
  BY <1>2, <1>3, <1>4 DEF OneCartInv, OneEach
<1> QED BY <1>2, <1>3, <1>5, <1>6

\* The step of one handler does not disturb the carts of the others.
LEMMA OneCartKept ==
    ASSUME OneCartInv, TypeInv', NEW w \in Workers, Handle(w) \/ Abort(w),
           lagging' = <<>>, nextId' \in {nextId, nextId + 1}, CartsChange(w),
           Creating(w)', HoldsCart(w)'
    PROVE  OneCartInv'
<1>1. /\ Busy(w)
      /\ \A v \in Workers \ {w} : worker'[v] = worker[v]
      /\ Busy(w)' => worker'[w].req = worker[w].req
  BY OneThread DEF OneCartInv, OwnStep
<1>2. /\ \A d \in carts' : \E e \in carts : d.id = e.id /\ d.cust = e.cust
      /\ OneEach'
      /\ \A d \in carts : d.cust # Owner(w) => d \in carts'
  BY DEF CartsChange, OneCartInv, OneEach
<1>3. \A d \in carts' : d.id < nextId'
  <2>1. nextId \in Nat /\ carts \subseteq CartDoc /\ \A d \in carts : d.id \in Nat /\ d.id < nextId
    BY DEF OneCartInv, TypeInv, StoreInv, CartDoc
  <2> QED BY <1>2, <2>1
<1>4. Separate'
  BY <1>1 DEF OneCartInv, Separate, Busy
<1>5. ASSUME NEW v \in Workers, v # w
      PROVE  Creating(v)' /\ HoldsCart(v)'
  <2>1. worker'[v] = worker[v] /\ (Busy(v)' <=> Busy(v))
    BY <1>1, <1>5 DEF Busy
  <2>2. Creating(v) /\ HoldsCart(v)
    BY DEF OneCartInv
  <2>3. Creating(v)'
    BY <1>2, <2>1, <2>2 DEF Creating, At
  <2>4. HoldsCart(v)'
    <3>1. SUFFICES ASSUME At(v, LoadedSteps)
                   PROVE  \E d \in carts' : /\ d.id = worker[v].cart.id
                                            /\ d.cust = worker[v].cart.cust /\ d.cust = Owner(v)
      BY <2>1 DEF HoldsCart, At, Owner
    <3>2. PICK d \in carts : /\ d.id = worker[v].cart.id
                             /\ d.cust = worker[v].cart.cust /\ d.cust = Owner(v)
      BY <2>2, <3>1 DEF HoldsCart
    <3>3. Owner(v) \in Named(worker[v].req) /\ Owner(w) \in Named(worker[w].req)
      BY <1>1, <3>1, NamedCustomers DEF OneCartInv, At
    <3>4. Owner(v) # Owner(w)
      BY <1>1, <1>5, <3>1, <3>3 DEF OneCartInv, Separate, At
    <3> QED BY <1>2, <3>2, <3>4
  <2> QED BY <2>3, <2>4
<1> QED BY <1>2, <1>3, <1>4, <1>5 DEF OneCartInv

\* A step of a handler other than a creation changes at most the document its
\* thread holds.
LEMMA StoreStep ==
    ASSUME MaxLag = 0, OneCartInv, NEW w \in Workers, Handle(w) \/ Abort(w), ~Create(w)
    PROVE  lagging' = <<>> /\ nextId' \in {nextId, nextId + 1} /\ CartsChange(w)
<1>1. TypeInv /\ lagging = <<>> /\ Busy(w)
  BY OneThread DEF OneCartInv
<1>2. ASSUME NEW step \in LoadedSteps, Does(w, step) PROVE At(w, LoadedSteps)
  BY <1>1, <1>2 DEF Does, At
<1>3. CASE Find(w) \/ HasItem(w) \/ FindItem(w) \/ Increment(w) \/ MergeItems(w) \/ Abort(w)
  BY <1>1, <1>3
     DEF Find, HasItem, FindItem, Increment, MergeItems, Abort, store, CartsChange
<1>4. CASE SaveItem(w) \/ SaveQuantity(w) \/ DestroyItem(w)
  <2>1. \E newItems : Write(carts, newItems)
    BY <1>4 DEF SaveItem, SaveQuantity, DestroyItem
  <2>2. nextId' \in {nextId, nextId + 1}
    BY <1>4 DEF SaveItem, SaveQuantity, DestroyItem
  <2> QED BY <1>1, <2>1, <2>2, NoLag DEF CartsChange
<1>5. CASE DeleteCart(w)
  <2>1. Write({d \in carts : d.id # worker[w].cart.id}, items) /\ nextId' = nextId
    BY <1>5 DEF DeleteCart
  <2>2. PICK old \in carts : old.id = worker[w].cart.id /\ old.cust = Owner(w)
    BY <1>2, <1>5 DEF DeleteCart, LoadedSteps, OneCartInv, HoldsCart
  <2>3. carts' = carts \ {old} /\ lagging' = <<>>
    BY <1>1, <2>1, <2>2, NoLag DEF OneCartInv, OneEach
  <2> QED BY <2>1, <2>2, <2>3 DEF CartsChange
<1>6. CASE AddItem(w) \/ RemoveItem(w) \/ MergeItem(w)
  <2>1. At(w, LoadedSteps)
    BY <1>2, <1>6 DEF AddItem, RemoveItem, MergeItem, LoadedSteps
  <2>2. \E newItems : SaveWith(w, newItems)
    BY <1>6 DEF AddItem, RemoveItem, MergeItem
  <2>3. PICK newItems : SaveWith(w, newItems)
    BY <2>2
  <2>4. /\ lagging' = <<>>
        /\ \E old \in carts : \E doc :
                  /\ old.id = worker[w].cart.id /\ old.cust = Owner(w)
                  /\ doc = [id |-> old.id, cust |-> old.cust, refs |-> RefsOf(newItems)]
                  /\ carts' = (carts \ {old}) \cup {doc}
    BY <2>1, <2>3, SavedCart
  <2>5. \E old \in carts : \E doc :
                  /\ old.id = worker[w].cart.id /\ old.cust = Owner(w)
                  /\ doc.id = old.id /\ doc.cust = old.cust
                  /\ carts' = (carts \ {old}) \cup {doc}
    BY <2>4
  <2>6. nextId' = nextId
    BY <1>6 DEF AddItem, RemoveItem, MergeItem
  <2> QED BY <2>4, <2>5, <2>6 DEF CartsChange
<1> QED BY <1>3, <1>4, <1>5, <1>6 DEF Handle

\* A handler about to look a cart up, or to save or destroy an item, holds none.
LEMMA HoldsNone ==
    ASSUME NEW w \in Workers, Busy(w)' => Head(worker'[w].todo) \notin LoadedSteps \cup {"create"}
    PROVE  Creating(w)' /\ HoldsCart(w)'
  BY DEF Creating, HoldsCart, At, Busy

\* The state a step leaves: the rest of the script, or a free thread.
LEMMA Stepped ==
    ASSUME TypeInv, NEW w \in Workers, NEW cart, NEW hand, Step(w, cart, hand)
    PROVE  /\ \A v \in Workers \ {w} : worker'[v] = worker[v]
           /\ Tail(worker[w].todo) = <<>> => worker'[w] = Free /\ ~Busy(w)'
           /\ Tail(worker[w].todo) # <<>> =>
                /\ worker'[w].todo = Tail(worker[w].todo)
                /\ worker'[w].cart = cart /\ worker'[w].hand = hand
                /\ worker'[w].req = worker[w].req /\ worker'[w].qty = worker[w].qty
<1> DEFINE new == [worker[w] EXCEPT !.todo = Tail(@), !.cart = cart, !.hand = hand]
<1>1. /\ Continue(w, new) /\ new.todo = Tail(worker[w].todo) /\ new.cart = cart
      /\ new.hand = hand /\ new.req = worker[w].req /\ new.qty = worker[w].qty
  BY DEF Step, TypeInv, StateOK, WorkerState
<1> HIDE DEF new
<1> QED BY <1>1, Continued DEF Busy, Free

\* The same for a step that starts another script.
LEMMA Entered ==
    ASSUME TypeInv, NEW w \in Workers, NEW new, Continue(w, new), new.todo # <<>>
    PROVE  worker'[w] = new /\ \A v \in Workers \ {w} : worker'[v] = worker[v]
  BY Continued

\* After an exception the thread is free.
LEMMA Failed ==
    ASSUME TypeInv, NEW w \in Workers, Fail(w)
    PROVE  ~Busy(w)' /\ worker'[w] = Free
  BY DEF Fail, TypeInv, Busy, Free

\* Both ends of what is left of a merge.
LEMMA MergeRestHead ==
    ASSUME NEW hand
    PROVE  /\ MergeRest(hand) # <<>>
           /\ Head(MergeRest(hand)) \in {"session", "value"}
           /\ MergeRest(hand)[Len(MergeRest(hand))]
                    = IF hand = <<>> THEN "deleteCart" ELSE "mergeItem"
<1>1. MergeRest(hand) = IF hand = <<>> THEN <<"session", "deleteCart">>
                        ELSE <<"value", "value", "mergeItem">>
  BY DEF MergeRest, DropSession
<1>2. CASE hand = <<>>
  BY <1>1, <1>2
<1>3. CASE hand # <<>>
  BY <1>1, <1>3
<1> QED BY <1>2, <1>3

\* After a look-up the thread holds a cart that exists, or creates one where
\* there is none.
LEMMA FindOneCart ==
    ASSUME OneCartInv, NEW w \in Workers, Find(w)
    PROVE  Creating(w)' /\ HoldsCart(w)'
<1> DEFINE st == worker[w]
<1>0. PICK c : c = IF Does(w, "value") THEN st.req.cust ELSE st.req.other
  OBVIOUS
<1>1. PICK step \in {"value", "session"} : Does(w, step) /\ c = Target(st.req, step)
  BY <1>0 DEF Find, Does, Target
<1>2. StateOK(st) /\ st.req # None /\ Head(st.todo) = step /\ Head(st.todo) # "create"
  BY <1>1, BusyStep DEF OneCartInv
<1>3. PICK rest : rest = Tail(st.todo)
  OBVIOUS
<1>4. /\ step = "value" => st.req.op # "merge" \/ Head(rest) \in {"value", "mergeItem"}
      /\ step = "value" /\ rest # <<>> => Head(rest) \notin {"create", "session", "mergeItems"}
      /\ step = "session" =>
             st.req.op = "merge" /\ rest # <<>> /\ Head(rest) \in {"mergeItems", "deleteCart"}
  BY <1>1, <1>3, PhaseOf DEF PhaseOK, Unread, OneCartInv
<1>5. TypeInv /\ Busy(w) /\ View.carts = carts /\ carts' = carts /\ st \in WorkerState
  BY <1>2 DEF OneCartInv, View, Find, store, Busy, TypeInv, StateOK
<1>6. c \in Named(st.req)
  BY <1>1, <1>4, <1>5, NamedCustomers DEF Target
<1>7. CASE \E d \in CartsOf(c, View.carts) : Step(w, Load(d), st.hand)
  <2>1. PICK d \in CartsOf(c, View.carts) : Step(w, Load(d), st.hand)
    BY <1>7
  <2>2. d \in carts' /\ Load(d).id = d.id /\ Load(d).cust = d.cust /\ d.cust = c
    BY <1>5 DEF Load, CartsOf
  <2>3. /\ rest = <<>> => ~Busy(w)'
        /\ rest # <<>> => /\ worker'[w].todo = rest /\ worker'[w].cart = Load(d)
                          /\ worker'[w].req = st.req
    BY <1>3, <1>5, <2>1, Stepped
  <2>4. Creating(w)'
    BY <1>4, <2>3 DEF Creating, At
  <2>5. ASSUME rest # <<>>, Head(rest) \in LoadedSteps PROVE Owner(w)' = c
    <3>1. CASE step = "value"
      <4>1. st.req.op = "merge" => Head(rest) = "mergeItem"
        BY <1>4, <2>5, <3>1 DEF LoadedSteps
      <4> QED BY <1>1, <2>3, <2>5, <3>1, <4>1 DEF Owner, Target
    <3>2. CASE step = "session"
      BY <1>1, <1>4, <2>3, <3>2 DEF Owner, Target
    <3> QED BY <3>1, <3>2
  <2>6. HoldsCart(w)'
    BY <2>2, <2>3, <2>5 DEF HoldsCart, At
  <2> QED BY <2>4, <2>6
<1>8. CASE /\ CartsOf(c, View.carts) = {}
           /\ Continue(w, [st EXCEPT !.todo = <<"create">> \o @,
                                     !.cart = [id |-> 0, cust |-> c, items |-> <<>>]])
  <2> DEFINE new == [st EXCEPT !.todo = <<"create">> \o @,
                               !.cart = [id |-> 0, cust |-> c, items |-> <<>>]]
  <2>1. Continue(w, new) /\ new.cart.cust = c /\ new.req = st.req
        /\ new.todo # <<>> /\ Head(new.todo) = "create"
    BY <1>5, <1>8 DEF WorkerState
  <2> HIDE DEF new
  <2>2. worker'[w] = new
    BY <1>5, <2>1, Entered
  <2>3. \A d \in carts' : d.cust # c
    BY <1>5, <1>8 DEF CartsOf
  <2> QED BY <1>6, <2>1, <2>2, <2>3 DEF Creating, HoldsCart, At, LoadedSteps
<1> QED BY <1>0, <1>7, <1>8 DEF Find

\* After every other step too.
LEMMA ThreadOneCart ==
    ASSUME OneCartInv, NEW w \in Workers, Handle(w) \/ Abort(w), ~Create(w),
           MaxLag = 0
    PROVE  Creating(w)' /\ HoldsCart(w)'
<1> DEFINE st == worker[w]
           calm == Busy(w)' => Head(worker'[w].todo) \notin LoadedSteps \cup {"create"}
<1>1. TypeInv /\ Busy(w) /\ StateOK(st) /\ st.req # None /\ st \in WorkerState
  BY OneThread DEF OneCartInv, TypeInv, StateOK, Busy
<1>2. PICK rest : rest = Tail(st.todo)
  OBVIOUS
<1>3. CASE Find(w)
  BY <1>3, FindOneCart
<1>4. CASE SaveItem(w)
  <2>1. Does(w, "saveItem")
    BY <1>4 DEF SaveItem
  <2>2. /\ st.req.op = "add" /\ rest # <<>> /\ Head(rest) \in {"value", "addItem"}
    BY <1>1, <1>2, <2>1, PhaseOf DEF PhaseOK
  <2>3. PICK hand : Step(w, st.cart, hand)
    BY <1>4 DEF SaveItem
  <2>4. worker'[w].todo = rest /\ worker'[w].cart = st.cart /\ worker'[w].req = st.req
    BY <1>1, <1>2, <2>2, <2>3, Stepped
  <2>5. carts' = carts
    <3>1. \E newItems : Write(carts, newItems)
      BY <1>4 DEF SaveItem
    <3> QED BY <3>1, NoLag DEF OneCartInv
  <2>6. \E d \in carts : d.id = st.cart.id /\ d.cust = st.cart.cust /\ d.cust = Owner(w)
    BY <1>1, <2>1 DEF OneCartInv, HoldsCart, At, Does, LoadedSteps
  <2>7. Owner(w)' = Owner(w)
    BY <2>2, <2>4 DEF Owner
  <2> QED BY <2>2, <2>4, <2>5, <2>6, <2>7 DEF Creating, HoldsCart, At
<1>5. CASE HasItem(w)
  <2> DEFINE todo == IF Wanted(w) # {} THEN PresentScript ELSE AbsentScript
             new == [st EXCEPT !.todo = todo]
  <2>1. todo # <<>> /\ Head(todo) = "value"
    BY Spelled
  <2> HIDE DEF todo
  <2>2. Continue(w, new) /\ new.todo = todo
    BY <1>1, <1>5 DEF HasItem, WorkerState, todo
  <2> HIDE DEF new
  <2>3. calm
    BY <1>1, <2>1, <2>2, Entered DEF LoadedSteps
  <2> QED BY <2>3, HoldsNone
<1>6. CASE FindItem(w)
  <2>1. rest # <<>> => Head(rest) \in {"value", "saveQuantity"}
    BY <1>1, <1>2, <1>6, PhaseOf DEF FindItem, PhaseOK
  <2>2. Fail(w) \/ \E cart, hand : Step(w, cart, hand)
    BY <1>6 DEF FindItem
  <2>3. calm
    BY <1>1, <1>2, <2>1, <2>2, Stepped, Failed DEF LoadedSteps
  <2> QED BY <2>3, HoldsNone
<1>7. CASE Increment(w)
  <2> DEFINE new == [st EXCEPT !.todo = UpdateScript, !.qty = st.cart.items[FirstWanted(w)].qty + 1]
  <2>1. new.todo = UpdateScript /\ (Fail(w) \/ Continue(w, new))
    BY <1>1, <1>7 DEF Increment, WorkerState
  <2> HIDE DEF new
  <2>2. UpdateScript # <<>> /\ Head(UpdateScript) = "value"
    BY Spelled
  <2>3. calm
    BY <1>1, <2>1, <2>2, Entered, Failed DEF LoadedSteps
  <2> QED BY <2>3, HoldsNone
<1>8. CASE MergeItems(w)
  <2> DEFINE new == [st EXCEPT !.todo = MergeRest(st.cart.items), !.hand = st.cart.items]
  <2>1. new.todo = MergeRest(st.cart.items) /\ Continue(w, new)
    BY <1>1, <1>8 DEF MergeItems, WorkerState
  <2> HIDE DEF new
  <2>2. calm
    BY <1>1, <2>1, MergeRestHead, Entered DEF LoadedSteps
  <2> QED BY <2>2, HoldsNone
<1>9. CASE MergeItem(w)
  <2> DEFINE new == [st EXCEPT !.todo = MergeRest(Tail(st.hand)), !.hand = Tail(st.hand)]
  <2>1. new.todo = MergeRest(Tail(st.hand)) /\ Continue(w, new)
    BY <1>1, <1>9 DEF MergeItem, WorkerState
  <2> HIDE DEF new
  <2>2. calm
    BY <1>1, <2>1, MergeRestHead, Entered DEF LoadedSteps
  <2> QED BY <2>2, HoldsNone
<1>10. CASE Abort(w)
  <2>1. calm
    BY <1>1, <1>10, Failed DEF Abort
  <2> QED BY <2>1, HoldsNone
<1>11. CASE RemoveItem(w)
  <2>1. rest # <<>> /\ Head(rest) = "destroyItem"
    BY <1>1, <1>2, <1>11, PhaseOf DEF RemoveItem, PhaseOK
  <2>2. \E cart, hand : Step(w, cart, hand)
    BY <1>11 DEF RemoveItem
  <2>3. calm
    BY <1>1, <1>2, <2>1, <2>2, Stepped DEF LoadedSteps
  <2> QED BY <2>3, HoldsNone
<1>12. CASE SaveQuantity(w) \/ AddItem(w) \/ DestroyItem(w) \/ DeleteCart(w)
  <2>1. PICK step \in {"saveQuantity", "addItem", "destroyItem", "deleteCart"} : Does(w, step)
    BY <1>12 DEF SaveQuantity, AddItem, DestroyItem, DeleteCart
  <2>2. rest = <<>>
    BY <1>1, <1>2, <2>1, PhaseOf DEF PhaseOK
  <2>3. \E cart, hand : Step(w, cart, hand)
    BY <1>12 DEF SaveQuantity, AddItem, DestroyItem, DeleteCart
  <2>4. calm
    BY <1>1, <1>2, <2>2, <2>3, Stepped
  <2> QED BY <2>4, HoldsNone
<1> QED
  BY <1>3, <1>4, <1>5, <1>6, <1>7, <1>8, <1>9, <1>10, <1>11, <1>12 DEF Handle

\* A creation adds the only cart of its customer.
LEMMA CreateOneCart ==
    ASSUME MaxLag = 0, OneCartInv, TypeInv', NEW w \in Workers, Create(w)
    PROVE  OneCartInv'
<1> DEFINE st == worker[w]
           cart == [st.cart EXCEPT !.id = nextId]
           doc == [id |-> cart.id, cust |-> cart.cust, refs |-> Refs(cart)]
<1>1. /\ TypeInv /\ Busy(w) /\ StateOK(st) /\ st.req # None /\ Head(st.todo) = "create"
      /\ st \in WorkerState /\ nextId \in Nat
  BY BusyStep DEF OneCartInv, Create, Busy, TypeInv, StateOK, StoreInv
<1>2. /\ st.cart.cust \in Named(st.req)
      /\ \A d \in carts : d.cust # st.cart.cust
  BY <1>1 DEF OneCartInv, Creating, At
<1>3. cart.id = nextId /\ cart.cust = st.cart.cust
  BY <1>1 DEF WorkerState, CartObject
<1>4. Write(SaveDoc(cart, carts), items) /\ nextId' = nextId + 1
  BY DEF Create
<1>5. lagging' = <<>> /\ carts' = {d \in carts : d.id # doc.id} \cup {doc}
  BY <1>4, NoLag DEF OneCartInv, SaveDoc, Upsert
<1>6. doc.id = nextId /\ doc.cust = st.cart.cust
  BY <1>3
<1> HIDE DEF doc, cart
<1>7. carts' = carts \cup {doc} /\ \A d \in carts : d.id \in Nat /\ d.id < nextId
  BY <1>1, <1>5, <1>6 DEF OneCartInv, TypeInv, StoreInv, CartDoc
<1>8. OneEach' /\ \A d \in carts' : d.id < nextId'
  BY <1>1, <1>2, <1>4, <1>6, <1>7 DEF OneCartInv, OneEach
<1>9. \A v \in Workers \ {w} : worker'[v] = worker[v]
  BY <1>1, Stepped DEF Create
<1>10. Busy(w)' => worker'[w].req = st.req
  BY <1>1, OneThread DEF Handle, OwnStep
<1>11. Separate'
  BY <1>1, <1>9, <1>10 DEF OneCartInv, Separate, Busy
<1>12. Creating(w)' /\ HoldsCart(w)'
  <2>1. PICK s \in Scripts(st.req.op) : Follows(st, s)
    BY <1>1 DEF StateOK
  <2>2. Tail(st.todo) # <<>> /\ Head(Tail(st.todo)) \in {"value", "session"}
    BY <1>1, <2>1 DEF Follows, Remaining
  <2>3. Busy(w)' => Head(worker'[w].todo) \notin LoadedSteps \cup {"create"}
    BY <1>1, <2>2, Stepped DEF Create, LoadedSteps
  <2> QED BY <2>3, HoldsNone
<1>13. ASSUME NEW v \in Workers, v # w
       PROVE  Creating(v)' /\ HoldsCart(v)'
  <2>1. worker'[v] = worker[v] /\ (Busy(v)' <=> Busy(v))
    BY <1>9, <1>13 DEF Busy
  <2>2. Creating(v) /\ HoldsCart(v)
    BY DEF OneCartInv
  <2>3. Busy(v) => Named(worker[v].req) \cap Named(st.req) = {}
    BY <1>1, <1>13 DEF OneCartInv, Separate
  <2>4. Creating(v)'
    BY <1>2, <1>6, <1>7, <2>1, <2>2, <2>3 DEF Creating, At
  <2>5. HoldsCart(v)'
    BY <1>7, <2>1, <2>2 DEF HoldsCart, At, Owner
  <2> QED BY <2>4, <2>5
<1> QED BY <1>5, <1>8, <1>11, <1>12, <1>13 DEF OneCartInv

\* A request that comes in when no other names its customers holds nothing
\* yet.
LEMMA ReceiveOneCart ==
    ASSUME Serial, OneCartInv, TypeInv', NEW w \in Workers, NEW req \in Requests, Receive(w, req)
    PROVE  OneCartInv'
<1>1. /\ UNCHANGED <<carts, lagging, nextId>> /\ TypeInv /\ ~Busy(w)
      /\ \A v \in Workers : Busy(v) => Named(worker[v].req) \cap Named(req) = {}
  BY DEF Receive, store, OneCartInv
<1>2. /\ worker'[w].req = req /\ worker'[w].todo = Script(req.op)
      /\ \A v \in Workers \ {w} : worker'[v] = worker[v]
  BY DEF Receive, OneCartInv, TypeInv
<1>3. Head(Script(req.op)) \in {"value", "session"}
  BY RequestOps, Spelled DEF Script, OpNames
<1>4. Creating(w)' /\ HoldsCart(w)'
  <2>1. Busy(w)' => Head(worker'[w].todo) \notin LoadedSteps \cup {"create"}
    BY <1>2, <1>3 DEF LoadedSteps
  <2> QED BY <2>1, HoldsNone
<1>5. \A v \in Workers \ {w} : Creating(v)' /\ HoldsCart(v)'
  BY <1>1, <1>2 DEF OneCartInv, Creating, HoldsCart, At, Owner, Busy
<1>6. Separate'
  BY <1>1, <1>2 DEF OneCartInv, Separate, Busy
<1> QED BY <1>1, <1>4, <1>5, <1>6 DEF OneCartInv, OneEach

\* At the start there are no carts.
LEMMA OneCartInit ==
    ASSUME Init
    PROVE  OneCartInv
<1>1. \A w \in Workers : ~Busy(w)
  BY DEF Init, Busy, Free
<1>2. carts = {} /\ lagging = <<>>
  BY DEF Init
<1> QED
  BY <1>1, <1>2, InitType DEF OneCartInv, OneEach, Separate, Creating, HoldsCart, At

\* Every step keeps a customer's cart the only one.
LEMMA OneCartStep ==
    ASSUME Serial, MaxLag = 0, OneCartInv, [Next]_vars
    PROVE  OneCartInv'
<1>1. TypeInv'
  BY TypeStep DEF OneCartInv
<1>2. ASSUME NEW w \in Workers, Handle(w) \/ Abort(w) PROVE OneCartInv'
  <2>1. CASE Create(w)
    BY <1>1, <2>1, CreateOneCart
  <2>2. CASE ~Create(w)
    BY <1>1, <1>2, <2>2, StoreStep, ThreadOneCart, OneCartKept
  <2> QED BY <2>1, <2>2
<1>3. ASSUME NEW w \in Workers, NEW req \in Requests, Receive(w, req) PROVE OneCartInv'
  BY <1>1, <1>3, ReceiveOneCart
<1>4. CASE UNCHANGED vars \/ Quiesce
  <2>1. UNCHANGED <<carts, lagging, nextId, worker>>
    BY <1>4 DEF Quiesce, vars
  <2> QED
    BY <1>1, <2>1 DEF OneCartInv, OneEach, Separate, Creating, HoldsCart, At, Owner, Busy
<1>5. CASE CatchUp
  BY <1>5 DEF CatchUp, OneCartInv
<1> QED BY <1>2, <1>3, <1>4, <1>5 DEF Next

\* Two carts of one customer would be one.
LEMMA OneCartSize ==
    ASSUME OneCartInv
    PROVE  OneCart
<1>1. ASSUME NEW c \in Customers PROVE Cardinality(CartsOf(c, carts)) <= 1
  <2>1. CASE CartsOf(c, carts) = {}
    BY <2>1, FS_EmptySet
  <2>2. CASE CartsOf(c, carts) # {}
    <3>1. PICK d \in CartsOf(c, carts) : TRUE
      BY <2>2
    <3>2. CartsOf(c, carts) = {d}
      BY <3>1 DEF CartsOf, OneCartInv, OneEach
    <3> QED BY <3>2, FS_Singleton
  <2> QED BY <2>1, <2>2
<1> QED BY <1>1 DEF OneCart

\* When the requests naming a customer are served one after another and reads
\* are current, a customer has at most one cart document (CartResource.value
\* and create, without the race).
THEOREM OneCartKeptSerial ==
    ASSUME Serial, MaxLag = 0
    PROVE  Spec => []OneCart
<1>1. Init => OneCartInv
  BY OneCartInit
<1>2. OneCartInv /\ [Next]_vars => OneCartInv'
  BY OneCartStep
<1>3. OneCartInv => OneCart
  BY OneCartSize
<1> QED BY <1>1, <1>2, <1>3, PTL DEF Spec

-----------------------------------------------------------------------------
(* What each step does, in this setting *)

\* w goes on with `todo`, or is free when that is empty.
Becomes(w, todo, cart, hand) ==
    /\ \A v \in Workers \ {w} : worker'[v] = worker[v]
    /\ todo = <<>> => worker'[w] = Free
    /\ todo # <<>> => /\ worker'[w].todo = todo /\ worker'[w].cart = cart
                      /\ worker'[w].hand = hand /\ worker'[w].req = worker[w].req

Ends(w) == worker'[w] = Free /\ \A v \in Workers \ {w} : worker'[v] = worker[v]

\* The cart `old`, which w holds, is saved with these references.
Saves(w, old, refs) ==
    /\ old \in carts /\ old.id = worker[w].cart.id /\ old.cust = worker[w].cart.cust
    /\ carts' = (carts \ {old}) \cup {[id |-> old.id, cust |-> old.cust, refs |-> refs]}
    /\ UNCHANGED <<items, nextId, torn>>

\* A plain step leaves the rest of the script, and the cart and the hand it
\* names.
LEMMA StepBecomes ==
    ASSUME TypeInv, NEW w \in Workers, NEW cart, NEW hand, Step(w, cart, hand)
    PROVE  Becomes(w, Tail(worker[w].todo), cart, hand)
  BY Stepped DEF Becomes

\* A step that chooses another script leaves that one.
LEMMA EnterBecomes ==
    ASSUME TypeInv, NEW w \in Workers, NEW new, Continue(w, new), new.todo # <<>>,
           new.req = worker[w].req
    PROVE  Becomes(w, new.todo, new.cart, new.hand)
  BY Entered DEF Becomes

\* An exception ends the handler.
LEMMA FailEnds ==
    ASSUME TypeInv, NEW w \in Workers, Fail(w)
    PROVE  Ends(w)
  BY DEF Fail, TypeInv, Ends

\* The last step ends the handler.
LEMMA LastStepEnds ==
    ASSUME TypeInv, NEW w \in Workers, NEW cart, NEW hand, Step(w, cart, hand),
           Tail(worker[w].todo) = <<>>
    PROVE  Ends(w)
  BY Stepped DEF Ends

\* The facts every step starts from.
LEMMA Working ==
    ASSUME OneCartInv, NEW w \in Workers, NEW step, Does(w, step)
    PROVE  /\ TypeInv /\ lagging = <<>> /\ Busy(w)
           /\ worker[w] \in WorkerState /\ worker[w].req \in Requests
           /\ worker[w].todo \in Seq(StepNames) /\ worker[w].todo # <<>>
           /\ Head(worker[w].todo) = step
           /\ worker[w].cart \in CartObject /\ worker[w].cart.items \in Seq(StoredItem)
           /\ worker[w].hand \in Seq(Item)
           /\ step # "create" =>
                PhaseOK(step, worker[w].req.op, Tail(worker[w].todo), Goal(worker[w]),
                      worker[w].hand)
           /\ step \in LoadedSteps =>
                /\ At(w, LoadedSteps)
                /\ \E d \in carts : /\ d.id = worker[w].cart.id
                                    /\ d.cust = worker[w].cart.cust /\ d.cust = Owner(w)
<1>1. TypeInv /\ StateOK(worker[w]) /\ worker[w].req # None /\ Head(worker[w].todo) = step
  BY BusyStep DEF OneCartInv
<1>2. /\ worker[w] \in WorkerState /\ worker[w].req \in Requests
      /\ worker[w].todo \in Seq(StepNames) /\ worker[w].todo # <<>>
      /\ worker[w].cart \in CartObject /\ worker[w].cart.items \in Seq(StoredItem)
      /\ worker[w].hand \in Seq(Item)
  BY <1>1, AtStep DEF StateOK
<1>3. step # "create" =>
          PhaseOK(step, worker[w].req.op, Tail(worker[w].todo), Goal(worker[w]), worker[w].hand)
  BY <1>1, PhaseOf
<1>4. step \in LoadedSteps => At(w, LoadedSteps)
  BY <1>1 DEF At, Busy
<1>5. step \in LoadedSteps =>
          \E d \in carts : d.id = worker[w].cart.id /\ d.cust = worker[w].cart.cust
             /\ d.cust = Owner(w)
  BY <1>4 DEF OneCartInv, HoldsCart
<1> QED BY <1>1, <1>2, <1>3, <1>4, <1>5 DEF OneCartInv, Busy

\* A look-up writes nothing and loads the customer's cart, or goes on to
\* create one.
LEMMA FindShape ==
    ASSUME OneCartInv, NEW w \in Workers, Find(w)
    PROVE  /\ UNCHANGED <<carts, items, nextId, torn>>
           /\ \E step \in {"value", "session"} : Does(w, step)
           /\ \/ \E d \in carts : /\ d.cust \in Named(worker[w].req)
                                  /\ Becomes(w, Tail(worker[w].todo), Load(d), worker[w].hand)
              \/ \E c \in Named(worker[w].req) :
                     /\ \A d \in carts : d.cust # c
                     /\ Becomes(w, <<"create">> \o worker[w].todo,
                                [id |-> 0, cust |-> c, items |-> <<>>], worker[w].hand)
<1> DEFINE st == worker[w]
<1>0. PICK c : c = IF Does(w, "value") THEN st.req.cust ELSE st.req.other
  OBVIOUS
<1>1. PICK step \in {"value", "session"} : Does(w, step) /\ c = Target(st.req, step)
  BY <1>0 DEF Find, Does, Target
<1>2. /\ TypeInv /\ View.carts = carts /\ st \in WorkerState /\ Busy(w)
            /\ st.todo \in Seq(StepNames)
      /\ step = "session" => st.req.op = "merge"
  BY <1>1, Working DEF View, PhaseOK
<1>3. c \in Named(st.req)
  BY <1>1, <1>2, NamedCustomers DEF Target
<1>4. UNCHANGED <<carts, items, nextId, torn>>
  BY DEF Find, store
<1>5. CASE \E d \in CartsOf(c, View.carts) : Step(w, Load(d), st.hand)
  BY <1>1, <1>2, <1>3, <1>4, <1>5, StepBecomes DEF CartsOf
<1>6. CASE /\ CartsOf(c, View.carts) = {}
           /\ Continue(w, [st EXCEPT !.todo = <<"create">> \o @,
                                     !.cart = [id |-> 0, cust |-> c, items |-> <<>>]])
  <2> DEFINE new == [st EXCEPT !.todo = <<"create">> \o @,
                               !.cart = [id |-> 0, cust |-> c, items |-> <<>>]]
  <2>1. /\ new.todo = <<"create">> \o st.todo /\ new.todo # <<>> /\ new.req = st.req
        /\ new.cart = [id |-> 0, cust |-> c, items |-> <<>>] /\ new.hand = st.hand
    BY <1>2 DEF WorkerState
  <2>2. Continue(w, new)
    BY <1>6
  <2> HIDE DEF new
  <2>3. Becomes(w, <<"create">> \o st.todo, [id |-> 0, cust |-> c, items |-> <<>>], st.hand)
    BY <1>2, <2>1, <2>2, EnterBecomes
  <2> QED BY <1>1, <1>2, <1>3, <1>4, <1>6, <2>3 DEF CartsOf
<1> QED BY <1>0, <1>5, <1>6 DEF Find

\* A creation adds one empty cart, where its customer had none.
LEMMA CreateShape ==
    ASSUME MaxLag = 0, OneCartInv, NEW w \in Workers, Create(w)
    PROVE  /\ worker[w].cart.cust \in Named(worker[w].req)
           /\ \A d \in carts : d.cust # worker[w].cart.cust
           /\ carts' = carts \cup {[id |-> nextId, cust |-> worker[w].cart.cust, refs |-> <<>>]}
           /\ nextId' = nextId + 1 /\ UNCHANGED <<items, torn>>
           /\ Becomes(w, Tail(worker[w].todo), NoCart, worker[w].hand)
           /\ Tail(worker[w].todo) # <<>> /\ Head(Tail(worker[w].todo)) \in {"value", "session"}
           /\ Goal(worker[w]) = Tail(worker[w].todo)[Len(Tail(worker[w].todo))]
<1> DEFINE st == worker[w]
           cart == [st.cart EXCEPT !.id = nextId]
<1>1. /\ TypeInv /\ Busy(w) /\ StateOK(st) /\ st.req # None /\ Head(st.todo) = "create"
      /\ st \in WorkerState /\ nextId \in Nat /\ lagging = <<>>
      /\ st.todo \in Seq(StepNames) /\ st.todo # <<>>
  BY BusyStep, AtStep DEF OneCartInv, Create, Busy, TypeInv, StateOK, StoreInv
<1>2. st.cart.cust \in Named(st.req) /\ \A d \in carts : d.cust # st.cart.cust
  BY <1>1 DEF OneCartInv, Creating, At
<1>3. PICK s \in Scripts(st.req.op) : Follows(st, s)
  BY <1>1 DEF StateOK
<1>4. /\ Tail(st.todo) # <<>> /\ Head(Tail(st.todo)) \in {"value", "session"}
      /\ st.cart = [id |-> 0, cust |-> Target(st.req, Head(Tail(st.todo))), items |-> <<>>]
  BY <1>1, <1>3 DEF Follows, Remaining
<1>5. cart = [id |-> nextId, cust |-> st.cart.cust, items |-> <<>>]
  BY <1>4
<1> HIDE DEF cart
<1>6. Write(SaveDoc(cart, carts), items) /\ nextId' = nextId + 1 /\ torn' = torn
  BY DEF Create, cart
<1>7. Refs(cart) = <<>> /\ cart.id = nextId /\ cart.cust = st.cart.cust
  BY <1>5 DEF Refs
<1>8. lagging' = <<>> /\ items' = items /\ carts' = SaveDoc(cart, carts)
  BY <1>1, <1>6, NoLag
<1>9. \A d \in carts : d.id # nextId
  BY <1>1 DEF OneCartInv, TypeInv, StoreInv, CartDoc
<1>10. carts' = carts \cup {[id |-> nextId, cust |-> st.cart.cust, refs |-> <<>>]}
  BY <1>7, <1>8, <1>9 DEF SaveDoc, Upsert
<1>11. Becomes(w, Tail(st.todo), NoCart, st.hand)
  BY <1>1, StepBecomes DEF Create
<1>12. Goal(st) = Tail(st.todo)[Len(Tail(st.todo))]
  <2> DEFINE t == st.todo
  <2>1. t \in Seq(StepNames) /\ Tail(t) # <<>> /\ t # <<>>
    BY <1>1, <1>4
  <2> HIDE DEF t
  <2>2. Tail(t)[Len(Tail(t))] = t[Len(t)]
    BY <2>1
  <2> QED BY <2>2 DEF Goal, t
<1> QED BY <1>2, <1>4, <1>6, <1>8, <1>10, <1>11, <1>12

\* addToCart writes nothing when it looks for the item: it chooses its script.
LEMMA HasItemShape ==
    ASSUME OneCartInv, NEW w \in Workers, HasItem(w)
    PROVE  /\ UNCHANGED <<carts, items, nextId, torn>>
           /\ \/ Wanted(w) # {} /\ Becomes(w, PresentScript, worker[w].cart, worker[w].hand)
              \/ Wanted(w) = {} /\ Becomes(w, AbsentScript, worker[w].cart, worker[w].hand)
<1> DEFINE st == worker[w]
           todo == IF Wanted(w) # {} THEN PresentScript ELSE AbsentScript
           new == [st EXCEPT !.todo = todo]
<1>1. TypeInv /\ st \in WorkerState
  BY Working DEF HasItem
<1>2. todo # <<>>
  BY Spelled
<1>3. new.todo = todo /\ new.cart = st.cart /\ new.hand = st.hand /\ new.req = st.req
  BY <1>1 DEF WorkerState
<1>4. Continue(w, new)
  BY DEF HasItem
<1> HIDE DEF new, todo
<1>5. Becomes(w, todo, st.cart, st.hand)
  BY <1>1, <1>2, <1>3, <1>4, EnterBecomes
<1>6. UNCHANGED <<carts, items, nextId, torn>>
  BY DEF HasItem, store
<1> QED BY <1>5, <1>6 DEF todo

\* A found item is taken from the cart as it was loaded; without one the
\* handler ends.
LEMMA FindItemShape ==
    ASSUME OneCartInv, NEW w \in Workers, FindItem(w)
    PROVE  /\ UNCHANGED <<carts, items, nextId, torn>>
           /\ \/ Ends(w)
              \/ /\ Wanted(w) # {}
                 /\ Becomes(w, Tail(worker[w].todo), worker[w].cart,
                            <<worker[w].cart.items[FirstWanted(w)]>>)
<1>1. TypeInv
  BY DEF OneCartInv
<1>2. UNCHANGED <<carts, items, nextId, torn>>
  BY DEF FindItem, store
<1> QED BY <1>1, <1>2, StepBecomes, FailEnds DEF FindItem

\* The increment writes nothing yet.
LEMMA IncrementShape ==
    ASSUME OneCartInv, NEW w \in Workers, Increment(w)
    PROVE  /\ UNCHANGED <<carts, items, nextId, torn>>
           /\ \/ Ends(w)
              \/ /\ Wanted(w) # {}
                 /\ Becomes(w, UpdateScript, worker[w].cart, worker[w].hand)
                 /\ worker'[w].qty = worker[w].cart.items[FirstWanted(w)].qty + 1
<1> DEFINE st == worker[w]
           new == [st EXCEPT !.todo = UpdateScript, !.qty = st.cart.items[FirstWanted(w)].qty + 1]
<1>1. TypeInv /\ st \in WorkerState
  BY Working DEF Increment
<1>2. /\ new.todo = UpdateScript /\ new.cart = st.cart /\ new.hand = st.hand /\ new.req = st.req
      /\ new.qty = st.cart.items[FirstWanted(w)].qty + 1
  BY <1>1 DEF WorkerState
<1>3. Fail(w) \/ (Wanted(w) # {} /\ Continue(w, new))
  BY DEF Increment
<1> HIDE DEF new
<1>4. UpdateScript # <<>>
  BY Spelled
<1>5. UNCHANGED <<carts, items, nextId, torn>>
  BY DEF Increment, store
<1>6. Continue(w, new) => worker'[w] = new
  BY <1>1, <1>2, <1>4, Continued
<1> QED BY <1>1, <1>2, <1>3, <1>4, <1>5, <1>6, EnterBecomes, FailEnds

\* A new item gets the next id; an item that has one is stored under it again.
LEMMA SaveItemShape ==
    ASSUME MaxLag = 0, OneCartInv, NEW w \in Workers, SaveItem(w)
    PROVE  /\ worker[w].hand # <<>>
           /\ \E item \in StoredItem :
                  /\ item.itemId = worker[w].hand[1].itemId /\ item.qty = worker[w].hand[1].qty
                  /\ IF worker[w].hand[1].id = 0
                     THEN item.id = nextId /\ nextId' = nextId + 1
                     ELSE item.id = worker[w].hand[1].id /\ nextId' = nextId
                  /\ items' = Upsert(item, items)
                  /\ UNCHANGED <<carts, torn>>
                  /\ Becomes(w, Tail(worker[w].todo), worker[w].cart, <<item>>)
<1> DEFINE st == worker[w]
           new == st.hand[1].id = 0
           item == [st.hand[1] EXCEPT !.id = IF new THEN nextId ELSE @]
<1>1. Does(w, "saveItem")
  BY DEF SaveItem
<1>2. TypeInv /\ lagging = <<>> /\ st.hand \in Seq(Item) /\ nextId \in Nat \ {0}
  BY <1>1, Working DEF TypeInv, StoreInv
<1>3. st.hand # <<>>
  <2>1. /\ StateOK(st) /\ st.req # None /\ Head(st.todo) = "saveItem" /\ Head(st.todo) # "create"
    BY <1>1, <1>2, BusyStep
  <2>2. PICK s \in Scripts(st.req.op) : \E m \in 1..Len(s) :
          /\ s \in AllScripts /\ HandOK(st.hand, st.req.op, s, Len(st.todo)) /\ s[m] = "saveItem"
    BY <2>1, ScriptStep
  <2>3. s = AbsentScript
    BY <2>2, Where
  <2> QED BY <2>2, <2>3 DEF HandOK
<1>4. st.hand[1] \in Item
  BY <1>2, <1>3
<1>5. /\ item \in StoredItem /\ item.itemId = st.hand[1].itemId /\ item.qty = st.hand[1].qty
      /\ item.id = IF new THEN nextId ELSE st.hand[1].id
  BY <1>2, <1>4 DEF Item, StoredItem
<1>6. /\ Write(carts, Upsert(item, items)) /\ Step(w, st.cart, <<item>>)
      /\ nextId' = IF new THEN nextId + 1 ELSE nextId
      /\ torn' = torn
  BY DEF SaveItem
<1> HIDE DEF item
<1>7. carts' = carts /\ items' = Upsert(item, items)
  BY <1>2, <1>6, NoLag
<1>8. Becomes(w, Tail(st.todo), st.cart, <<item>>)
  BY <1>2, <1>6, StepBecomes
<1>9. IF new THEN item.id = nextId /\ nextId' = nextId + 1
             ELSE item.id = st.hand[1].id /\ nextId' = nextId
  BY <1>5, <1>6
<1> QED BY <1>3, <1>5, <1>6, <1>7, <1>8, <1>9

\* The item that is saved with a new quantity keeps its id, even if it was
\* deleted meanwhile.
LEMMA SaveQuantityShape ==
    ASSUME MaxLag = 0, OneCartInv, NEW w \in Workers, SaveQuantity(w)
    PROVE  /\ \E item \in StoredItem :
                  /\ item.id = worker[w].hand[1].id /\ item.itemId = worker[w].hand[1].itemId
                  /\ item.qty = worker[w].qty /\ items' = Upsert(item, items)
           /\ worker[w].hand # <<>>
           /\ UNCHANGED <<carts, nextId, torn>>
           /\ Ends(w)
<1> DEFINE st == worker[w]
           item == [st.hand[1] EXCEPT !.qty = st.qty]
<1>1. Does(w, "saveQuantity")
  BY DEF SaveQuantity
<1>2. /\ TypeInv /\ lagging = <<>> /\ st.qty \in Nat
      /\ st.req.op \in {"add", "update"} /\ Tail(st.todo) = <<>>
  BY <1>1, Working DEF PhaseOK, WorkerState
<1>3. st.hand # <<>> /\ st.hand \in Seq(StoredItem)
  <2>1. /\ StateOK(st) /\ st.req # None /\ Head(st.todo) = "saveQuantity"
        /\ Head(st.todo) # "create"
    BY <1>1, <1>2, BusyStep
  <2>2. PICK s \in Scripts(st.req.op) : \E m \in 1..Len(s) :
          /\ s \in AllScripts /\ HandOK(st.hand, st.req.op, s, Len(st.todo))
                /\ s[m] = "saveQuantity"
          /\ Len(st.todo) = Len(s) - m + 1
    BY <2>1, ScriptStep
  <2>3. s = UpdateScript /\ Len(st.todo) = 1
    BY <2>2, Where
  <2> QED BY <2>2, <2>3 DEF HandOK
<1>4. /\ item \in StoredItem /\ item.id = st.hand[1].id /\ item.itemId = st.hand[1].itemId
      /\ item.qty = st.qty
  <2>1. st.hand[1] \in StoredItem
    BY <1>3
  <2> QED BY <1>2, <2>1 DEF Item, StoredItem
<1>5. Write(carts, Upsert(item, items)) /\ Step(w, st.cart, st.hand) /\ UNCHANGED <<nextId, torn>>
  BY DEF SaveQuantity
<1> HIDE DEF item
<1>6. carts' = carts /\ items' = Upsert(item, items)
  BY <1>2, <1>5, NoLag
<1> QED BY <1>2, <1>3, <1>4, <1>5, <1>6, LastStepEnds

\* The references of an extended cart.
LEMMA RefsAppend ==
    ASSUME NEW its \in Seq(StoredItem), NEW item \in StoredItem
    PROVE  /\ RefsOf(Append(its, item)) = Append(RefsOf(its), item.id)
           /\ Append(its, item) \in Seq(StoredItem)
           /\ RefsOf(its) \in Seq(Nat)
<1>1. RefsOf(its) \in Seq(Nat) /\ Len(RefsOf(its)) = Len(its)
  BY DEF RefsOf, StoredItem, Item
<1>2. item.id \in Nat
  BY DEF StoredItem, Item
<1>3. /\ Append(its, item) \in Seq(StoredItem) /\ Len(Append(its, item)) = Len(its) + 1
      /\ \A k \in 1..Len(its) : Append(its, item)[k] = its[k]
      /\ Append(its, item)[Len(its) + 1] = item
  OBVIOUS
<1>4. /\ Append(RefsOf(its), item.id) \in Seq(Nat)
      /\ Len(Append(RefsOf(its), item.id)) = Len(its) + 1
      /\ \A k \in 1..Len(its) : Append(RefsOf(its), item.id)[k] = RefsOf(its)[k]
      /\ Append(RefsOf(its), item.id)[Len(its) + 1] = item.id
  BY <1>1, <1>2
<1>5. /\ RefsOf(Append(its, item)) \in Seq(Nat) /\ Len(RefsOf(Append(its, item))) = Len(its) + 1
      /\ \A k \in 1..Len(its) : RefsOf(Append(its, item))[k] = its[k].id
      /\ RefsOf(Append(its, item))[Len(its) + 1] = item.id
  BY <1>3 DEF RefsOf, StoredItem, Item
<1>6. \A k \in 1..Len(its) : RefsOf(its)[k] = its[k].id
  BY DEF RefsOf
<1>7. \A k \in 1..Len(its) + 1 : RefsOf(Append(its, item))[k] = Append(RefsOf(its), item.id)[k]
  <2>1. Len(its) \in Nat
    OBVIOUS
  <2>2. \A k \in 1..Len(its) + 1 : k \in 1..Len(its) \/ k = Len(its) + 1
    BY <2>1
  <2> QED BY <1>4, <1>5, <1>6, <2>2
<1> DEFINE A == RefsOf(Append(its, item))
           B == Append(RefsOf(its), item.id)
<1>8. A \in Seq(Nat) /\ B \in Seq(Nat) /\ Len(A) = Len(B) /\ \A k \in 1..Len(A) : A[k] = B[k]
  BY <1>4, <1>5, <1>7
<1> HIDE DEF A, B
<1>9. A = B
  BY <1>8, SeqEqual
<1> QED BY <1>1, <1>3, <1>9 DEF A, B

\* A save writes one cart document, that of the thread's owner.
LEMMA SaveShape ==
    ASSUME MaxLag = 0, OneCartInv, NEW w \in Workers, At(w, LoadedSteps),
           NEW newItems, SaveWith(w, newItems), UNCHANGED <<nextId, torn>>
    PROVE  \E old \in carts : Saves(w, old, RefsOf(newItems)) /\ old.cust = Owner(w)
  BY SavedCart DEF Saves

\* The added item is referred to last, and the cart that was loaded before it.
LEMMA AddItemShape ==
    ASSUME MaxLag = 0, OneCartInv, NEW w \in Workers, AddItem(w)
    PROVE  /\ \E old \in carts :
                  /\ old.cust = worker[w].req.cust
                  /\ Saves(w, old, Append(RefsOf(worker[w].cart.items), worker[w].hand[1].id))
           /\ worker[w].hand # <<>> /\ worker[w].hand[1] \in StoredItem
           /\ Ends(w)
<1> DEFINE st == worker[w]
<1>1. Does(w, "addItem") /\ "addItem" \in LoadedSteps
  BY DEF AddItem, LoadedSteps
<1>2. /\ TypeInv /\ st.req.op = "add" /\ Tail(st.todo) = <<>> /\ At(w, LoadedSteps)
      /\ st.cart.items \in Seq(StoredItem)
  BY <1>1, Working DEF PhaseOK
<1>3. st.hand # <<>> /\ st.hand \in Seq(StoredItem)
  <2>1. /\ StateOK(st) /\ st.req # None /\ Head(st.todo) = "addItem" /\ Head(st.todo) # "create"
    BY <1>1, <1>2, BusyStep
  <2>2. PICK s \in Scripts(st.req.op) : \E m \in 1..Len(s) :
          /\ s \in AllScripts /\ HandOK(st.hand, st.req.op, s, Len(st.todo)) /\ s[m] = "addItem"
          /\ Len(st.todo) = Len(s) - m + 1
    BY <2>1, ScriptStep
  <2>3. s = AbsentScript /\ Len(st.todo) = 1
    BY <2>2, Where
  <2>4. HandOK(st.hand, "add", AbsentScript, 1)
    BY <1>2, <2>2, <2>3
  <2> QED BY <2>4 DEF HandOK
<1>4. st.hand[1] \in StoredItem
  BY <1>3
<1>5. SaveWith(w, Append(st.cart.items, st.hand[1])) /\ UNCHANGED <<nextId, torn>>
  BY DEF AddItem
<1>6. PICK old \in carts : /\ Saves(w, old, RefsOf(Append(st.cart.items, st.hand[1])))
                           /\ old.cust = Owner(w)
  BY <1>2, <1>5, SaveShape
<1>7. Owner(w) = st.req.cust
  BY <1>2 DEF Owner
<1>8. Ends(w)
  BY <1>2, LastStepEnds DEF AddItem
<1> QED BY <1>2, <1>3, <1>4, <1>6, <1>7, <1>8, RefsAppend

\* The item RemoveItem drops, and what is left.
LEMMA RemoveAtFacts ==
    ASSUME NEW S, NEW s \in Seq(S), NEW k \in 1..Len(s)
    PROVE  /\ RemoveAt(s, k) \in Seq(S) /\ Len(RemoveAt(s, k)) = Len(s) - 1
           /\ \A j \in 1..Len(s) - 1 : RemoveAt(s, k)[j] = IF j < k THEN s[j] ELSE s[j + 1]
<1> DEFINE a == SubSeq(s, 1, k - 1)
           b == SubSeq(s, k + 1, Len(s))
<1>1. /\ a \in Seq(S) /\ Len(a) = k - 1 /\ \A j \in 1..k - 1 : a[j] = s[j]
  OBVIOUS
<1>2. /\ b \in Seq(S) /\ Len(b) = Len(s) - k /\ \A j \in 1..Len(s) - k : b[j] = s[k + j]
  OBVIOUS
<1>3. RemoveAt(s, k) = a \o b
  BY DEF RemoveAt
<1> HIDE DEF a, b
<1>4. /\ a \o b \in Seq(S) /\ Len(a \o b) = Len(s) - 1
      /\ \A j \in 1..Len(a \o b) : (a \o b)[j] = IF j <= Len(a) THEN a[j] ELSE b[j - Len(a)]
  <2>1. /\ a \o b \in Seq(S) /\ Len(a \o b) = Len(a) + Len(b)
        /\ \A j \in 1..Len(a) + Len(b) : (a \o b)[j] = IF j <= Len(a) THEN a[j] ELSE b[j - Len(a)]
    BY <1>1, <1>2, ConcatProperties
  <2>2. Len(a) + Len(b) = Len(s) - 1
    BY <1>1, <1>2
  <2> QED BY <2>1, <2>2
<1>5. ASSUME NEW j \in 1..Len(s) - 1
      PROVE  (a \o b)[j] = IF j < k THEN s[j] ELSE s[j + 1]
  <2>1. CASE j < k
    BY <1>1, <1>4, <2>1
  <2>2. CASE ~(j < k)
    <3>1. j - (k - 1) \in 1..Len(s) - k /\ k + (j - (k - 1)) = j + 1 /\ ~(j <= k - 1)
      BY <2>2
    <3> QED BY <1>1, <1>2, <1>4, <2>2, <3>1
  <2> QED BY <2>1, <2>2
<1> QED BY <1>3, <1>4, <1>5

\* The cart loses the first line of the item, or nothing.
LEMMA RemoveItemShape ==
    ASSUME MaxLag = 0, OneCartInv, NEW w \in Workers, RemoveItem(w)
    PROVE  /\ \E old \in carts : \E newItems \in Seq(StoredItem) :
                  /\ old.cust = worker[w].req.cust
                  /\ Saves(w, old, RefsOf(newItems))
                  /\ newItems = IF Wanted(w) = {} THEN worker[w].cart.items
                                ELSE RemoveAt(worker[w].cart.items, FirstWanted(w))
           /\ Becomes(w, Tail(worker[w].todo), worker[w].cart, worker[w].hand)
<1> DEFINE st == worker[w]
<1>1. Does(w, "removeItem") /\ "removeItem" \in LoadedSteps
  BY DEF RemoveItem, LoadedSteps
<1>2. /\ TypeInv /\ st.req.op = "remove" /\ At(w, LoadedSteps) /\ st.cart.items \in Seq(StoredItem)
  BY <1>1, Working DEF PhaseOK
<1>3. PICK newItems : newItems = IF Wanted(w) = {} THEN st.cart.items
                                 ELSE RemoveAt(st.cart.items, FirstWanted(w))
  OBVIOUS
<1>4. newItems \in Seq(StoredItem)
  BY <1>2, <1>3, FirstWantedIn, RemoveAtFacts
<1>5. SaveWith(w, newItems) /\ UNCHANGED <<nextId, torn>>
  BY <1>3 DEF RemoveItem
<1>6. PICK old \in carts : Saves(w, old, RefsOf(newItems)) /\ old.cust = Owner(w)
  BY <1>2, <1>5, SaveShape
<1>7. Owner(w) = st.req.cust
  BY <1>2 DEF Owner
<1>8. Becomes(w, Tail(st.todo), st.cart, st.hand)
  BY <1>2, StepBecomes DEF RemoveItem
<1> QED BY <1>3, <1>4, <1>6, <1>7, <1>8

\* One item document is deleted, the one taken from the cart.
LEMMA DestroyItemShape ==
    ASSUME MaxLag = 0, OneCartInv, NEW w \in Workers, DestroyItem(w)
    PROVE  /\ items' = {i \in items : i.id # worker[w].hand[1].id}
           /\ UNCHANGED <<carts, nextId, torn>>
           /\ worker[w].req.op = "remove" /\ worker[w].hand # <<>>
           /\ Ends(w)
<1>1. Does(w, "destroyItem")
  BY DEF DestroyItem
<1>2. /\ TypeInv /\ worker[w].req.op = "remove" /\ worker[w].hand # <<>>
      /\ Tail(worker[w].todo) = <<>> /\ lagging = <<>>
  BY <1>1, Working DEF PhaseOK
<1>3. /\ Write(carts, {i \in items : i.id # worker[w].hand[1].id})
      /\ Step(w, worker[w].cart, worker[w].hand) /\ UNCHANGED <<nextId, torn>>
  BY DEF DestroyItem
<1> QED BY <1>2, <1>3, NoLag, LastStepEnds

\* One cart document is deleted, the customer's or, after a merge, the
\* session's.
LEMMA DeleteCartShape ==
    ASSUME MaxLag = 0, OneCartInv, NEW w \in Workers, DeleteCart(w)
    PROVE  /\ \E old \in carts : old.cust = Owner(w) /\ carts' = carts \ {old}
           /\ Owner(w) = IF worker[w].req.op = "merge" THEN worker[w].req.other
                                                      ELSE worker[w].req.cust
           /\ Goal(worker[w]) = "deleteCart"
           /\ UNCHANGED <<items, nextId, torn>>
           /\ Ends(w)
<1>1. Does(w, "deleteCart") /\ "deleteCart" \in LoadedSteps
  BY DEF DeleteCart, LoadedSteps
<1>2. /\ TypeInv /\ Goal(worker[w]) = "deleteCart" /\ Head(worker[w].todo) = "deleteCart"
      /\ Tail(worker[w].todo) = <<>> /\ lagging = <<>> /\ At(w, LoadedSteps)
  BY <1>1, Working DEF PhaseOK
<1>3. PICK old \in carts : old.id = worker[w].cart.id /\ old.cust = Owner(w)
  BY <1>2 DEF OneCartInv, HoldsCart
<1>4. /\ Write({d \in carts : d.id # worker[w].cart.id}, items)
      /\ Step(w, worker[w].cart, worker[w].hand) /\ UNCHANGED <<nextId, torn>>
  BY DEF DeleteCart
<1>5. items' = items /\ carts' = {d \in carts : d.id # worker[w].cart.id}
  BY <1>2, <1>4, NoLag
<1>6. carts' = carts \ {old}
  BY <1>3, <1>5 DEF OneCartInv, OneEach
<1>7. Owner(w) = IF worker[w].req.op = "merge" THEN worker[w].req.other ELSE worker[w].req.cust
  BY <1>2 DEF Owner
<1> QED BY <1>2, <1>3, <1>4, <1>5, <1>6, <1>7, LastStepEnds

\* A merge takes the whole content of the session's cart in its hand, and
\* writes nothing.
LEMMA MergeItemsShape ==
    ASSUME OneCartInv, NEW w \in Workers, MergeItems(w)
    PROVE  /\ UNCHANGED <<carts, items, nextId>>
           /\ worker[w].req.op = "merge"
           /\ torn' = IF Named(worker[w].req) \cap torn = {} THEN torn
                      ELSE torn \cup Named(worker[w].req)
           /\ Becomes(w, MergeRest(worker[w].cart.items), worker[w].cart, worker[w].cart.items)
<1> DEFINE st == worker[w]
           new == [st EXCEPT !.todo = MergeRest(st.cart.items), !.hand = st.cart.items]
<1>1. TypeInv /\ st \in WorkerState /\ st.req.op = "merge"
  BY Working DEF MergeItems, PhaseOK
<1>2. /\ new.todo = MergeRest(st.cart.items) /\ new.cart = st.cart
      /\ new.hand = st.cart.items /\ new.req = st.req
  BY <1>1 DEF WorkerState
<1>3. Continue(w, new)
  BY DEF MergeItems
<1> HIDE DEF new
<1>4. Becomes(w, MergeRest(st.cart.items), st.cart, st.cart.items)
  BY <1>1, <1>2, <1>3, MergeRestHead, EnterBecomes
<1> QED BY <1>1, <1>4 DEF MergeItems, store

\* The next item of the hand goes to the customer's cart.
LEMMA MergeItemShape ==
    ASSUME MaxLag = 0, OneCartInv, NEW w \in Workers, MergeItem(w)
    PROVE  /\ \E old \in carts :
                  /\ old.cust = worker[w].req.cust
                  /\ Saves(w, old, Append(RefsOf(worker[w].cart.items), Head(worker[w].hand).id))
           /\ worker[w].req.op = "merge" /\ Goal(worker[w]) = "mergeItem"
           /\ worker[w].hand # <<>> /\ worker[w].hand \in Seq(StoredItem)
           /\ Becomes(w, MergeRest(Tail(worker[w].hand)), worker[w].cart, Tail(worker[w].hand))
<1> DEFINE st == worker[w]
           new == [st EXCEPT !.todo = MergeRest(Tail(st.hand)), !.hand = Tail(st.hand)]
<1>1. Does(w, "mergeItem") /\ "mergeItem" \in LoadedSteps
  BY DEF MergeItem, LoadedSteps
<1>2. /\ TypeInv /\ st.req.op = "merge" /\ Goal(st) = "mergeItem" /\ At(w, LoadedSteps)
      /\ Head(st.todo) = "mergeItem"
      /\ st.cart.items \in Seq(StoredItem) /\ st \in WorkerState /\ st.hand # <<>>
  BY <1>1, Working DEF PhaseOK
<1>3. st.hand \in Seq(StoredItem)
  <2>1. /\ StateOK(st) /\ st.req # None /\ Head(st.todo) # "create"
    BY <1>1, <1>2, BusyStep
  <2>2. PICK s \in Scripts(st.req.op) : HandOK(st.hand, st.req.op, s, Len(st.todo))
    BY <2>1, ScriptStep
  <2> QED BY <1>2, <2>2 DEF HandOK
<1>4. Head(st.hand) \in StoredItem
  BY <1>2, <1>3
<1>5. SaveWith(w, Append(st.cart.items, Head(st.hand))) /\ UNCHANGED <<nextId, torn>>
  BY DEF MergeItem
<1>6. PICK old \in carts : /\ Saves(w, old, RefsOf(Append(st.cart.items, Head(st.hand))))
                           /\ old.cust = Owner(w)
  BY <1>2, <1>5, SaveShape
<1>7. Owner(w) = st.req.cust
  BY <1>2 DEF Owner
<1>8. /\ new.todo = MergeRest(Tail(st.hand)) /\ new.cart = st.cart
      /\ new.hand = Tail(st.hand) /\ new.req = st.req
  BY <1>2 DEF WorkerState
<1>9. Continue(w, new)
  BY DEF MergeItem
<1> HIDE DEF new
<1>10. Becomes(w, MergeRest(Tail(st.hand)), st.cart, Tail(st.hand))
  BY <1>2, <1>8, <1>9, MergeRestHead, EnterBecomes
<1> QED BY <1>2, <1>3, <1>4, <1>6, <1>7, <1>10, RefsAppend

\* A handler given up writes nothing; a merge given up half way marks both of
\* its customers torn.
LEMMA AbortShape ==
    ASSUME OneCartInv, NEW w \in Workers, Abort(w)
    PROVE  /\ UNCHANGED <<carts, items, nextId>>
           /\ torn \subseteq torn' /\ torn' \subseteq torn \cup Named(worker[w].req)
           /\ \A d, e \in carts : ShareItem(d, e) /\ {d.cust, e.cust} = Named(worker[w].req) =>
                                      {d.cust, e.cust} \subseteq torn'
           /\ Busy(w) /\ Ends(w)
<1>1. /\ UNCHANGED <<carts, items, nextId>> /\ Busy(w)
      /\ torn' = torn \cup {d.cust : d \in {d \in carts :
                          \E e \in carts :
                              ShareItem(d, e) /\ {d.cust, e.cust} = Named(worker[w].req)}}
  BY DEF Abort, store
<1>2. Ends(w)
  BY FailEnds DEF Abort, OneCartInv
<1>3. \A d, e \in carts : ShareItem(d, e) => ShareItem(e, d)
  BY DEF ShareItem
<1> QED BY <1>1, <1>2, <1>3

\* A request that comes in writes nothing and starts with an empty hand, an
\* add with its item.
LEMMA ReceiveShape ==
    ASSUME OneCartInv, NEW w \in Workers, NEW req \in Requests, Receive(w, req)
    PROVE  /\ UNCHANGED <<carts, items, nextId, torn>>
           /\ \A v \in Workers \ {w} : worker'[v] = worker[v]
           /\ ~Busy(w) /\ worker'[w].req = req /\ worker'[w].todo = Script(req.op)
           /\ worker'[w].cart = NoCart
           /\ req.op = "add" => worker'[w].hand = <<[id |-> 0, itemId |-> req.itemId, qty |-> 1]>>
           /\ req.op # "add" => worker'[w].hand = <<>>
  BY DEF Receive, OneCartInv, TypeInv, store

-----------------------------------------------------------------------------
(* Requests that overlap and reads that lag: a cart holds what was asked for *)

\* w holds a copy of the item document i.
Copy(w, i) ==
    \/ \E k \in 1..Len(worker[w].cart.items) : i = worker[w].cart.items[k]
    \/ \E k \in 1..Len(worker[w].hand) : i = worker[w].hand[k]

\* The states of the primary that a read may still show.
Shown == {States[k] : k \in 1..Len(States)}

Seen(i) == (\E st \in Shown : i \in st.items) \/ \E w \in Workers : Copy(w, i)

\* The customer from whose cart the items in the hand of w come, or for whom they are new.
Source(w) == IF worker[w].req.op = "merge" THEN worker[w].req.other ELSE worker[w].req.cust

\* A cart of c, stored or in a thread, has a line that refers to id.
Refers(c, id) ==
    \/ \E st \in Shown : \E d \in st.carts : d.cust = c /\ \E j \in 1..Len(d.refs) : d.refs[j] = id
    \/ \E w \in Workers : /\ worker[w].cart.cust = c
                          /\ \E k \in 1..Len(worker[w].cart.items) : worker[w].cart.items[k].id = id
    \/ \E w \in Workers : /\ Source(w) = c
                          /\ \E k \in 1..Len(worker[w].hand) : worker[w].hand[k].id = id

\* The request of w is recorded, and the cart it uses is the one it should use.
Recorded(w) ==
    /\ Busy(w) =>
           /\ worker[w].req.op = "merge" =>
                  <<worker[w].req.cust, worker[w].req.other>> \in merged
           /\ \A k \in 1..Len(worker[w].hand) :
                  worker[w].hand[k].itemId \in MayHold(Source(w))
    /\ At(w, LoadedSteps) => worker[w].cart.cust = Owner(w)

AskedInv ==
    /\ TypeInv
    /\ asked \in [Customers -> SUBSET Items] /\ merged \subseteq (Customers \ Sessions) \X Sessions
    /\ \A w \in Workers : Recorded(w)
    /\ \A i \in StoredItem : Seen(i) => i.id < nextId
    /\ \A c \in Customers, id \in Nat \ {0} : Refers(c, id) => id < nextId
    /\ \A c \in Customers, i \in StoredItem : Seen(i) /\ Refers(c, i.id) => i.itemId \in MayHold(c)

\* The item of i is known by its id already, or its id is the one given out now, for c.
KnownItem(i) == \E j \in StoredItem : Seen(j) /\ j.id = i.id /\ j.itemId = i.itemId
NewFor(i, c) == i.id = nextId /\ nextId' = nextId + 1 /\ i.itemId \in MayHold(c)

\* A cart of c may refer to id after this step: it does so before, the id is given out
\* now, for c, or a cart that was to be merged into it does.
MayRefer(c, id, o) ==
    \/ Refers(c, id)
    \/ c = o /\ id = nextId /\ nextId' = nextId + 1
    \/ \E s \in Sessions : <<c, s>> \in merged /\ Refers(s, id)

\* The states that can be read are of the declared types; the present one is the last.
LEMMA StatesType ==
    ASSUME StoreInv, NEW State, State = [carts : SUBSET CartDoc, items : SUBSET StoredItem]
    PROVE  /\ States \in Seq(State) /\ States # <<>> /\ Len(lagging) \in Nat
           /\ lagging \in Seq(State) /\ Len(States) = Len(lagging) + 1
<1>1. PICK now : now = [carts |-> carts, items |-> items]
  OBVIOUS
<1>2. now \in State /\ lagging \in Seq(State)
  BY <1>1 DEF StoreInv
<1>3. States = Append(lagging, now)
  BY <1>1 DEF States
<1> QED BY <1>2, <1>3

\* A write adds one state to those that can be read.
LEMMA ShownWrite ==
    ASSUME StoreInv, NEW newCarts, NEW newItems, Write(newCarts, newItems)
    PROVE  Shown' \subseteq Shown \cup {[carts |-> newCarts, items |-> newItems]}
<1> DEFINE State == [carts : SUBSET CartDoc, items : SUBSET StoredItem]
           now == [carts |-> newCarts, items |-> newItems]
<1>1. States \in Seq(State) /\ States # <<>>
  BY StatesType
<1>2. lagging' = IF Len(States) > MaxLag THEN Tail(States) ELSE States
  BY DEF Write, States
<1>3. States' = Append(lagging', now)
  BY DEF States, Write
<1> HIDE DEF State, now
<1>4. /\ lagging' \in Seq(State)
      /\ \A k \in 1..Len(lagging') : \E j \in 1..Len(States) : lagging'[k] = States[j]
  <2> DEFINE s == States
  <2>1. s \in Seq(State) /\ s # <<>>
    BY <1>1
  <2> HIDE DEF s
  <2>2. Tail(s) \in Seq(State) /\ Len(Tail(s)) = Len(s) - 1 /\ Len(s) \in Nat
        /\ \A k \in 1..Len(Tail(s)) : Tail(s)[k] = s[k + 1]
    BY <2>1
  <2>3. \A k \in 1..Len(Tail(s)) : k + 1 \in 1..Len(s)
    BY <2>2
  <2>4. \A k \in 1..Len(Tail(s)) : \E j \in 1..Len(s) : Tail(s)[k] = s[j]
    BY <2>2, <2>3
  <2> QED BY <1>2, <2>1, <2>2, <2>4 DEF s
<1>5. \A k \in 1..Len(States') :
          States'[k] = now \/ \E j \in 1..Len(States) : States'[k] = States[j]
  <2> DEFINE l == lagging'
  <2>1. l \in Seq(State) /\ States' = Append(l, now)
    BY <1>3, <1>4
  <2> HIDE DEF l
  <2>2. Len(States') = Len(l) + 1 /\ Len(l) \in Nat /\ States'[Len(l) + 1] = now
        /\ \A k \in 1..Len(l) : States'[k] = l[k]
    BY <2>1
  <2>3. \A k \in 1..Len(States') : k \in 1..Len(l) \/ k = Len(l) + 1
    BY <2>2
  <2> QED BY <1>4, <2>2, <2>3 DEF l
<1> QED BY <1>5 DEF Shown, now

\* The present state is one of those shown, and so is what a read sees.
LEMMA ShownFacts ==
    ASSUME TypeInv
    PROVE  /\ [carts |-> carts, items |-> items] \in Shown /\ View \in Shown
           /\ \A st \in Shown : st.items \subseteq StoredItem /\ st.carts \subseteq CartDoc
<1>1. StoreInv
  BY DEF TypeInv
<1>2. Len(lagging) \in Nat /\ 1 \in 1..Len(States) /\ Len(lagging) + 1 \in 1..Len(States)
  BY <1>1, StatesFacts
<1>3. [carts |-> carts, items |-> items] \in Shown /\ View \in Shown
  BY <1>1, <1>2, StatesFacts DEF Shown
<1>4. ASSUME NEW st \in Shown PROVE st \in [carts : SUBSET CartDoc, items : SUBSET StoredItem]
  <2> DEFINE State == [carts : SUBSET CartDoc, items : SUBSET StoredItem]
  <2>1. States \in Seq(State)
    BY <1>1, StatesType
  <2> HIDE DEF State
  <2>2. \A k \in 1..Len(States) : States[k] \in State
    BY <2>1, ElementOfSeq
  <2> QED BY <2>2 DEF State, Shown
<1> QED BY <1>3, <1>4

\* Catching up forgets the oldest state.
LEMMA ShownCatchUp ==
    ASSUME TypeInv, CatchUp
    PROVE  Shown' \subseteq Shown
<1> DEFINE State == [carts : SUBSET CartDoc, items : SUBSET StoredItem]
           now == [carts |-> carts, items |-> items]
<1>1. lagging \in Seq(State) /\ lagging # <<>> /\ lagging' = Tail(lagging)
      /\ States = Append(lagging, now) /\ States' = Append(Tail(lagging), now)
  BY DEF TypeInv, StoreInv, CatchUp, States
<1> DEFINE l == lagging
<1> HIDE DEF State, now
<1>2. /\ Tail(l) \in Seq(State) /\ Len(l) \in Nat /\ Len(l) > 0 /\ Len(Tail(l)) = Len(l) - 1
      /\ \A k \in 1..Len(l) - 1 : Tail(l)[k] = l[k + 1]
  <2> HIDE DEF l
  <2> QED BY <1>1 DEF l
<1>3. /\ Len(States) = Len(l) + 1 /\ Len(States') = Len(l)
      /\ \A k \in 1..Len(l) : States[k] = l[k]
      /\ States[Len(l) + 1] = now /\ States'[Len(l)] = now
      /\ \A k \in 1..Len(l) - 1 : States'[k] = Tail(l)[k]
  <2> HIDE DEF l
  <2> QED BY <1>1, <1>2 DEF l
<1>4. \A k \in 1..Len(States') : k + 1 \in 1..Len(States) /\ States'[k] = States[k + 1]
  <2> HIDE DEF l
  <2>1. PICK n \in Nat : n = Len(l) /\ n > 0
    BY <1>2
  <2>2. \A k \in 1..n : k = n \/ (k \in 1..n - 1 /\ k + 1 \in 1..n)
    BY <2>1
  <2>3. \A k \in 1..n : k + 1 \in 1..n + 1
    BY <2>1
  <2> QED BY <1>2, <1>3, <2>1, <2>2, <2>3
<1> QED BY <1>4 DEF Shown

\* Who may hold what only grows, and a cart may hold what those merged into it may.
LEMMA MayHoldFacts ==
    ASSUME AskedInv
    PROVE  \A c \in Customers, s \in Sessions : <<c, s>> \in merged =>
               c \notin Sessions /\ MayHold(s) \subseteq MayHold(c)
<1>1. \A c \in Customers, s \in Sessions : <<c, s>> \in merged => c \notin Sessions
  BY DEF AskedInv
<1>2. \A s \in Sessions : {t \in Sessions : <<s, t>> \in merged} = {}
  BY CartsAssumption DEF AskedInv
<1>3. \A s \in Sessions : MayHold(s) = asked[s]
  BY <1>2 DEF MayHold
<1>4. ASSUME NEW c \in Customers, NEW s \in Sessions, <<c, s>> \in merged
      PROVE  asked[s] \subseteq MayHold(c)
  BY <1>4 DEF MayHold
<1> QED BY <1>1, <1>3, <1>4

\* What is true of the items and references that a step of w leaves, when each was
\* there before, is new, or moves with a merge.
LEMMA AskedKept ==
    ASSUME AskedInv, TypeInv', NEW w \in Workers, NEW o \in Customers,
           \A v \in Workers \ {w} : worker'[v] = worker[v],
           UNCHANGED <<asked, merged>>,
           nextId' \in {nextId, nextId + 1},
           Shown' \subseteq Shown \cup {[carts |-> carts', items |-> items']},
           \A i \in items' : KnownItem(i) \/ NewFor(i, o),
           \A d \in carts' :
               d \in carts \/ \A j \in 1..Len(d.refs) : MayRefer(d.cust, d.refs[j], o),
           \A k \in 1..Len(worker'[w].cart.items) :
               /\ KnownItem(worker'[w].cart.items[k])
               /\ MayRefer(worker'[w].cart.cust, worker'[w].cart.items[k].id, o),
           \A k \in 1..Len(worker'[w].hand) : worker'[w].hand[k].id # 0 =>
               /\ KnownItem(worker'[w].hand[k]) \/ NewFor(worker'[w].hand[k], o)
               /\ MayRefer(Source(w)', worker'[w].hand[k].id, o),
           Recorded(w)'
    PROVE  AskedInv'
<1>1. /\ TypeInv /\ nextId \in Nat \ {0}
      /\ \A i \in StoredItem : i.id \in Nat /\ i.id # 0
      /\ [carts |-> carts, items |-> items] \in Shown
  BY ShownFacts DEF AskedInv, TypeInv, StoreInv, StoredItem, Item
<1>2. ASSUME NEW v \in Workers PROVE Recorded(v)'
  <2>1. CASE v # w
    <3>1. worker'[v] = worker[v]
      BY <2>1
    <3>2. Recorded(v)
      BY DEF AskedInv
    <3>3. Source(v)' = Source(v) /\ Owner(v)' = Owner(v)
      BY <3>1 DEF Source, Owner
    <3> QED BY <3>1, <3>2, <3>3 DEF Recorded, Busy, At, MayHold
  <2> QED BY <2>1
<1>3. ASSUME NEW i \in StoredItem, Seen(i)' PROVE KnownItem(i) \/ NewFor(i, o)
  <2>1. CASE \E st \in Shown' : i \in st.items
    <3>1. PICK st \in Shown' : i \in st.items
      BY <2>1
    <3>2. CASE st \in Shown
      BY <3>1, <3>2 DEF KnownItem, Seen
    <3>3. CASE st = [carts |-> carts', items |-> items']
      BY <3>1, <3>3
    <3> QED BY <3>2, <3>3
  <2>2. CASE \E v \in Workers \ {w} : Copy(v, i)'
    BY <2>2 DEF KnownItem, Seen, Copy
  <2>3. CASE Copy(w, i)'
    BY <1>1, <2>3 DEF Copy
  <2> QED BY <1>3, <2>1, <2>2, <2>3 DEF Seen
<1>4. ASSUME NEW c \in Customers, NEW id \in Nat \ {0}, Refers(c, id)' PROVE MayRefer(c, id, o)
  <2>1. CASE \E st \in Shown' :
            \E d \in st.carts : d.cust = c /\ \E j \in 1..Len(d.refs) : d.refs[j] = id
    <3>1. PICK st \in Shown' :
            \E d \in st.carts : d.cust = c /\ \E j \in 1..Len(d.refs) : d.refs[j] = id
      BY <2>1
    <3>2. CASE st \in Shown
      BY <3>1, <3>2 DEF MayRefer, Refers
    <3>3. CASE st = [carts |-> carts', items |-> items']
      <4>1. PICK d \in carts' : d.cust = c /\ \E j \in 1..Len(d.refs) : d.refs[j] = id
        BY <3>1, <3>3
      <4>2. CASE d \in carts
        BY <1>1, <4>1, <4>2 DEF MayRefer, Refers
      <4> QED BY <4>1, <4>2
    <3> QED BY <3>2, <3>3
  <2>2. CASE \E v \in Workers \ {w} : /\ worker'[v].cart.cust = c
                          /\ \E k \in 1..Len(worker'[v].cart.items) :
                                 worker'[v].cart.items[k].id = id
    <3>1. PICK v \in Workers \ {w} : /\ worker'[v].cart.cust = c
                          /\ \E k \in 1..Len(worker'[v].cart.items) :
                                 worker'[v].cart.items[k].id = id
      BY <2>2
    <3>2. worker'[v] = worker[v]
      OBVIOUS
    <3>3. Refers(c, id)
      BY <3>1, <3>2 DEF Refers
    <3> QED BY <3>3 DEF MayRefer
  <2>3. CASE \E v \in Workers \ {w} : /\ Source(v)' = c
                          /\ \E k \in 1..Len(worker'[v].hand) : worker'[v].hand[k].id = id
    <3>1. PICK v \in Workers \ {w} : /\ Source(v)' = c
                          /\ \E k \in 1..Len(worker'[v].hand) : worker'[v].hand[k].id = id
      BY <2>3
    <3>2. worker'[v] = worker[v] /\ Source(v)' = Source(v)
      BY DEF Source
    <3>3. Refers(c, id)
      BY <3>1, <3>2 DEF Refers
    <3> QED BY <3>3 DEF MayRefer
  <2>4. CASE /\ worker'[w].cart.cust = c
             /\ \E k \in 1..Len(worker'[w].cart.items) : worker'[w].cart.items[k].id = id
    BY <2>4
  <2>5. CASE /\ Source(w)' = c
             /\ \E k \in 1..Len(worker'[w].hand) : worker'[w].hand[k].id = id
    BY <2>5
  <2> QED BY <1>4, <2>1, <2>2, <2>3, <2>4, <2>5 DEF Refers
<1>5. ASSUME NEW i \in StoredItem, KnownItem(i) PROVE i.id < nextId
  BY <1>5 DEF KnownItem, AskedInv
<1>6. \A i \in StoredItem : Seen(i)' => i.id < nextId'
  BY <1>1, <1>3, <1>5 DEF NewFor
<1>7. ASSUME NEW c \in Customers, NEW id \in Nat \ {0}, MayRefer(c, id, o)
      PROVE  id < nextId \/ (c = o /\ id = nextId /\ nextId' = nextId + 1)
  BY <1>7, CartsAssumption DEF MayRefer, AskedInv
<1>8. \A c \in Customers, id \in Nat \ {0} : Refers(c, id)' => id < nextId'
  BY <1>1, <1>4, <1>7
<1>9. ASSUME NEW c \in Customers, NEW i \in StoredItem, Seen(i)', Refers(c, i.id)'
      PROVE  i.itemId \in MayHold(c)
  <2>1. /\ KnownItem(i) \/ NewFor(i, o)
        /\ MayRefer(c, i.id, o) /\ i.id \in Nat \ {0}
    BY <1>1, <1>3, <1>4, <1>9
  <2>2. CASE KnownItem(i)
    <3>1. PICK j \in StoredItem : Seen(j) /\ j.id = i.id /\ j.itemId = i.itemId
      BY <2>2 DEF KnownItem
    <3>2. i.id < nextId
      BY <1>5, <2>2
    <3>3. CASE Refers(c, i.id)
      BY <3>1, <3>3 DEF AskedInv
    <3>4. CASE \E s \in Sessions : <<c, s>> \in merged /\ Refers(s, i.id)
      <4>1. PICK s \in Sessions : <<c, s>> \in merged /\ Refers(s, i.id)
        BY <3>4
      <4>2. i.itemId \in MayHold(s)
        BY <3>1, <4>1, CartsAssumption DEF AskedInv
      <4> QED BY <4>1, <4>2, MayHoldFacts
    <3> QED BY <1>1, <2>1, <3>2, <3>3, <3>4 DEF MayRefer
  <2>3. CASE NewFor(i, o)
    <3>1. ~(i.id < nextId)
      BY <1>1, <2>3 DEF NewFor
    <3> QED BY <1>7, <2>1, <2>3, <3>1 DEF NewFor
  <2> QED BY <2>1, <2>2, <2>3
<1>10. \A c \in Customers : MayHold(c)' = MayHold(c)
  BY DEF MayHold
<1>11. \A c \in Customers, i \in StoredItem :
          Seen(i)' /\ Refers(c, i.id)' => i.itemId \in MayHold(c)'
  BY <1>9, <1>10
<1> QED BY <1>2, <1>6, <1>8, <1>11 DEF AskedInv

\* What w holds is seen, and referred to by the cart it came from.
LEMMA OwnCopies ==
    ASSUME AskedInv, NEW w \in Workers
    PROVE  /\ worker[w].cart.items \in Seq(StoredItem) /\ worker[w].hand \in Seq(Item)
           /\ \A k \in 1..Len(worker[w].cart.items) :
                  /\ worker[w].cart.items[k] \in StoredItem
                  /\ Seen(worker[w].cart.items[k]) /\ KnownItem(worker[w].cart.items[k])
                  /\ Refers(worker[w].cart.cust, worker[w].cart.items[k].id)
           /\ \A k \in 1..Len(worker[w].hand) :
                  /\ worker[w].hand[k] \in Item
                  /\ worker[w].hand[k].id # 0 =>
                         /\ worker[w].hand[k] \in StoredItem
                         /\ KnownItem(worker[w].hand[k])
                  /\ Refers(Source(w), worker[w].hand[k].id)
           /\ \A i \in items : i \in StoredItem /\ KnownItem(i)
<1> DEFINE its == worker[w].cart.items
           hand == worker[w].hand
<1>1. its \in Seq(StoredItem) /\ hand \in Seq(Item)
  BY DEF AskedInv, TypeInv, StateOK, WorkerState
<1>2. \A k \in 1..Len(its) : its[k] \in StoredItem
  BY <1>1, ElementOfSeq
<1>3. \A k \in 1..Len(hand) : hand[k] \in Item /\ (hand[k].id # 0 => hand[k] \in StoredItem)
  BY <1>1, ElementOfSeq DEF StoredItem
<1>4. \A k \in 1..Len(its) : Seen(its[k]) /\ Refers(worker[w].cart.cust, its[k].id)
  BY DEF Seen, Copy, Refers
<1>5. \A k \in 1..Len(hand) : Seen(hand[k]) /\ Refers(Source(w), hand[k].id)
  BY DEF Seen, Copy, Refers
<1>6. \A i \in items : i \in StoredItem /\ Seen(i)
  <2>1. TypeInv
    BY DEF AskedInv
  <2>2. [carts |-> carts, items |-> items] \in Shown /\ items \subseteq StoredItem
    BY <2>1, ShownFacts DEF TypeInv, StoreInv
  <2> QED BY <2>2 DEF Seen
<1> QED BY <1>1, <1>2, <1>3, <1>4, <1>5, <1>6 DEF KnownItem

\* A step that leaves w with this cart and this hand, or free.
LEMMA AskedMove ==
    ASSUME AskedInv, TypeInv', NEW w \in Workers, NEW o \in Customers,
           NEW todo, NEW cart, NEW hand, Becomes(w, todo, cart, hand) \/ Ends(w),
           UNCHANGED <<asked, merged>>,
           nextId' \in {nextId, nextId + 1},
           Shown' \subseteq Shown \cup {[carts |-> carts', items |-> items']},
           \A i \in items' : KnownItem(i) \/ NewFor(i, o),
           \A d \in carts' :
               d \in carts \/ \A j \in 1..Len(d.refs) : MayRefer(d.cust, d.refs[j], o),
           \A k \in 1..Len(cart.items) :
               KnownItem(cart.items[k]) /\ MayRefer(cart.cust, cart.items[k].id, o),
           \A k \in 1..Len(hand) :
               /\ hand[k].itemId \in MayHold(Source(w))
               /\ hand[k].id # 0 => /\ KnownItem(hand[k]) \/ NewFor(hand[k], o)
                                    /\ MayRefer(Source(w), hand[k].id, o),
           todo # <<>> /\ Head(todo) \in LoadedSteps =>
               cart.cust = IF worker[w].req.op = "merge" /\ Head(todo) # "mergeItem"
                           THEN worker[w].req.other ELSE worker[w].req.cust,
           Busy(w)
    PROVE  AskedInv'
<1>1. \A v \in Workers \ {w} : worker'[v] = worker[v]
  BY DEF Becomes, Ends
<1>2. CASE worker'[w] = Free
  <2>1. worker'[w].cart.items = <<>> /\ worker'[w].hand = <<>> /\ ~Busy(w)'
    BY <1>2 DEF Free, NoCart, Busy
  <2>2. Recorded(w)'
    BY <2>1 DEF Recorded, At, Busy
  <2> QED BY <1>1, <2>1, <2>2, AskedKept
<1>3. CASE /\ worker'[w].todo = todo /\ worker'[w].cart = cart /\ todo # <<>>
           /\ worker'[w].hand = hand /\ worker'[w].req = worker[w].req
  <2>1. Source(w)' = Source(w)
    BY <1>3 DEF Source
  <2>2. \A c : MayHold(c)' = MayHold(c)
    BY DEF MayHold
  <2>3. worker[w].req.op = "merge" => <<worker[w].req.cust, worker[w].req.other>> \in merged
    BY DEF AskedInv, Recorded
  <2>4. Recorded(w)'
    BY <1>3, <2>1, <2>2, <2>3 DEF Recorded, At, Owner
  <2>5. \A k \in 1..Len(worker'[w].cart.items) :
               /\ KnownItem(worker'[w].cart.items[k])
               /\ MayRefer(worker'[w].cart.cust, worker'[w].cart.items[k].id, o)
    BY <1>3
  <2>6. \A k \in 1..Len(worker'[w].hand) : worker'[w].hand[k].id # 0 =>
               /\ KnownItem(worker'[w].hand[k]) \/ NewFor(worker'[w].hand[k], o)
               /\ MayRefer(Source(w)', worker'[w].hand[k].id, o)
    BY <1>3, <2>1
  <2> QED BY <1>1, <2>4, <2>5, <2>6, AskedKept
<1> QED BY <1>2, <1>3 DEF Becomes, Ends

\* The facts a step starts from, with overlap and lag.
LEMMA AskedWorking ==
    ASSUME AskedInv, NEW w \in Workers, NEW step, Does(w, step)
    PROVE  /\ TypeInv /\ Busy(w) /\ nextId \in Nat
           /\ worker[w] \in WorkerState /\ worker[w].req \in Requests
           /\ worker[w].todo \in Seq(StepNames) /\ worker[w].todo # <<>>
           /\ Head(worker[w].todo) = step
           /\ worker[w].req.cust \in Customers
           /\ Source(w) \in Customers
           /\ \A k \in 1..Len(worker[w].hand) : worker[w].hand[k].itemId \in MayHold(Source(w))
           /\ worker[w].req.op = "merge" =>
                  /\ <<worker[w].req.cust, worker[w].req.other>> \in merged
                  /\ worker[w].req.other \in Sessions
           /\ step # "create" =>
                PhaseOK(step, worker[w].req.op, Tail(worker[w].todo), Goal(worker[w]),
                      worker[w].hand)
           /\ step \in LoadedSteps => worker[w].cart.cust = Owner(w)
<1>1. /\ TypeInv /\ StateOK(worker[w]) /\ worker[w].req # None /\ Head(worker[w].todo) = step
      /\ Recorded(w) /\ Busy(w)
  BY BusyStep DEF AskedInv, Busy
<1>2. /\ worker[w] \in WorkerState /\ worker[w].req \in Requests
      /\ worker[w].todo \in Seq(StepNames) /\ worker[w].todo # <<>>
  BY <1>1, AtStep DEF StateOK
<1>3. step # "create" =>
          PhaseOK(step, worker[w].req.op, Tail(worker[w].todo), Goal(worker[w]), worker[w].hand)
  BY <1>1, PhaseOf
<1>4. /\ worker[w].req.cust \in Customers
      /\ worker[w].req.op = "merge" => worker[w].req.other \in Sessions
      /\ Source(w) \in Customers
  BY <1>2, RequestOps, CartsAssumption DEF Source
<1> QED BY <1>1, <1>2, <1>3, <1>4 DEF Recorded, At, TypeInv, StoreInv

\* A step that writes nothing.
LEMMA AskedPrivate ==
    ASSUME AskedInv, TypeInv', NEW w \in Workers, Busy(w),
           UNCHANGED <<asked, merged, carts, items, lagging, nextId>>,
           NEW todo, NEW cart, NEW hand, Becomes(w, todo, cart, hand) \/ Ends(w),
           \A k \in 1..Len(cart.items) :
               KnownItem(cart.items[k]) /\ Refers(cart.cust, cart.items[k].id),
           \A k \in 1..Len(hand) :
               /\ hand[k].itemId \in MayHold(Source(w))
               /\ hand[k].id # 0 => KnownItem(hand[k]) /\ Refers(Source(w), hand[k].id),
           todo # <<>> /\ Head(todo) \in LoadedSteps =>
               cart.cust = IF worker[w].req.op = "merge" /\ Head(todo) # "mergeItem"
                           THEN worker[w].req.other ELSE worker[w].req.cust
    PROVE  AskedInv'
<1>1. Shown' = Shown
  BY DEF Shown, States
<1>2. \A i \in items' : KnownItem(i)
  BY OwnCopies
<1>3. PICK o : o = worker[w].req.cust /\ o \in Customers
  <2>1. worker[w].req \in Requests
    BY AtStep DEF AskedInv, TypeInv, Busy
  <2> QED BY <2>1, RequestOps
<1>4. \A k \in 1..Len(cart.items) :
          KnownItem(cart.items[k]) /\ MayRefer(cart.cust, cart.items[k].id, o)
  BY DEF MayRefer
<1>5. \A k \in 1..Len(hand) :
          /\ hand[k].itemId \in MayHold(Source(w))
          /\ hand[k].id # 0 => /\ KnownItem(hand[k]) \/ NewFor(hand[k], o)
                               /\ MayRefer(Source(w), hand[k].id, o)
  BY DEF MayRefer
<1> QED BY <1>1, <1>2, <1>3, <1>4, <1>5, AskedMove

\* The items a look-up loads are seen, and referred to by the cart it read.
LEMMA LoadSeen ==
    ASSUME TypeInv, NEW d \in View.carts
    PROVE  /\ Load(d).cust = d.cust
           /\ \A k \in 1..Len(Load(d).items) :
                 KnownItem(Load(d).items[k]) /\ Refers(d.cust, Load(d).items[k].id)
<1> DEFINE live == Live(d.refs, Ids(View.items))
<1>1. /\ View \in Shown /\ View.items \subseteq StoredItem /\ StoreInv
      /\ d \in CartDoc /\ d.refs \in Seq(Nat \ {0})
  BY ShownFacts DEF CartDoc, TypeInv
<1>2. /\ live \in Seq(Nat \ {0})
      /\ \A k \in 1..Len(live) : /\ live[k] \in Ids(View.items)
                                 /\ \E j \in 1..Len(d.refs) : live[k] = d.refs[j]
  BY <1>1, LiveRefs
<1>3. Load(d).items = [k \in 1..Len(live) |-> ItemDoc(live[k], View.items)]
      /\ Load(d).cust = d.cust
  BY DEF Load
<1> HIDE DEF live
<1>4. Len(live) \in Nat
  BY <1>2
<1>5. Len(Load(d).items) = Len(live)
      /\ \A k \in 1..Len(live) : Load(d).items[k] = ItemDoc(live[k], View.items)
  BY <1>3, <1>4
<1>6. \A k \in 1..Len(live) : ItemDoc(live[k], View.items) \in View.items
         /\ ItemDoc(live[k], View.items).id = live[k]
  BY <1>2, DocOfId
<1>7. ASSUME NEW k \in 1..Len(Load(d).items)
      PROVE  KnownItem(Load(d).items[k]) /\ Refers(d.cust, Load(d).items[k].id)
  <2>1. PICK i : i = Load(d).items[k]
    OBVIOUS
  <2>2. i \in View.items /\ \E j \in 1..Len(d.refs) : d.refs[j] = i.id
    BY <1>2, <1>5, <1>6, <2>1
  <2>3. Seen(i) /\ i \in StoredItem
    BY <1>1, <2>2 DEF Seen
  <2>4. Refers(d.cust, i.id)
    BY <1>1, <2>2 DEF Refers
  <2> QED BY <2>1, <2>3, <2>4 DEF KnownItem
<1> QED BY <1>3, <1>7

\* A look-up copies what a cart of its customer refers to, and no more.
LEMMA FindAsked ==
    ASSUME AskedInv, TypeInv', NEW w \in Workers, Find(w), UNCHANGED <<asked, merged>>
    PROVE  AskedInv'
<1> DEFINE st == worker[w]
<1>0. PICK c : c = IF Does(w, "value") THEN st.req.cust ELSE st.req.other
  OBVIOUS
<1>1. PICK step \in {"value", "session"} : Does(w, step) /\ c = Target(st.req, step)
  BY <1>0 DEF Find, Does, Target
<1>2. /\ TypeInv /\ Busy(w) /\ st \in WorkerState /\ st.todo \in Seq(StepNames) /\ st.todo # <<>>
      /\ PhaseOK(step, st.req.op, Tail(st.todo), Goal(st), st.hand)
      /\ \A k \in 1..Len(st.hand) : st.hand[k].itemId \in MayHold(Source(w))
  BY <1>1, AskedWorking
<1>3. UNCHANGED <<carts, items, lagging, nextId>>
  BY DEF Find, store
<1>4. \A k \in 1..Len(st.hand) :
               /\ st.hand[k].itemId \in MayHold(Source(w))
               /\ st.hand[k].id # 0 => KnownItem(st.hand[k]) /\ Refers(Source(w), st.hand[k].id)
  BY <1>2, OwnCopies
<1>5. ASSUME NEW d \in CartsOf(c, View.carts), Step(w, Load(d), st.hand)
      PROVE  AskedInv'
  <2>1. d \in View.carts /\ d.cust = c
    BY DEF CartsOf
  <2>2. Becomes(w, Tail(st.todo), Load(d), st.hand)
    BY <1>2, <1>5, StepBecomes
  <2>3. /\ Load(d).cust = c
        /\ \A k \in 1..Len(Load(d).items) :
               KnownItem(Load(d).items[k]) /\ Refers(Load(d).cust, Load(d).items[k].id)
    BY <1>2, <2>1, LoadSeen
  <2>4. Tail(st.todo) # <<>> /\ Head(Tail(st.todo)) \in LoadedSteps =>
            Load(d).cust = IF st.req.op = "merge" /\ Head(Tail(st.todo)) # "mergeItem"
                           THEN st.req.other ELSE st.req.cust
    BY <1>1, <1>2, <2>3 DEF PhaseOK, Target, LoadedSteps
  <2>5. PICK cart, todo : cart = Load(d) /\ todo = Tail(st.todo)
    OBVIOUS
  <2> QED BY <1>2, <1>3, <1>4, <2>2, <2>3, <2>4, <2>5, AskedPrivate
<1>6. ASSUME Continue(w, [st EXCEPT !.todo = <<"create">> \o @,
                                    !.cart = [id |-> 0, cust |-> c, items |-> <<>>]])
      PROVE  AskedInv'
  <2> DEFINE new == [st EXCEPT !.todo = <<"create">> \o @,
                               !.cart = [id |-> 0, cust |-> c, items |-> <<>>]]
  <2>1. /\ new.todo = <<"create">> \o st.todo /\ new.todo # <<>> /\ new.req = st.req
        /\ new.cart = [id |-> 0, cust |-> c, items |-> <<>>] /\ new.hand = st.hand
        /\ Head(new.todo) = "create"
    BY <1>2 DEF WorkerState
  <2>2. Continue(w, new)
    BY <1>6
  <2> HIDE DEF new
  <2>3. Becomes(w, new.todo, new.cart, new.hand)
    BY <1>2, <2>1, <2>2, EnterBecomes
  <2>4. PICK cart, todo : cart = new.cart /\ todo = new.todo
    OBVIOUS
  <2>5. /\ \A k \in 1..Len(cart.items) : FALSE
        /\ Head(todo) \notin LoadedSteps /\ Becomes(w, todo, cart, st.hand)
    BY <2>1, <2>3, <2>4 DEF LoadedSteps
  <2> QED BY <1>2, <1>3, <1>4, <2>5, AskedPrivate
<1> QED BY <1>0, <1>5, <1>6 DEF Find

\* A step that only decides what comes next.
LEMMA DecideAsked ==
    ASSUME AskedInv, TypeInv', NEW w \in Workers, UNCHANGED <<asked, merged>>,
           HasItem(w) \/ FindItem(w) \/ Increment(w) \/ MergeItems(w) \/ Abort(w)
    PROVE  AskedInv'
<1> DEFINE st == worker[w]
<1>1. /\ TypeInv /\ UNCHANGED <<carts, items, lagging, nextId>>
      /\ st \in WorkerState /\ st.cart.items \in Seq(StoredItem)
  BY OwnCopies DEF AskedInv, TypeInv, HasItem, FindItem, Increment, MergeItems, Abort, store
<1>2. Busy(w)
  BY BusyStep, <1>1 DEF HasItem, FindItem, Increment, MergeItems, Abort, Busy
<1>3. \A k \in 1..Len(st.cart.items) :
          KnownItem(st.cart.items[k]) /\ Refers(st.cart.cust, st.cart.items[k].id)
  BY OwnCopies
<1>4. \A k \in 1..Len(st.hand) :
               /\ st.hand[k].itemId \in MayHold(Source(w))
               /\ st.hand[k].id # 0 => KnownItem(st.hand[k]) /\ Refers(Source(w), st.hand[k].id)
  BY <1>2, OwnCopies DEF AskedInv, Recorded
\* The items of the cart may be taken in the hand.
<1>5. ASSUME st.cart.cust = Source(w), Source(w) \in Customers, NEW k \in 1..Len(st.cart.items)
      PROVE  /\ st.cart.items[k].itemId \in MayHold(Source(w))
             /\ KnownItem(st.cart.items[k]) /\ Refers(Source(w), st.cart.items[k].id)
  <2>1. /\ st.cart.items[k] \in StoredItem /\ Seen(st.cart.items[k])
        /\ Refers(Source(w), st.cart.items[k].id) /\ KnownItem(st.cart.items[k])
    BY <1>5, OwnCopies
  <2> QED BY <1>5, <2>1 DEF AskedInv
<1>6. CASE Abort(w)
  <2>1. Ends(w)
    BY <1>1, <1>6, FailEnds DEF Abort
  <2> QED BY <1>1, <1>2, <1>3, <1>4, <2>1, <1>2, AskedPrivate DEF Ends, Becomes
<1>7. CASE HasItem(w)
  <2>1. PICK todo \in {PresentScript, AbsentScript} : Continue(w, [st EXCEPT !.todo = todo])
    BY <1>7 DEF HasItem
  <2> DEFINE new == [st EXCEPT !.todo = todo]
  <2>2. todo # <<>> /\ Head(todo) = "value"
    BY Spelled
  <2>3. new.todo = todo /\ new.cart = st.cart /\ new.hand = st.hand /\ new.req = st.req
    BY <1>1 DEF WorkerState
  <2>4. Continue(w, new)
    BY <2>1
  <2> HIDE DEF new
  <2>5. Becomes(w, todo, st.cart, st.hand)
    BY <1>1, <2>2, <2>3, <2>4, EnterBecomes
  <2> QED BY <1>1, <1>2, <1>3, <1>4, <2>2, <2>5, AskedPrivate DEF LoadedSteps
<1>8. CASE Increment(w)
  <2> DEFINE new == [st EXCEPT !.todo = UpdateScript, !.qty = st.cart.items[FirstWanted(w)].qty + 1]
  <2>1. UpdateScript # <<>> /\ Head(UpdateScript) = "value"
    BY Spelled
  <2>2. new.todo = UpdateScript /\ new.cart = st.cart /\ new.hand = st.hand /\ new.req = st.req
    BY <1>1 DEF WorkerState
  <2>3. Fail(w) \/ Continue(w, new)
    BY <1>8 DEF Increment
  <2> HIDE DEF new
  <2>4. Ends(w) \/ Becomes(w, UpdateScript, st.cart, st.hand)
    BY <1>1, <2>1, <2>2, <2>3, EnterBecomes, FailEnds
  <2> QED BY <1>1, <1>2, <1>3, <1>4, <2>1, <2>4, AskedPrivate DEF LoadedSteps
<1>9. CASE MergeItems(w)
  <2> DEFINE new == [st EXCEPT !.todo = MergeRest(st.cart.items), !.hand = st.cart.items]
  <2>1. /\ st.req.op = "merge" /\ st.cart.cust = Owner(w) /\ Head(st.todo) = "mergeItems"
        /\ Source(w) \in Customers
    BY <1>9, AskedWorking DEF MergeItems, PhaseOK, LoadedSteps
  <2>2. st.cart.cust = Source(w)
    BY <2>1 DEF Owner, Source
  <2>3. /\ new.todo = MergeRest(st.cart.items) /\ new.cart = st.cart
        /\ new.hand = st.cart.items /\ new.req = st.req
    BY <1>1 DEF WorkerState
  <2>4. Continue(w, new)
    BY <1>9 DEF MergeItems
  <2> HIDE DEF new
  <2>5. Becomes(w, MergeRest(st.cart.items), st.cart, st.cart.items)
    BY <1>1, <2>3, <2>4, MergeRestHead, EnterBecomes
  <2>6. Head(MergeRest(st.cart.items)) \notin LoadedSteps
    BY MergeRestHead DEF LoadedSteps
  <2>7. PICK hand, todo : hand = st.cart.items /\ todo = MergeRest(st.cart.items)
    OBVIOUS
  <2> QED BY <1>1, <1>2, <1>3, <1>5, <2>1, <2>2, <2>5, <2>6, <2>7, AskedPrivate
<1>10. CASE FindItem(w)
  <2>1. /\ st.req.op # "merge" /\ st.cart.cust = Owner(w) /\ Source(w) \in Customers
        /\ Tail(st.todo) # <<>> => Head(Tail(st.todo)) \notin LoadedSteps
    BY <1>10, AskedWorking DEF FindItem, PhaseOK, LoadedSteps
  <2>2. st.cart.cust = Source(w)
    BY <2>1 DEF Owner, Source
  <2>3. CASE Ends(w)
    BY <1>1, <1>2, <1>3, <1>4, <2>3, AskedPrivate DEF Ends, Becomes
  <2>4. CASE Wanted(w) # {} /\ Step(w, st.cart, <<st.cart.items[FirstWanted(w)]>>)
    <3>1. PICK hand : hand = <<st.cart.items[FirstWanted(w)]>>
      OBVIOUS
    <3>2. FirstWanted(w) \in 1..Len(st.cart.items)
      BY <1>1, <2>4, FirstWantedIn
    <3>3. Len(hand) = 1 /\ hand[1] = st.cart.items[FirstWanted(w)]
      BY <3>1
    <3>4. Becomes(w, Tail(st.todo), st.cart, hand)
      BY <1>1, <2>4, <3>1, StepBecomes
    <3>5. \A k \in 1..Len(hand) :
               /\ hand[k].itemId \in MayHold(Source(w))
               /\ hand[k].id # 0 => KnownItem(hand[k]) /\ Refers(Source(w), hand[k].id)
      BY <1>5, <2>1, <2>2, <3>2, <3>3
    <3> QED BY <1>1, <1>2, <1>3, <2>1, <3>4, <3>5, AskedPrivate
  <2> QED BY <1>1, <1>10, <2>3, <2>4, FailEnds DEF FindItem
<1> QED BY <1>6, <1>7, <1>8, <1>9, <1>10

\* A step that saves an item has one in its hand.
LEMMA HandThere ==
    ASSUME TypeInv, NEW w \in Workers,
           Does(w, "saveItem") \/ Does(w, "saveQuantity") \/ Does(w, "addItem")
    PROVE  worker[w].hand # <<>> /\ 1 \in 1..Len(worker[w].hand)
<1> DEFINE st == worker[w]
<1>1. PICK step \in {"saveItem", "saveQuantity", "addItem"} : Does(w, step)
  OBVIOUS
<1>2. /\ StateOK(st) /\ st.req # None /\ Head(st.todo) = step /\ Head(st.todo) # "create"
      /\ st.hand \in Seq(Item)
  BY <1>1, BusyStep DEF StateOK, WorkerState
<1>3. PICK s \in Scripts(st.req.op) : \E m \in 1..Len(s) :
          /\ s \in AllScripts /\ HandOK(st.hand, st.req.op, s, Len(st.todo)) /\ s[m] = step
          /\ Len(st.todo) = Len(s) - m + 1
  BY <1>2, ScriptStep
<1>4. s = AbsentScript \/ (s = UpdateScript /\ Len(st.todo) = 1)
  BY <1>3, Where
<1>5. st.hand # <<>>
  BY <1>3, <1>4 DEF HandOK
<1> QED BY <1>2, <1>5

\* A step that writes, with what it writes and what it leaves w.
LEMMA AskedWrite ==
    ASSUME AskedInv, TypeInv', NEW w \in Workers, NEW o \in Customers, Busy(w),
           UNCHANGED <<asked, merged>>, nextId' \in {nextId, nextId + 1},
           NEW newCarts, NEW newItems, Write(newCarts, newItems),
           NEW todo, NEW cart, NEW hand, Becomes(w, todo, cart, hand) \/ Ends(w),
           \A i \in newItems : i \in items \/ KnownItem(i) \/ NewFor(i, o),
           \A d \in newCarts :
               d \in carts \/ \A j \in 1..Len(d.refs) : MayRefer(d.cust, d.refs[j], o),
           cart = worker[w].cart \/ Len(cart.items) = 0,
           \A k \in 1..Len(hand) :
               /\ hand[k].itemId \in MayHold(Source(w))
               /\ hand[k].id # 0 => /\ KnownItem(hand[k]) \/ NewFor(hand[k], o)
                                    /\ MayRefer(Source(w), hand[k].id, o),
           todo # <<>> /\ Head(todo) \in LoadedSteps =>
               cart.cust = IF worker[w].req.op = "merge" /\ Head(todo) # "mergeItem"
                           THEN worker[w].req.other ELSE worker[w].req.cust
    PROVE  AskedInv'
<1>1. Shown' \subseteq Shown \cup {[carts |-> carts', items |-> items']}
      /\ carts' = newCarts /\ items' = newItems
  BY ShownWrite DEF AskedInv, TypeInv, Write
<1>2. \A i \in items' : KnownItem(i) \/ NewFor(i, o)
  BY <1>1, OwnCopies
<1>3. \A k \in 1..Len(cart.items) :
          KnownItem(cart.items[k]) /\ MayRefer(cart.cust, cart.items[k].id, o)
  BY OwnCopies DEF MayRefer
<1> QED BY <1>1, <1>2, <1>3, AskedMove

\* Saving a cart leaves one new document, which refers to the items of the cart.
LEMMA SavedDoc ==
    ASSUME NEW cart, cart.items \in Seq(StoredItem), NEW docs, NEW d \in SaveDoc(cart, docs)
    PROVE  \/ d \in docs
           \/ /\ d.cust = cart.cust /\ Len(d.refs) = Len(cart.items)
              /\ \A j \in 1..Len(d.refs) : d.refs[j] = cart.items[j].id
<1>1. Len(Refs(cart)) = Len(cart.items)
      /\ \A k \in 1..Len(cart.items) : Refs(cart)[k] = cart.items[k].id
  BY RefsType
<1> QED BY <1>1 DEF SaveDoc, Upsert

\* An empty cart refers to nothing.
LEMMA CreateAsked ==
    ASSUME AskedInv, TypeInv', NEW w \in Workers, Create(w), UNCHANGED <<asked, merged>>
    PROVE  AskedInv'
<1> DEFINE st == worker[w]
           cart == [st.cart EXCEPT !.id = nextId]
<1>1. /\ TypeInv /\ Busy(w) /\ StateOK(st) /\ st.req # None /\ Head(st.todo) = "create"
      /\ st \in WorkerState /\ st.todo \in Seq(StepNames) /\ st.todo # <<>>
      /\ st.req.cust \in Customers
      /\ \A k \in 1..Len(st.hand) : st.hand[k].itemId \in MayHold(Source(w))
  BY BusyStep, AskedWorking DEF Create, AskedInv
<1>2. PICK s \in Scripts(st.req.op) : Follows(st, s)
  BY <1>1 DEF StateOK
<1>3. /\ Tail(st.todo) # <<>> /\ Head(Tail(st.todo)) \in {"value", "session"}
      /\ st.cart = [id |-> 0, cust |-> Target(st.req, Head(Tail(st.todo))), items |-> <<>>]
  BY <1>1, <1>2 DEF Follows, Remaining
<1>4. cart.items = <<>>
  BY <1>3
<1> HIDE DEF cart
<1>5. Write(SaveDoc(cart, carts), items) /\ nextId' = nextId + 1
  BY DEF Create, cart
<1>6. \A d \in SaveDoc(cart, carts) :
          d \in carts \/ \A j \in 1..Len(d.refs) : MayRefer(d.cust, d.refs[j], st.req.cust)
  <2>1. cart.items \in Seq(StoredItem) /\ Len(cart.items) = 0
    BY <1>4
  <2> QED BY <2>1, SavedDoc
<1>7. Becomes(w, Tail(st.todo), NoCart, st.hand)
  BY <1>1, StepBecomes DEF Create
<1>8. \A k \in 1..Len(st.hand) :
               /\ st.hand[k].itemId \in MayHold(Source(w))
               /\ st.hand[k].id # 0 => /\ KnownItem(st.hand[k]) \/ NewFor(st.hand[k], st.req.cust)
                                       /\ MayRefer(Source(w), st.hand[k].id, st.req.cust)
  BY <1>1, OwnCopies DEF MayRefer
<1>9. Head(Tail(st.todo)) \notin LoadedSteps /\ Len(NoCart.items) = 0
  BY <1>3 DEF LoadedSteps, NoCart
<1>10. PICK todo, none : todo = Tail(st.todo) /\ none = NoCart
  OBVIOUS
<1>11. PICK o \in Customers : o = st.req.cust
  BY <1>1
<1> QED BY <1>1, <1>11, <1>5, <1>6, <1>7, <1>8, <1>9, <1>10, AskedWrite

\* The steps that save or destroy an item document.
LEMMA ItemAsked ==
    ASSUME AskedInv, TypeInv', NEW w \in Workers, UNCHANGED <<asked, merged>>,
           SaveItem(w) \/ SaveQuantity(w) \/ DestroyItem(w)
    PROVE  AskedInv'
<1> DEFINE st == worker[w]
<1>1. PICK step \in {"saveItem", "saveQuantity", "destroyItem"} : Does(w, step)
             /\ (SaveItem(w) => step = "saveItem")
  <2>1. Does(w, "saveItem") => ~Does(w, "saveQuantity") /\ ~Does(w, "destroyItem")
    BY DEF Does
  <2> QED BY <2>1 DEF SaveItem, SaveQuantity, DestroyItem
<1>2. /\ TypeInv /\ Busy(w) /\ st \in WorkerState /\ Source(w) \in Customers
      /\ nextId \in Nat \ {0} /\ st.hand \in Seq(Item)
      /\ PhaseOK(step, st.req.op, Tail(st.todo), Goal(st), st.hand)
      /\ \A k \in 1..Len(st.hand) : st.hand[k].itemId \in MayHold(Source(w))
      /\ step \in LoadedSteps => st.cart.cust = Owner(w)
  BY <1>1, AskedWorking, OwnCopies DEF TypeInv, StoreInv
<1>3. PICK o \in Customers : o = Source(w)
  BY <1>2
<1>4. \A k \in 1..Len(st.hand) :
               /\ st.hand[k].itemId \in MayHold(Source(w))
               /\ st.hand[k].id # 0 => /\ KnownItem(st.hand[k]) \/ NewFor(st.hand[k], o)
                                       /\ MayRefer(Source(w), st.hand[k].id, o)
  BY <1>2, OwnCopies DEF MayRefer
<1>5. CASE SaveItem(w)
  <2> DEFINE new == st.hand[1].id = 0
             item == [st.hand[1] EXCEPT !.id = IF new THEN nextId ELSE @]
  <2>1. /\ 1 \in 1..Len(st.hand) /\ st.hand[1] \in Item /\ step = "saveItem"
    BY <1>1, <1>2, <1>5, HandThere, ElementOfSeq
  <2>2. /\ item.itemId = st.hand[1].itemId
        /\ item.id = IF new THEN nextId ELSE st.hand[1].id
    BY <2>1 DEF Item
  <2>3. /\ Write(carts, Upsert(item, items)) /\ Step(w, st.cart, <<item>>)
        /\ nextId' = IF new THEN nextId + 1 ELSE nextId
    BY <1>5 DEF SaveItem
  <2> HIDE DEF item
  <2>4. KnownItem(item) \/ NewFor(item, o)
    <3>1. CASE new
      BY <1>2, <1>3, <2>1, <2>2, <2>3, <3>1 DEF NewFor
    <3>2. CASE ~new
      <4>1. KnownItem(st.hand[1])
        BY <2>1, <3>2, OwnCopies
      <4> QED BY <2>2, <3>2, <4>1 DEF KnownItem
    <3> QED BY <3>1, <3>2
  <2>5. MayRefer(Source(w), item.id, o)
    BY <1>3, <1>4, <2>1, <2>2, <2>3 DEF MayRefer
  <2>6. Becomes(w, Tail(st.todo), st.cart, <<item>>)
    BY <1>2, <2>3, StepBecomes
  <2>7. PICK hand, todo, newItems : /\ hand = <<item>> /\ todo = Tail(st.todo)
                                    /\ newItems = Upsert(item, items)
    OBVIOUS
  <2>8. Len(hand) = 1 /\ hand[1] = item
    BY <2>7
  <2>9. \A k \in 1..Len(hand) :
               /\ hand[k].itemId \in MayHold(Source(w))
               /\ hand[k].id # 0 => /\ KnownItem(hand[k]) \/ NewFor(hand[k], o)
                                    /\ MayRefer(Source(w), hand[k].id, o)
    BY <1>2, <2>1, <2>2, <2>4, <2>5, <2>8
  <2>10. \A i \in newItems : i \in items \/ KnownItem(i) \/ NewFor(i, o)
    BY <2>4, <2>7 DEF Upsert
  <2>11. todo # <<>> /\ Head(todo) \in LoadedSteps =>
               st.cart.cust = IF st.req.op = "merge" /\ Head(todo) # "mergeItem"
                              THEN st.req.other ELSE st.req.cust
    BY <1>2, <2>1, <2>7 DEF PhaseOK, Owner, LoadedSteps
  <2>12. nextId' \in {nextId, nextId + 1}
    BY <2>3
  <2>13. Write(carts, newItems) /\ Becomes(w, todo, st.cart, hand)
    BY <2>3, <2>6, <2>7
  <2> QED BY <1>2, <2>9, <2>10, <2>11, <2>12, <2>13, AskedWrite
<1>6. CASE SaveQuantity(w)
  <2> DEFINE item == [st.hand[1] EXCEPT !.qty = st.qty]
  <2>1. /\ 1 \in 1..Len(st.hand) /\ st.hand[1] \in Item /\ Does(w, "saveQuantity")
    BY <1>2, <1>6, HandThere, ElementOfSeq DEF SaveQuantity
  <2>2. /\ Tail(st.todo) = <<>> /\ StateOK(st) /\ st.req # None
    BY <1>2, <2>1, AskedWorking, BusyStep DEF PhaseOK
  <2>3. st.hand[1].id # 0
    <3>0. Head(st.todo) = "saveQuantity" /\ Head(st.todo) # "create"
      BY <2>1 DEF Does
    <3>1. PICK s \in Scripts(st.req.op) : \E m \in 1..Len(s) :
            /\ s \in AllScripts /\ HandOK(st.hand, st.req.op, s, Len(st.todo))
            /\ s[m] = "saveQuantity" /\ Len(st.todo) = Len(s) - m + 1
      BY <2>2, <3>0, ScriptStep
    <3>2. s = UpdateScript /\ Len(st.todo) = 1
      BY <3>1, Where
    <3>3. st.hand \in Seq(StoredItem)
      BY <3>1, <3>2 DEF HandOK
    <3> QED BY <2>1, <3>3, ElementOfSeq DEF StoredItem
  <2>4. item.itemId = st.hand[1].itemId /\ item.id = st.hand[1].id
    BY <2>1 DEF Item
  <2>5. Write(carts, Upsert(item, items)) /\ Step(w, st.cart, st.hand) /\ nextId' = nextId
    BY <1>6 DEF SaveQuantity
  <2> HIDE DEF item
  <2>6. KnownItem(item)
    <3>1. KnownItem(st.hand[1])
      BY <2>1, <2>3, OwnCopies
    <3> QED BY <2>4, <3>1 DEF KnownItem
  <2>7. \A i \in Upsert(item, items) : i \in items \/ KnownItem(i) \/ NewFor(i, o)
    BY <2>6 DEF Upsert
  <2>8. Becomes(w, <<>>, st.cart, st.hand)
    BY <1>2, <2>2, <2>5, StepBecomes
  <2>9. PICK newItems : newItems = Upsert(item, items)
    OBVIOUS
  <2> QED BY <1>2, <1>4, <2>5, <2>7, <2>8, <2>9, AskedWrite
<1>7. CASE DestroyItem(w)
  <2>1. Does(w, "destroyItem") /\ Write(carts, {i \in items : i.id # st.hand[1].id})
        /\ Step(w, st.cart, st.hand) /\ nextId' = nextId
    BY <1>7 DEF DestroyItem
  <2>2. Tail(st.todo) = <<>>
    BY <2>1, AskedWorking DEF PhaseOK
  <2>3. Becomes(w, <<>>, st.cart, st.hand)
    BY <1>2, <2>1, <2>2, StepBecomes
  <2>4. PICK newItems : newItems = {i \in items : i.id # st.hand[1].id}
    OBVIOUS
  <2> QED BY <1>2, <1>4, <2>1, <2>3, <2>4, AskedWrite
<1> QED BY <1>5, <1>6, <1>7

\* A cart with one item more, all of whose items it may refer to.
LEMMA AppendRefers ==
    ASSUME NEW its \in Seq(StoredItem), NEW item \in StoredItem, NEW c, NEW o,
           \A k \in 1..Len(its) : MayRefer(c, its[k].id, o), MayRefer(c, item.id, o)
    PROVE  /\ Append(its, item) \in Seq(StoredItem)
           /\ \A k \in 1..Len(Append(its, item)) : MayRefer(c, Append(its, item)[k].id, o)
<1>1. /\ Append(its, item) \in Seq(StoredItem) /\ Len(Append(its, item)) = Len(its) + 1
      /\ \A k \in 1..Len(its) : Append(its, item)[k] = its[k]
      /\ Append(its, item)[Len(its) + 1] = item /\ Len(its) \in Nat
  OBVIOUS
<1>2. \A k \in 1..Len(its) + 1 : k \in 1..Len(its) \/ k = Len(its) + 1
  BY <1>1
<1> QED BY <1>1, <1>2

\* ... and with one item less.
LEMMA RemoveRefers ==
    ASSUME NEW its \in Seq(StoredItem), NEW n \in 1..Len(its), NEW c, NEW o,
           \A k \in 1..Len(its) : MayRefer(c, its[k].id, o)
    PROVE  /\ RemoveAt(its, n) \in Seq(StoredItem)
           /\ \A k \in 1..Len(RemoveAt(its, n)) : MayRefer(c, RemoveAt(its, n)[k].id, o)
<1>1. /\ RemoveAt(its, n) \in Seq(StoredItem) /\ Len(RemoveAt(its, n)) = Len(its) - 1
      /\ \A k \in 1..Len(its) - 1 : RemoveAt(its, n)[k] = IF k < n THEN its[k] ELSE its[k + 1]
  BY RemoveAtFacts
<1>2. \A k \in 1..Len(its) - 1 : k \in 1..Len(its) /\ k + 1 \in 1..Len(its)
  OBVIOUS
<1> QED BY <1>1, <1>2

\* The item AddItem puts into the cart has been saved before.
LEMMA AddedItem ==
    ASSUME TypeInv, NEW w \in Workers, AddItem(w)
    PROVE  1 \in 1..Len(worker[w].hand) /\ worker[w].hand[1] \in StoredItem
<1> DEFINE st == worker[w]
<1>1. Does(w, "addItem")
  BY DEF AddItem
<1>2. /\ StateOK(st) /\ st.req # None /\ Head(st.todo) = "addItem" /\ Head(st.todo) # "create"
      /\ st.req.op = "add"
  BY <1>1, BusyStep, PhaseOf DEF PhaseOK
<1>3. PICK s \in Scripts(st.req.op) : \E m \in 1..Len(s) :
          /\ s \in AllScripts /\ HandOK(st.hand, st.req.op, s, Len(st.todo)) /\ s[m] = "addItem"
          /\ Len(st.todo) = Len(s) - m + 1
  BY <1>2, ScriptStep
<1>4. s = AbsentScript /\ Len(st.todo) = 1
  BY <1>3, Where
<1>5. HandOK(st.hand, "add", AbsentScript, 1)
  BY <1>2, <1>3, <1>4
<1>6. st.hand # <<>> /\ st.hand \in Seq(StoredItem)
  BY <1>5 DEF HandOK
<1> QED BY <1>6

\* The items a merge holds come from a stored cart.
LEMMA MergedHand ==
    ASSUME TypeInv, NEW w \in Workers, Busy(w), worker[w].req.op = "merge"
    PROVE  worker[w].hand \in Seq(StoredItem)
<1> DEFINE st == worker[w]
<1>1. StateOK(st) /\ st.req # None
  BY DEF TypeInv, Busy
<1>2. PICK s \in Scripts(st.req.op) : Follows(st, s)
  BY <1>1 DEF StateOK
<1>3. HandOK(st.hand, "merge", s, Len(Remaining(st.todo)))
  BY <1>2 DEF Follows
<1> QED BY <1>3 DEF HandOK

\* Only a customer's cart is merged into, and only a session's is merged away.
LEMMA MergeFrom ==
    ASSUME NEW req \in Requests, req.op = "merge"
    PROVE  req.cust \notin Sessions
  BY DEF Requests, CartRequests, ItemRequests, UpdateRequests, MergeRequests

\* A handler begins with a look-up.
LEMMA FirstSteps ==
    ASSUME NEW op \in OpNames
    PROVE  Head(Script(op)) \notin LoadedSteps
<1>1. Head(Script(op)) \in {"value", "session"}
  BY Spelled DEF Script, OpNames
<1> QED BY <1>1 DEF LoadedSteps

\* The items in a hand come from the cart of a customer.
LEMMA SourceType ==
    ASSUME TypeInv, NEW w \in Workers, Busy(w)
    PROVE  Source(w) \in Customers
<1>1. worker[w].req \in Requests
  BY AtStep DEF TypeInv, Busy
<1> QED BY <1>1, RequestOps, CartsAssumption DEF Source

\* The steps that save a whole cart, or delete one.
LEMMA SaveAsked ==
    ASSUME AskedInv, NEW w \in Workers, NEW o,
           NEW newItems \in Seq(StoredItem),
           \A k \in 1..Len(newItems) : MayRefer(worker[w].cart.cust, newItems[k].id, o)
    PROVE  \A d \in SaveDoc([worker[w].cart EXCEPT !.items = newItems], carts) :
               d \in carts \/ \A j \in 1..Len(d.refs) : MayRefer(d.cust, d.refs[j], o)
<1>1. worker[w].cart \in CartObject
  BY DEF AskedInv, TypeInv, StateOK, WorkerState
<1>2. PICK cart : cart = [worker[w].cart EXCEPT !.items = newItems]
  OBVIOUS
<1>3. cart.items = newItems /\ cart.cust = worker[w].cart.cust
  BY <1>1, <1>2 DEF CartObject
<1>4. \A d \in SaveDoc(cart, carts) :
          d \in carts \/ \A j \in 1..Len(d.refs) : MayRefer(d.cust, d.refs[j], o)
  BY <1>3, SavedDoc
<1> QED BY <1>2, <1>4

\* An item that is added to a cart was asked for, or comes from a cart that is merged.
LEMMA CartAsked ==
    ASSUME AskedInv, TypeInv', NEW w \in Workers, UNCHANGED <<asked, merged>>,
           AddItem(w) \/ RemoveItem(w) \/ DeleteCart(w) \/ MergeItem(w)
    PROVE  AskedInv'
<1> DEFINE st == worker[w]
<1>1. PICK step \in {"addItem", "removeItem", "deleteCart", "mergeItem"} : Does(w, step)
  BY DEF AddItem, RemoveItem, DeleteCart, MergeItem
<1>2. /\ TypeInv /\ Busy(w) /\ st \in WorkerState /\ Source(w) \in Customers
      /\ PhaseOK(step, st.req.op, Tail(st.todo), Goal(st), st.hand)
      /\ st.cart.cust = Owner(w) /\ st.req.cust \in Customers /\ Head(st.todo) = step
      /\ st.req.op = "merge" =>
             <<st.req.cust, st.req.other>> \in merged /\ st.req.other \in Sessions
  BY <1>1, AskedWorking DEF LoadedSteps
<1>3. PICK o \in Customers : o = Source(w)
  BY <1>2
<1>4. \A k \in 1..Len(st.hand) :
               /\ st.hand[k].itemId \in MayHold(Source(w))
               /\ st.hand[k].id # 0 => /\ KnownItem(st.hand[k]) \/ NewFor(st.hand[k], o)
                                       /\ MayRefer(Source(w), st.hand[k].id, o)
  BY <1>1, <1>2, AskedWorking, OwnCopies DEF MayRefer
<1>5. /\ st.cart.items \in Seq(StoredItem) /\ st.hand \in Seq(Item)
      /\ \A k \in 1..Len(st.cart.items) : MayRefer(st.cart.cust, st.cart.items[k].id, o)
  BY OwnCopies DEF MayRefer
<1>6. nextId' = nextId
  BY DEF AddItem, RemoveItem, DeleteCart, MergeItem
<1>7. CASE AddItem(w)
  <2>1. Does(w, "addItem") /\ step = "addItem"
    BY <1>1, <1>7 DEF AddItem, Does
  <2>2. 1 \in 1..Len(st.hand) /\ st.hand[1] \in StoredItem
    BY <1>2, <1>7, <2>1, AddedItem
  <2>3. st.cart.cust = Source(w) /\ Tail(st.todo) = <<>>
    BY <1>2, <2>1 DEF Owner, Source, PhaseOK
  <2>4. PICK newItems : newItems = Append(st.cart.items, st.hand[1])
    OBVIOUS
  <2>5. newItems \in Seq(StoredItem)
        /\ \A k \in 1..Len(newItems) : MayRefer(st.cart.cust, newItems[k].id, o)
    BY <1>5, <2>2, <2>3, <2>4, AppendRefers, OwnCopies DEF MayRefer
  <2>6. PICK newCarts : newCarts = SaveDoc([st.cart EXCEPT !.items = newItems], carts)
    OBVIOUS
  <2>7. \A d \in newCarts : d \in carts \/ \A j \in 1..Len(d.refs) : MayRefer(d.cust, d.refs[j], o)
    BY <2>5, <2>6, SaveAsked
  <2>8. Write(newCarts, items) /\ Step(w, st.cart, <<>>)
    BY <1>7, <2>4, <2>6 DEF AddItem, SaveWith
  <2>9. Becomes(w, <<>>, st.cart, <<>>)
    BY <1>2, <2>3, <2>8, StepBecomes
  <2>10. Becomes(w, <<>>, st.cart, st.hand)
    BY <2>9 DEF Becomes
  <2> QED BY <1>2, <1>4, <1>6, <2>7, <2>8, <2>10, AskedWrite
<1>8. CASE RemoveItem(w)
  <2>1. PICK newItems : newItems = IF Wanted(w) = {} THEN st.cart.items
                                   ELSE RemoveAt(st.cart.items, FirstWanted(w))
    OBVIOUS
  <2>2. newItems \in Seq(StoredItem)
        /\ \A k \in 1..Len(newItems) : MayRefer(st.cart.cust, newItems[k].id, o)
    <3>1. CASE Wanted(w) = {}
      BY <1>5, <2>1, <3>1
    <3>2. CASE Wanted(w) # {}
      <4>1. PICK n : n = FirstWanted(w) /\ n \in 1..Len(st.cart.items)
        BY <1>5, <3>2, FirstWantedIn
      <4> QED BY <1>5, <2>1, <3>2, <4>1, RemoveRefers
    <3> QED BY <3>1, <3>2
  <2>3. PICK newCarts : newCarts = SaveDoc([st.cart EXCEPT !.items = newItems], carts)
    OBVIOUS
  <2>4. \A d \in newCarts : d \in carts \/ \A j \in 1..Len(d.refs) : MayRefer(d.cust, d.refs[j], o)
    BY <2>2, <2>3, SaveAsked
  <2>5. Write(newCarts, items) /\ Step(w, st.cart, st.hand) /\ step = "removeItem"
    BY <1>1, <1>8, <2>1, <2>3 DEF RemoveItem, SaveWith, Does
  <2>6. Head(Tail(st.todo)) \notin LoadedSteps
    BY <1>2, <2>5 DEF PhaseOK, LoadedSteps
  <2>7. PICK todo : todo = Tail(st.todo)
    OBVIOUS
  <2>8. Becomes(w, todo, st.cart, st.hand)
    BY <1>2, <2>5, <2>7, StepBecomes
  <2> QED BY <1>2, <1>4, <1>6, <2>4, <2>5, <2>6, <2>7, <2>8, AskedWrite
<1>9. CASE DeleteCart(w)
  <2>1. PICK newCarts : newCarts = {d \in carts : d.id # st.cart.id}
    OBVIOUS
  <2>2. Write(newCarts, items) /\ Step(w, st.cart, st.hand) /\ step = "deleteCart"
    BY <1>1, <1>9, <2>1 DEF DeleteCart, Does
  <2>3. Becomes(w, <<>>, st.cart, st.hand)
    BY <1>2, <2>2, StepBecomes DEF PhaseOK
  <2> QED BY <1>2, <1>4, <1>6, <2>1, <2>2, <2>3, AskedWrite
<1>10. CASE MergeItem(w)
  <2> DEFINE new == [st EXCEPT !.todo = MergeRest(Tail(st.hand)), !.hand = Tail(st.hand)]
  <2>1. /\ step = "mergeItem" /\ st.req.op = "merge" /\ st.hand # <<>>
        /\ st.cart.cust = st.req.cust /\ Source(w) = st.req.other
    BY <1>1, <1>2, <1>10 DEF MergeItem, Does, PhaseOK, Owner, Source
  <2>2. st.hand \in Seq(StoredItem)
    BY <1>2, <1>10, <2>1, MergedHand
  <2>3. /\ 1 \in 1..Len(st.hand) /\ Head(st.hand) = st.hand[1] /\ st.hand[1] \in StoredItem
        /\ Len(Tail(st.hand)) = Len(st.hand) - 1 /\ Len(st.hand) \in Nat
        /\ \A k \in 1..Len(st.hand) - 1 : Tail(st.hand)[k] = st.hand[k + 1]
    BY <2>1, <2>2
  <2>4. MayRefer(st.req.cust, st.hand[1].id, o)
    BY <1>2, <2>1, <2>3, OwnCopies DEF MayRefer
  <2>5. PICK newItems : newItems = Append(st.cart.items, st.hand[1])
    OBVIOUS
  <2>6. newItems \in Seq(StoredItem)
        /\ \A k \in 1..Len(newItems) : MayRefer(st.cart.cust, newItems[k].id, o)
    BY <1>5, <2>1, <2>3, <2>4, <2>5, AppendRefers
  <2>7. PICK newCarts : newCarts = SaveDoc([st.cart EXCEPT !.items = newItems], carts)
    OBVIOUS
  <2>8. \A d \in newCarts : d \in carts \/ \A j \in 1..Len(d.refs) : MayRefer(d.cust, d.refs[j], o)
    BY <2>6, <2>7, SaveAsked
  <2>9. Write(newCarts, items) /\ Continue(w, new)
    BY <1>10, <2>3, <2>5, <2>7 DEF MergeItem, SaveWith
  <2>10. PICK todo, hand : todo = MergeRest(Tail(st.hand)) /\ hand = Tail(st.hand)
    OBVIOUS
  <2>11. new.todo = todo /\ new.cart = st.cart /\ new.hand = hand /\ new.req = st.req
    BY <1>2, <2>10 DEF WorkerState
  <2>12. todo # <<>> /\ Head(todo) \notin LoadedSteps
    BY <2>10, MergeRestHead DEF LoadedSteps
  <2> HIDE DEF new
  <2>13. Becomes(w, todo, st.cart, hand)
    BY <1>2, <2>9, <2>11, <2>12, EnterBecomes
  <2>14. \A k \in 1..Len(hand) : k + 1 \in 1..Len(st.hand) /\ hand[k] = st.hand[k + 1]
    BY <2>3, <2>10
  <2>15. \A k \in 1..Len(hand) :
               /\ hand[k].itemId \in MayHold(Source(w))
               /\ hand[k].id # 0 => /\ KnownItem(hand[k]) \/ NewFor(hand[k], o)
                                    /\ MayRefer(Source(w), hand[k].id, o)
    BY <1>4, <2>14
  <2> QED BY <1>2, <1>6, <2>8, <2>9, <2>12, <2>13, <2>15, AskedWrite
<1> QED BY <1>7, <1>8, <1>9, <1>10

\* A request is recorded as it comes in; what may be held only grows.
LEMMA ReceiveAsked ==
    ASSUME AskedInv, TypeInv', NEW w \in Workers, NEW req \in Requests, Ask(w, req)
    PROVE  AskedInv'
<1> DEFINE hand == IF req.op = "add" THEN <<[id |-> 0, itemId |-> req.itemId, qty |-> 1]>>
                                     ELSE <<>>
           new == [req |-> req, todo |-> Script(req.op), cart |-> NoCart, qty |-> req.qty,
                   hand |-> hand]
<1>1. /\ TypeInv /\ worker' = [worker EXCEPT ![w] = new] /\ worker \in [Workers -> WorkerState]
      /\ UNCHANGED <<carts, items, lagging, nextId>>
  BY DEF AskedInv, TypeInv, Ask, Receive, store
<1>2. /\ req.cust \in Customers
      /\ req.op = "add" => req.itemId \in Items
      /\ req.op = "merge" => req.other \in Sessions /\ req.cust \notin Sessions
      /\ req.op \in OpNames
  BY RequestOps, MergeFrom
<1>3. /\ new.req = req /\ new.todo = Script(req.op) /\ new.cart = NoCart /\ new.hand = hand
      /\ NoCart.items = <<>>
  BY DEF NoCart
<1>4. Head(Script(req.op)) \notin LoadedSteps
  BY <1>2, FirstSteps
<1>5. \A k \in 1..Len(hand) : hand[k].id = 0 /\ hand[k].itemId = req.itemId /\ req.op = "add"
  <2>1. CASE req.op = "add"
    BY <2>1
  <2>2. CASE req.op # "add"
    BY <2>2
  <2> QED BY <2>1, <2>2
<1> HIDE DEF new, hand
<1>6. worker'[w] = new /\ \A v \in Workers \ {w} : worker'[v] = worker[v]
  BY <1>1
<1>7. asked' = [asked EXCEPT ![req.cust] = @ \cup (IF req.op = "add" THEN {req.itemId} ELSE {})]
      /\ merged' = merged \cup (IF req.op = "merge" THEN {<<req.cust, req.other>>} ELSE {})
  BY DEF Ask
<1>8. /\ asked' \in [Customers -> SUBSET Items]
      /\ \A c \in Customers : asked[c] \subseteq asked'[c]
      /\ merged' \subseteq (Customers \ Sessions) \X Sessions /\ merged \subseteq merged'
      /\ req.op = "add" => req.itemId \in asked'[req.cust]
      /\ req.op = "merge" => <<req.cust, req.other>> \in merged'
  BY <1>2, <1>7, CartsAssumption DEF AskedInv
<1>9. \A c \in Customers : MayHold(c) \subseteq MayHold(c)' /\ asked'[c] \subseteq MayHold(c)'
  <2> SUFFICES ASSUME NEW c \in Customers
               PROVE  MayHold(c) \subseteq MayHold(c)' /\ asked'[c] \subseteq MayHold(c)'
    OBVIOUS
  <2>1. asked[c] \subseteq asked'[c]
    BY <1>8
  <2>2. ASSUME NEW i \in UNION {asked[s] : s \in {s \in Sessions : <<c, s>> \in merged}}
        PROVE  i \in UNION {asked'[s] : s \in {s \in Sessions : <<c, s>> \in merged'}}
    <3>1. PICK s \in Sessions : <<c, s>> \in merged /\ i \in asked[s]
      OBVIOUS
    <3>2. <<c, s>> \in merged' /\ i \in asked'[s]
      BY <1>8, <3>1, CartsAssumption
    <3> QED BY <3>2
  <2> QED BY <2>1, <2>2 DEF MayHold
<1>10. ASSUME NEW v \in Workers PROVE Recorded(v)'
  <2>1. CASE v # w
    <3>1. worker'[v] = worker[v] /\ Recorded(v) /\ Source(v)' = Source(v) /\ Owner(v)' = Owner(v)
      BY <1>6, <2>1 DEF Source, Owner, AskedInv
    <3>2. Busy(v) => Source(v) \in Customers
      BY <1>1, SourceType
    <3>3. At(v, LoadedSteps)' => worker'[v].cart.cust = Owner(v)'
      BY <3>1 DEF Recorded, At, Busy
    <3>4. CASE ~Busy(v)
      BY <3>1, <3>3, <3>4 DEF Recorded, Busy
    <3>5. CASE Busy(v)
      <4>1. PICK c \in Customers : c = Source(v)
        BY <3>2, <3>5
      <4>2. \A k \in 1..Len(worker'[v].hand) : worker'[v].hand[k].itemId \in MayHold(c)'
        BY <1>9, <3>1, <3>5, <4>1 DEF Recorded
      <4>3. \A k \in 1..Len(worker'[v].hand) : worker'[v].hand[k].itemId \in MayHold(Source(v))'
        BY <3>1, <4>1, <4>2
      <4>4. worker'[v].req.op = "merge" => <<worker'[v].req.cust, worker'[v].req.other>> \in merged'
        BY <1>8, <3>1, <3>5 DEF Recorded
      <4> QED BY <3>3, <4>3, <4>4 DEF Recorded
    <3> QED BY <3>4, <3>5
  <2>2. CASE v = w
    <3>1. worker'[v].req = req /\ worker'[v].hand = hand /\ ~At(v, LoadedSteps)'
      BY <1>3, <1>4, <1>6, <2>2 DEF At
    <3>2. \A k \in 1..Len(hand) : Source(v)' = req.cust /\ hand[k].itemId \in asked'[req.cust]
      BY <1>5, <1>8, <3>1 DEF Source
    <3> QED BY <1>2, <1>8, <1>9, <3>1, <3>2 DEF Recorded
  <2> QED BY <2>1, <2>2
<1>11. Shown' = Shown
  BY <1>1 DEF Shown, States
<1>12. \A i \in StoredItem : Seen(i)' => Seen(i)
  <2>1. ASSUME NEW i \in StoredItem, NEW v \in Workers, Copy(v, i)' PROVE Copy(v, i)
    <3>1. i.id # 0
      BY DEF StoredItem
    <3>2. v # w
      BY <1>3, <1>5, <1>6, <2>1, <3>1 DEF Copy
    <3> QED BY <1>6, <2>1, <3>2 DEF Copy
  <2> QED BY <1>11, <2>1 DEF Seen
<1>13. \A c \in Customers, id \in Nat \ {0} : Refers(c, id)' => Refers(c, id)
  <2> SUFFICES ASSUME NEW c \in Customers, NEW id \in Nat \ {0}, Refers(c, id)'
               PROVE  Refers(c, id)
    OBVIOUS
  <2>1. CASE \E s \in Shown' :
            \E d \in s.carts : d.cust = c /\ \E j \in 1..Len(d.refs) : d.refs[j] = id
    BY <1>11, <2>1 DEF Refers
  <2>2. CASE \E v \in Workers : /\ worker'[v].cart.cust = c
                          /\ \E k \in 1..Len(worker'[v].cart.items) :
                                 worker'[v].cart.items[k].id = id
    <3>1. PICK v \in Workers : /\ worker'[v].cart.cust = c
                          /\ \E k \in 1..Len(worker'[v].cart.items) :
                                 worker'[v].cart.items[k].id = id
      BY <2>2
    <3>2. v # w
      BY <1>3, <1>6, <3>1
    <3> QED BY <1>6, <3>1, <3>2 DEF Refers
  <2>3. CASE \E v \in Workers : /\ Source(v)' = c
                          /\ \E k \in 1..Len(worker'[v].hand) : worker'[v].hand[k].id = id
    <3>1. PICK v \in Workers : /\ Source(v)' = c
                          /\ \E k \in 1..Len(worker'[v].hand) : worker'[v].hand[k].id = id
      BY <2>3
    <3>2. v # w
      BY <1>3, <1>5, <1>6, <3>1
    <3>3. worker'[v] = worker[v] /\ Source(v)' = Source(v)
      BY <1>6, <3>2 DEF Source
    <3> QED BY <3>1, <3>3 DEF Refers
  <2> QED BY <2>1, <2>2, <2>3 DEF Refers
<1>14. \A i \in StoredItem : i.id \in Nat \ {0}
  BY DEF StoredItem, Item
<1>15. nextId' = nextId
  BY <1>1
<1>16. \A i \in StoredItem : Seen(i)' => i.id < nextId'
  BY <1>12, <1>15 DEF AskedInv
<1>17. \A c \in Customers, id \in Nat \ {0} : Refers(c, id)' => id < nextId'
  BY <1>13, <1>15 DEF AskedInv
<1>18. \A c \in Customers, i \in StoredItem :
          Seen(i)' /\ Refers(c, i.id)' => i.itemId \in MayHold(c)'
  BY <1>9, <1>12, <1>13, <1>14 DEF AskedInv
<1> QED BY <1>8, <1>10, <1>16, <1>17, <1>18 DEF AskedInv

\* The replica catches up: less is shown than before.
LEMMA CatchUpAsked ==
    ASSUME AskedInv, TypeInv', CatchUp, UNCHANGED <<asked, merged>>
    PROVE  AskedInv'
<1>1. Shown' \subseteq Shown /\ UNCHANGED <<carts, items, worker, nextId>>
  BY ShownCatchUp DEF AskedInv, CatchUp
<1>2. /\ \A w \in Workers : Recorded(w)'
      /\ \A c : MayHold(c)' = MayHold(c)
  <2>1. \A c : MayHold(c)' = MayHold(c)
    BY DEF MayHold
  <2>2. ASSUME NEW w \in Workers PROVE Recorded(w)' = Recorded(w)
    BY <1>1 DEF Recorded, At, Busy, Owner, Source, MayHold
  <2> QED BY <2>1, <2>2 DEF AskedInv
<1>3. \A i : Seen(i)' => Seen(i)
  BY <1>1 DEF Seen, Copy
<1>4. \A c, id : Refers(c, id)' => Refers(c, id)
  BY <1>1 DEF Refers, Source
<1>5. \A i \in StoredItem : i.id \in Nat \ {0}
  BY DEF StoredItem, Item
<1>6. \A i \in StoredItem : Seen(i)' => i.id < nextId'
  BY <1>1, <1>3 DEF AskedInv
<1>7. \A c \in Customers, id \in Nat \ {0} : Refers(c, id)' => id < nextId'
  BY <1>1, <1>4 DEF AskedInv
<1>8. \A c \in Customers, i \in StoredItem :
          Seen(i)' /\ Refers(c, i.id)' => i.itemId \in MayHold(c)'
  BY <1>2, <1>3, <1>4, <1>5 DEF AskedInv
<1> QED BY <1>1, <1>2, <1>6, <1>7, <1>8 DEF AskedInv

\* At the start nothing is stored and nothing has been asked for.
LEMMA AskedStart == AskedInit => AskedInv
<1> SUFFICES ASSUME AskedInit PROVE AskedInv
  OBVIOUS
<1>1. /\ TypeInv /\ carts = {} /\ items = {} /\ lagging = <<>>
      /\ worker = [w \in Workers |-> Free] /\ merged = {}
      /\ asked = [c \in Customers |-> {}]
  BY InitType DEF AskedInit, Init
<1>2. \A st \in Shown : st.carts = {} /\ st.items = {}
  <2>1. States = <<[carts |-> {}, items |-> {}]>>
    BY <1>1 DEF States
  <2> QED BY <2>1 DEF Shown
<1>3. \A w \in Workers : ~Busy(w) /\ worker[w].cart.items = <<>> /\ worker[w].hand = <<>>
  BY <1>1 DEF Free, NoCart, Busy
<1>4. \A w \in Workers : Recorded(w)
  BY <1>3 DEF Recorded, At
<1>5. \A i : ~Seen(i)
  BY <1>2, <1>3 DEF Seen, Copy
<1>6. \A c, id : ~Refers(c, id)
  BY <1>2, <1>3 DEF Refers
<1> QED BY <1>1, <1>4, <1>5, <1>6 DEF AskedInv

\* Every step keeps to what was asked for.
LEMMA AskedStep == AskedInv /\ [AskedNext]_askedVars => AskedInv'
<1> SUFFICES ASSUME AskedInv, [AskedNext]_askedVars PROVE AskedInv'
  OBVIOUS
<1>1. [Next]_vars
  BY DEF AskedNext, askedVars, Ask, Next
<1>2. TypeInv'
  BY <1>1, TypeStep DEF AskedInv
<1>3. ASSUME NEW w \in Workers, Handle(w) \/ Abort(w), UNCHANGED <<asked, merged>>
      PROVE  AskedInv'
  BY <1>2, <1>3, FindAsked, CreateAsked, DecideAsked, ItemAsked, CartAsked DEF Handle
<1>4. ASSUME UNCHANGED askedVars PROVE AskedInv'
  <2>1. UNCHANGED <<carts, items, lagging, worker, nextId, asked, merged>>
    BY <1>4 DEF askedVars, vars
  <2>2. Shown' = Shown
    BY <2>1 DEF Shown, States
  <2>3. \A w : Recorded(w)' = Recorded(w)
    BY <2>1 DEF Recorded, At, Busy, Owner, Source, MayHold
  <2>4. \A i : Seen(i)' = Seen(i)
    BY <2>1, <2>2 DEF Seen, Copy
  <2>5. \A c, id : Refers(c, id)' = Refers(c, id)
    BY <2>1, <2>2 DEF Refers, Source
  <2>6. \A c : MayHold(c)' = MayHold(c)
    BY <2>1 DEF MayHold
  <2> QED BY <1>2, <2>1, <2>3, <2>4, <2>5, <2>6 DEF AskedInv
<1>5. CASE Quiesce /\ UNCHANGED <<asked, merged>>
  BY <1>4, <1>5 DEF Quiesce, askedVars
<1> QED BY <1>2, <1>3, <1>4, <1>5, ReceiveAsked, CatchUpAsked DEF AskedNext

\* The items a cart shows are among those it may hold.
LEMMA AskedOnly == AskedInv => OnlyAsked
<1> SUFFICES ASSUME AskedInv, NEW d \in carts, NEW i \in items, i.id \in Range(d.refs)
             PROVE  i.itemId \in MayHold(d.cust)
  BY DEF OnlyAsked
<1>1. TypeInv /\ d \in CartDoc /\ i \in StoredItem
  BY DEF AskedInv, TypeInv, StoreInv
<1>2. [carts |-> carts, items |-> items] \in Shown
  BY <1>1, ShownFacts
<1>3. d.refs \in Seq(Nat \ {0}) /\ d.cust \in Customers
  BY <1>1 DEF CartDoc
<1>4. PICK j \in 1..Len(d.refs) : d.refs[j] = i.id
  BY <1>3 DEF Range
<1>5. Seen(i)
  BY <1>2 DEF Seen
<1>6. Refers(d.cust, i.id)
  BY <1>2, <1>4 DEF Refers
<1> QED BY <1>1, <1>3, <1>5, <1>6 DEF AskedInv

\* Whatever requests overlap, however far the reads lag and wherever a handler is
\* killed, a cart shows no item but those its customer asked for, or that were asked
\* for in a session that was to be merged into it: value(), save() and merge() mix the
\* states of one customer's carts, never those of two.
THEOREM OnlyAskedFor == AskedSpec => []OnlyAsked
<1>1. AskedInit => AskedInv
  BY AskedStart
<1>2. AskedInv /\ [AskedNext]_askedVars => AskedInv'
  BY AskedStep
<1>3. AskedInv => OnlyAsked
  BY AskedOnly
<1> QED BY <1>1, <1>2, <1>3, PTL DEF AskedSpec
=============================================================================
