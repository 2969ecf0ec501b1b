---------------------------- MODULE ShoppingCart ----------------------------
(***************************************************************************)
(* What the carts service promises a client that looks at one cart at a    *)
(* time: a cart is a list of lines, and each request changes it in one     *)
(* step or not at all.  A cart that does not exist and an empty one are    *)
(* the same.  Only a merge can be left half done: its two carts are torn    *)
(* then, and nothing is promised of them any more.                         *)
(***************************************************************************)
EXTENDS Naturals, Sequences, SequencesExt

CONSTANTS Customers, Sessions, Items, Quantities, Torn

VARIABLE contents   \* contents[c]: the lines [itemId, qty] of c's cart, or Torn

Lines(c, i) == {k \in 1..Len(contents[c]) : contents[c][k].itemId = i}
First(c, i) == CHOOSE k \in Lines(c, i) : \A j \in Lines(c, i) : k <= j

Init == contents = [c \in Customers |-> <<>>]

Whole(c) == contents[c] # Torn

Becomes(c, lines) == Whole(c) /\ contents' = [contents EXCEPT ![c] = lines]

\* Adding an item that is in the cart increments its first line.
AddToCart(c, i) ==
    /\ Whole(c)
    /\ \/ /\ Lines(c, i) = {}
          /\ Becomes(c, Append(contents[c], [itemId |-> i, qty |-> 1]))
       \/ /\ Lines(c, i) # {}
          /\ Becomes(c, [contents[c] EXCEPT ![First(c, i)].qty = @ + 1])

UpdateItem(c, i, q) ==
    /\ Whole(c) /\ Lines(c, i) # {}
    /\ Becomes(c, [contents[c] EXCEPT ![First(c, i)].qty = q])

RemoveItem(c, i) ==
    /\ Whole(c) /\ Lines(c, i) # {}
    /\ Becomes(c, RemoveAt(contents[c], First(c, i)))

DeleteCart(c) == Becomes(c, <<>>)

\* A merge moves every line of the session's cart, as it is, to the customer's.
MergeCarts(c, s) ==
    /\ Whole(c) /\ Whole(s)
    /\ contents' = [contents EXCEPT ![c] = @ \o contents[s], ![s] = <<>>]

\* A merge stops halfway, or one of its carts is torn: both share lines now.
TearCarts(c, s) == contents' = [contents EXCEPT ![c] = Torn, ![s] = Torn]

Next ==
    \/ \E c \in Customers, i \in Items :
           AddToCart(c, i) \/ RemoveItem(c, i) \/ \E q \in Quantities : UpdateItem(c, i, q)
    \/ \E c \in Customers : DeleteCart(c)
    \/ \E c \in Customers \ Sessions, s \in Sessions :
           MergeCarts(c, s) \/ TearCarts(c, s)

Spec == Init /\ [][Next]_contents
=============================================================================
