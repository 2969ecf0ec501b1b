-------------------------------- MODULE Tab --------------------------------
(***************************************************************************)
(* A browser tab on the pages that keep state of their own: the category   *)
(* page with its address, a product page with its pictures and its row of  *)
(* related products, and an account page with its menus.  Leaving a page   *)
(* ends its timers and forgets what it knew; what remains is the width of  *)
(* the window, and the database.                                           *)
(***************************************************************************)
EXTENDS Catalogue, Gallery, Rows, Menu

VARIABLE at   \* the page shown

vars == <<catalogueVars, galleryVars, rowVars, menuVars, width, at>>

productVars == <<galleryVars, rowVars>>

Pages == {"category", "product", "picture", "account"}

TabInit ==
    /\ at = "category" /\ width \in Widths
    /\ CategoryShown /\ GalleryShut /\ RowsShut /\ MenuShut

\* The mouse, the keys, the answers and the timers on the page shown.
Category == at = "category" /\ CatalogueNext /\ UNCHANGED <<productVars, menuVars, width, at>>

\* The related products are asked for when the product has come.
Product ==
    /\ at = "product" /\ UNCHANGED <<catalogueVars, menuVars, at>>
    /\ \/ GalleryNext /\ UNCHANGED <<rowVars, width>>
       \/ PageNext /\ UNCHANGED galleryVars
       \/ thumbs > 0 /\ ShowRelated /\ UNCHANGED galleryVars

Account == at = "account" /\ MenuNext /\ UNCHANGED <<catalogueVars, productVars, at>>

\* $(function() {...}), and what the handlers of front.js begin with
ProductReady == GalleryReady /\ RowsReady
ProductLeft == GalleryLeft /\ RowsLeft

ToProduct ==
    \/ /\ at = "category" /\ at' = "product" /\ shown # <<>>
       /\ CategoryLeft /\ ProductReady /\ UNCHANGED <<menuVars, width>>
    \/ /\ at = "picture" /\ at' = "product"
       /\ ProductReady /\ UNCHANGED <<catalogueVars, menuVars, width>>

\* A click on a thumbnail has no handler: it follows the link to the picture.
ToPicture ==
    /\ at = "product" /\ at' = "picture" /\ thumbs > 0 /\ ~over
    /\ ProductLeft /\ UNCHANGED <<catalogueVars, menuVars, width>>

ToCategory ==
    /\ at' = "category" /\ Open /\ UNCHANGED width
    /\ \/ at = "product" /\ ProductLeft /\ UNCHANGED menuVars
       \/ at = "account" /\ MenuLeft /\ UNCHANGED productVars

ToAccount ==
    /\ at' = "account" /\ MenuReady /\ UNCHANGED width
    /\ \/ at = "category" /\ CategoryLeft /\ UNCHANGED productVars
       \/ at = "product" /\ ProductLeft /\ UNCHANGED catalogueVars

TabNext ==
    Category \/ Product \/ Account \/ ToProduct \/ ToPicture \/ ToCategory \/ ToAccount

Timers ==
    /\ at = "product" /\ AutoSwitch
    /\ UNCHANGED <<catalogueVars, rowVars, menuVars, width, at>>

TabSpec == TabInit /\ [][TabNext]_vars /\ WF_vars(Timers)

-----------------------------------------------------------------------------
(* What EmptyExplained says of the category page *)

\* See EmptyExplained.
EmptyPageExplained == at = "category" => EmptyExplained
=============================================================================
