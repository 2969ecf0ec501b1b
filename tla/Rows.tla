-------------------------------- MODULE Rows --------------------------------
(***************************************************************************)
(* The row of boxes of one height under a product (alignElementsSameHeight *)
(* of front.js).  It is aligned when the window has loaded and 150 ms      *)
(* after each resize; the related products come with an answer of the      *)
(* catalogue and have their pictures later still.                          *)
(***************************************************************************)
EXTENDS Window, FiniteSets, FiniteSetsExt

CONSTANTS
    Fixed,       \* the boxes of the page itself, of class same-height
    Related,     \* those of the related products
    Always,      \* boxes of class same-height-always, as Fixed
    Natural(_, _, _), \* the height of a box left to itself: box, has a picture?, width
    MaxAlign     \* bound: timers of resizes running at once

\* Heights are pixels, and a page has so many boxes.
ASSUME RowsAssumption ==
    /\ MaxAlign \in Nat \ {0} /\ Related \cap (Fixed \cup Always) = {}
    /\ IsFiniteSet(Fixed \cup Related \cup Always)
    /\ \A b \in Fixed \cup Related \cup Always, full \in BOOLEAN, w \in Widths :
           Natural(b, full, w) \in Nat

VARIABLES
    box,      \* "absent", "bare" (without its picture) or "full"
    height,   \* set by the page; 0 for "auto"
    loaded,   \* has the window loaded?
    aligning, \* how many timers of resizes run
    late      \* history: boxes that came, or grew, after the last alignment

rowVars == <<box, height, loaded, aligning, late>>

Boxes == Fixed \cup Related \cup Always
AutoHeight == 0
There == {b \in Boxes : box[b] # "absent"}
NaturalHeight(b) == Natural(b, box[b] = "full", width)
Tallest(boxes) == Max({0} \cup {NaturalHeight(b) : b \in boxes})

RowsShut ==
    /\ box = [b \in Boxes |-> "absent"] /\ height = [b \in Boxes |-> AutoHeight]
    /\ loaded = FALSE /\ aligning = 0 /\ late = {}

RowsReady ==
    /\ box' = [b \in Boxes |-> IF b \in Related THEN "absent" ELSE "full"]
    /\ height' = [b \in Boxes |-> AutoHeight]
    /\ loaded' = FALSE /\ aligning' = 0 /\ late' = {}

RowsLeft ==
    /\ box' = [b \in Boxes |-> "absent"] /\ height' = [b \in Boxes |-> AutoHeight]
    /\ loaded' = FALSE /\ aligning' = 0 /\ late' = {}

\* Mutant of AlignElementsSameHeight: the heights set before are not reset.
AlignAgain ==
    /\ LET same == There \ Always
           grown == Max({Tallest(same)} \cup {height[b] : b \in same})
       IN  height' = [b \in Boxes |-> IF b \in same /\ width > 768 THEN grown ELSE height[b]]
    /\ late' = {}

\* Every box back to its natural height, then to that of the tallest: on wide
\* documents those of the one class, on all those of the other.
AlignElementsSameHeight ==
    /\ height' = [b \in Boxes |->
           IF b \in There \cap Always THEN Tallest(There \cap Always)
           ELSE IF b \in There \ Always /\ width > 768 THEN Tallest(There \ Always)
           ELSE AutoHeight]
    /\ late' = {}

\* The window has loaded once the pictures that are asked for by then are there.
WindowLoad ==
    /\ ~loaded /\ \A b \in There : box[b] = "full"
    /\ loaded' = TRUE
    /\ AlignElementsSameHeight
    /\ UNCHANGED <<box, aligning, width>>

WindowResize ==
    /\ WidthChanges
    /\ aligning < MaxAlign /\ aligning' = aligning + 1
    /\ UNCHANGED <<box, height, loaded, late>>

AlignLater ==
    /\ aligning > 0 /\ aligning' = aligning - 1
    /\ AlignElementsSameHeight
    /\ UNCHANGED <<box, loaded, width>>

\* The catalogue has answered with the related products, all of them at once.
ShowRelated ==
    /\ \A b \in Related : box[b] = "absent"
    /\ \E some \in SUBSET Related :
           /\ some # {}
           /\ box' = [b \in Boxes |-> IF b \in some THEN "bare" ELSE box[b]]
           /\ late' = late \cup some
    /\ UNCHANGED <<height, loaded, aligning, width>>

ShowPicture ==
    /\ \E b \in Related :
           /\ box[b] = "bare" /\ box' = [box EXCEPT ![b] = "full"]
           /\ late' = late \cup {b}
    /\ UNCHANGED <<height, loaded, aligning, width>>

PageNext == WindowLoad \/ WindowResize \/ AlignLater \/ ShowPicture

\* The row by itself, over any sequence of pages; the width changes on others too.
RowsSpec ==
    /\ RowsShut /\ width \in Widths
    /\ [][\/ PageNext \/ ShowRelated
          \/ (RowsReady \/ RowsLeft) /\ UNCHANGED width
          \/ RowsShut /\ WidthChanges /\ UNCHANGED rowVars]_<<rowVars, width>>

-----------------------------------------------------------------------------
(* Properties *)

Settled == There \ (late \cup Always)

\* When the window has loaded and no resize is waiting to be answered, the boxes
\* fit: on a narrow document each has its own height, on a wide one they are as
\* high as the tallest was, so that none overflows and one at least is filled.
\* Only products and pictures that came after the last alignment stand out.
RowFits ==
    loaded /\ aligning = 0 =>
        IF width > 768
        THEN /\ \A b, c \in Settled : height[b] = height[c] /\ height[b] >= NaturalHeight(b)
             /\ \A b \in Settled : \E c \in There \ Always, full \in BOOLEAN :
                    height[b] = Natural(c, full, width)
        ELSE \A b \in Settled : height[b] = AutoHeight
=============================================================================
