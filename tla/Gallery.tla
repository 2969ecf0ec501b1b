------------------------------ MODULE Gallery ------------------------------
(***************************************************************************)
(* The pictures of a product page (detail.html, productDetailGallery of    *)
(* front.js): thumbnails that come with the answer of the catalogue, and   *)
(* an interval that shows them in turn, stopped while the mouse is on the  *)
(* picture.  The click handlers are bound before there is a thumbnail.     *)
(***************************************************************************)
EXTENDS Naturals

CONSTANT Images   \* how many pictures a product has

ASSUME GalleryAssumption == Images \in Nat \ {0}

VARIABLES
    picture,  \* the picture shown; 0 before there is one
    active,   \* the thumbnail marked active; 0 for none
    thumbs,   \* how many thumbnails the page has
    timer,    \* is the interval that `timer` names running?
    strays,   \* how many intervals run that it names no longer
    over,     \* is the mouse on the picture?
    rested    \* history: was it there before the handlers were bound?

galleryVars == <<picture, active, thumbs, timer, strays, over, rested>>

GalleryShut ==
    /\ picture = 0 /\ active = 0 /\ thumbs = 0
    /\ timer = FALSE /\ strays = 0 /\ over = FALSE /\ rested = FALSE

\* The page is ready: the first interval is set.
GalleryReady ==
    /\ picture' = 0 /\ active' = 0 /\ thumbs' = 0
    /\ timer' = TRUE /\ strays' = 0
    /\ over' \in BOOLEAN /\ rested' = over'

GalleryLeft ==
    /\ picture' = 0 /\ active' = 0 /\ thumbs' = 0
    /\ timer' = FALSE /\ strays' = 0 /\ over' = FALSE /\ rested' = FALSE

\* The catalogue has answered; the first picture is shown, no thumbnail active.
ShowProduct ==
    /\ thumbs = 0
    /\ thumbs' = Images /\ picture' = 1
    /\ UNCHANGED <<active, timer, strays, over, rested>>

\* autoSwitch, switchImage: without an active thumbnail, or after the last, the
\* first one is next.
AutoSwitch ==
    /\ timer \/ strays > 0
    /\ thumbs > 0
    /\ active' = IF active \in 1..(thumbs - 1) THEN active + 1 ELSE 1
    /\ picture' = active'
    /\ UNCHANGED <<thumbs, timer, strays, over, rested>>

\* Mutant of MouseEnter: the interval goes on.
EnterOnly ==
    /\ ~over
    /\ over' = TRUE
    /\ UNCHANGED <<picture, active, thumbs, timer, strays, rested>>

MouseEnter ==
    /\ ~over
    /\ over' = TRUE /\ timer' = FALSE
    /\ UNCHANGED <<picture, active, thumbs, strays, rested>>

\* Mutant of MouseLeave: no interval is set again.
LeaveOnly ==
    /\ over
    /\ over' = FALSE
    /\ UNCHANGED <<picture, active, thumbs, timer, strays, rested>>

\* A new interval, whether or not one is running.
MouseLeave ==
    /\ over
    /\ over' = FALSE
    /\ timer' = TRUE /\ strays' = IF timer THEN strays + 1 ELSE strays
    /\ UNCHANGED <<picture, active, thumbs, rested>>

GalleryNext == ShowProduct \/ AutoSwitch \/ MouseEnter \/ MouseLeave

\* The pictures of one product page after the other.
GallerySpec ==
    GalleryShut /\ [][GalleryNext \/ GalleryReady \/ GalleryLeft]_galleryVars

-----------------------------------------------------------------------------
(* Properties *)

\* The picture rests while the mouse is on it, and there is one interval when it
\* is not: entering clears what leaving has set.  Only a mouse that was on the
\* picture before the handlers were bound leaves a second interval running, and
\* no more than one, however often it comes back.
OneTimer ==
    /\ rested \/ (strays = 0 /\ (timer => ~over))
    /\ strays <= 1

\* When the mouse stays away, every picture is shown again and again.
EveryPictureShown ==
    <>[](thumbs > 0 /\ ~over) => \A i \in 1..Images : []<>(picture = i)

\* Why: while a second interval runs, entering stops the one that is named, and
\* leaving sets it again; both run only where the mouse is not.
GalleryInv ==
    /\ strays \in 0..1 /\ timer \in BOOLEAN /\ over \in BOOLEAN /\ rested \in BOOLEAN
    /\ timer = TRUE /\ over = TRUE => rested = TRUE /\ strays = 0
    /\ strays > 0 => rested = TRUE
=============================================================================
