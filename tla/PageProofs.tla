----------------------------- MODULE PageProofs -----------------------------
(***************************************************************************)
(* Theorems about the parts of the pages that front.js keeps state for:    *)
(* the pictures of a product, its row of boxes and the menus of the        *)
(* account, each by itself, for any number of pictures, boxes and menus,   *)
(* any widths, and any sequence of pages; and about the pages of the       *)
(* category page, for any socks, tags, filter and size.                    *)
(***************************************************************************)
EXTENDS Gallery, Rows, Menu, Listing, FiniteSetTheorems, SequenceTheorems,
        NaturalsInduction, WellFoundedInduction, TLAPS

(* The pictures *)

\* An interval that is named runs under the mouse only before the first movement,
\* so setting one anew leaves a second at most.
LEMMA GalleryInductive == GallerySpec => []GalleryInv
<1> DEFINE One == 0 \in 0..1 /\ 1 \in 0..1 /\ ~(0 > 0)
<1>0. One
  OBVIOUS
<1> HIDE DEF One
<1>1. GalleryShut => GalleryInv
  BY <1>0, Zenon DEF GalleryShut, GalleryInv, One
<1>2. GalleryInv /\ [GalleryNext \/ GalleryReady \/ GalleryLeft]_galleryVars => GalleryInv'
  <2> SUFFICES ASSUME GalleryInv, [GalleryNext \/ GalleryReady \/ GalleryLeft]_galleryVars
               PROVE  GalleryInv'
    OBVIOUS
  <2>0. CASE UNCHANGED <<timer, strays, over, rested>>
    BY <2>0, Zenon DEF GalleryInv
  <2>1. CASE ShowProduct  BY <2>1, <2>0, Zenon DEF ShowProduct
  <2>2. CASE AutoSwitch  BY <2>2, <2>0, Zenon DEF AutoSwitch
  <2>3. CASE MouseEnter
    BY <2>3, Zenon DEF MouseEnter, GalleryInv
  <2>4. CASE MouseLeave
    <3>1. CASE timer = TRUE
      <4>1. strays = 0 /\ rested = TRUE
        BY <3>1, <2>4, Zenon DEF MouseLeave, GalleryInv
      <4>2. strays' = strays + 1 /\ timer' = TRUE /\ over' = FALSE /\ rested' = TRUE
        BY <4>1, <3>1, <2>4, Zenon DEF MouseLeave
      <4>3. strays' \in 0..1
        BY <4>1, <4>2
      <4> QED  BY <4>2, <4>3, Zenon DEF GalleryInv
    <3>2. CASE timer = FALSE
      BY <3>2, <2>4, Zenon DEF MouseLeave, GalleryInv
    <3> QED  BY <3>1, <3>2, Zenon DEF GalleryInv
  <2>5. CASE GalleryReady  BY <2>5, <1>0, Zenon DEF GalleryReady, GalleryInv, One
  <2>6. CASE GalleryLeft  BY <2>6, <1>0, Zenon DEF GalleryLeft, GalleryInv, One
  <2>7. CASE UNCHANGED galleryVars  BY <2>7, <2>0, Zenon DEF galleryVars
  <2> QED  BY <2>1, <2>2, <2>3, <2>4, <2>5, <2>6, <2>7 DEF GalleryNext
<1> QED  BY <1>1, <1>2, PTL DEF GallerySpec

\* OneTimer of productDetailGallery, over any sequence of product pages: no second
\* interval unless the mouse was there first, and never a third.
THEOREM OneTimerAlways == GallerySpec => []OneTimer
<1>1. GalleryInv => OneTimer
  BY DEF GalleryInv, OneTimer
<1> QED  BY <1>1, GalleryInductive, PTL

-----------------------------------------------------------------------------
(* The row *)

\* A nonempty set of naturals has a least element.
LEMMA LeastNat ==
    ASSUME NEW T, T \in SUBSET Nat, T # {}
    PROVE  \E n \in T : \A m \in T : n <= m
<1> DEFINE R == OpToRel(<, Nat)
<1>1. IsWellFoundedOn(R, Nat)
  BY NatLessThanWellFounded
<1>2. \A m, n \in Nat : m < n => <<m, n>> \in R
  BY DEF OpToRel
<1> HIDE DEF R
<1>3. PICK n \in T : \A m \in T : ~(<<m, n>> \in R)
  BY <1>1, WFMin
<1>4. ASSUME NEW m \in T PROVE n <= m
  <2>1. ~(m < n)
    BY <1>2, <1>3
  <2> QED BY <2>1
<1> QED BY <1>4

\* A finite sequence of naturals has a greatest element, for the shortest one without
\* has one among its elements before the last.
LEMMA GreatestOf ==
    ASSUME NEW n \in Nat \ {0}, NEW f \in [1..n -> Nat]
    PROVE  \E i \in 1..n : \A j \in 1..n : f[i] >= f[j]
<1> DEFINE Without(k) == \E g \in [1..k -> Nat] : \A i \in 1..k : \E j \in 1..k : ~(g[i] >= g[j])
           Bad == {k \in Nat \ {0} : Without(k)}
<1>1. CASE Bad = {}
  <2>1. ~Without(n)
    BY <1>1
  <2> QED BY <2>1
<1>2. CASE Bad # {}
  <2>1. PICK k \in Bad : \A l \in Bad : k <= l
    <3>1. Bad \in SUBSET Nat
      OBVIOUS
    <3> HIDE DEF Bad
    <3> QED BY <1>2, <3>1, LeastNat
  <2>2. k \in Nat \ {0}
    BY <2>1
  <2>3. PICK g \in [1..k -> Nat] : \A i \in 1..k : \E j \in 1..k : ~(g[i] >= g[j])
    BY <2>1
  <2>4. k # 1
    <3> SUFFICES ASSUME k = 1 PROVE FALSE
      OBVIOUS
    <3>1. g[1] \in Nat
      BY <2>3
    <3> QED BY <2>3, <3>1
  <2>5. k - 1 \in Nat \ {0} /\ k - 1 \notin Bad
    <3>1. k - 1 \in Nat \ {0} /\ ~(k <= k - 1)
      BY <2>2, <2>4
    <3> HIDE DEF Bad
    <3> QED BY <2>1, <3>1
  <2>6. [i \in 1..(k - 1) |-> g[i]] \in [1..(k - 1) -> Nat]
    <3>1. \A i \in 1..(k - 1) : i \in 1..k
      BY <2>2
    <3>2. \A i \in 1..k : g[i] \in Nat
      BY <2>3
    <3> QED BY <3>1, <3>2
  <2>7. PICK m \in 1..(k - 1) : \A j \in 1..(k - 1) : g[m] >= g[j]
    <3>1. ~Without(k - 1)
      BY <2>5
    <3>2. PICK m \in 1..(k - 1) : \A j \in 1..(k - 1) :
              [i \in 1..(k - 1) |-> g[i]][m] >= [i \in 1..(k - 1) |-> g[i]][j]
      BY <2>6, <3>1
    <3> QED BY <3>2
  <2>8. /\ m \in 1..k /\ k \in 1..k /\ g[m] \in Nat /\ g[k] \in Nat
        /\ \A j \in 1..k : g[j] \in Nat /\ (j \in 1..(k - 1) \/ j = k)
    <3>1. \A j \in 1..k : j \in 1..(k - 1) \/ j = k
      BY <2>2
    <3>3. k \in 1..k /\ \A i \in 1..(k - 1) : i \in 1..k
      BY <2>2
    <3>2. \A i \in 1..k : g[i] \in Nat
      BY <2>3
    <3> QED BY <2>7, <3>1, <3>2, <3>3
  <2>9. CASE g[m] >= g[k]
    BY <2>3, <2>7, <2>8, <2>9
  <2>10. CASE ~(g[m] >= g[k])
    <3>1. ASSUME NEW j \in 1..k PROVE g[k] >= g[j]
      <4>1. CASE j = k
        BY <2>8, <4>1
      <4>2. CASE j \in 1..(k - 1)
        <5>1. g[m] >= g[j]
          BY <2>7, <4>2
        <5>2. g[j] \in Nat /\ g[m] \in Nat /\ g[k] \in Nat
          BY <2>8
        <5>3. \A x, y, z \in Nat : x >= y /\ ~(x >= z) => z >= y
          OBVIOUS
        <5> QED BY <2>10, <5>1, <5>2, <5>3
      <4> QED BY <2>8, <4>1, <4>2
    <3> QED BY <2>3, <2>8, <3>1
  <2> QED BY <2>9, <2>10
<1> QED BY <1>1, <1>2

\* The maximum of finitely many naturals is one of them, and no less than any.
LEMMA MaxIs ==
    ASSUME NEW S \in SUBSET Nat, IsFiniteSet(S), S # {}
    PROVE  Max(S) \in S /\ \A y \in S : Max(S) >= y
<1>1. PICK n \in Nat : ExistsSurjection(1..n, S)
  BY FS_NatSurjection
<1>2. PICK f \in [1..n -> S] : \A t \in S : \E i \in 1..n : f[i] = t
  BY <1>1 DEF ExistsSurjection, Surjection
<1>3. n \in Nat \ {0} /\ f \in [1..n -> Nat]
  <2>1. PICK t \in S : TRUE
    OBVIOUS
  <2>2. PICK i \in 1..n : f[i] = t
    BY <1>2, <2>1
  <2>3. n # 0
    BY <2>2
  <2>4. f \in [1..n -> Nat]
    BY <1>2
  <2> QED BY <2>3, <2>4
<1>4. PICK i \in 1..n : \A j \in 1..n : f[i] >= f[j]
  BY <1>3, GreatestOf
<1>5. f[i] \in S /\ \A y \in S : f[i] >= y
  BY <1>2, <1>4
<1>6. \E x \in S : \A y \in S : x >= y
  BY <1>5
<1> QED BY <1>6 DEF Max

\* What every variable of the row is.
RowsTypeOK ==
    /\ box \in [Boxes -> {"absent", "bare", "full"}] /\ height \in [Boxes -> Nat]
    /\ loaded \in BOOLEAN /\ aligning \in 0..MaxAlign /\ late \in SUBSET Boxes
    /\ width \in Widths

\* The row fits, whatever the page has been through: no more is needed.
RowsInv == RowsTypeOK /\ RowFits

\* The tallest of some boxes that are there is the height of one of them, if there are any.
LEMMA TallestIs ==
    ASSUME RowsTypeOK, NEW boxes \in SUBSET Boxes
    PROVE  /\ Tallest(boxes) \in Nat
           /\ \A b \in boxes : NaturalHeight(b) \in Nat /\ Tallest(boxes) >= NaturalHeight(b)
           /\ boxes # {} => \E b \in boxes : Tallest(boxes) = NaturalHeight(b)
<1> DEFINE H == {NaturalHeight(b) : b \in boxes}
<1>1. \A b \in boxes : NaturalHeight(b) \in Nat
  <2> SUFFICES ASSUME NEW b \in boxes PROVE NaturalHeight(b) \in Nat
    OBVIOUS
  <2>1. /\ b \in Fixed \cup Related \cup Always /\ width \in Widths
        /\ (box[b] = "full") \in BOOLEAN
    BY DEF Boxes, RowsTypeOK
  <2>2. Natural(b, box[b] = "full", width) \in Nat
    BY <2>1, RowsAssumption
  <2> QED BY <2>2 DEF NaturalHeight
<1>2. IsFiniteSet(boxes)
  BY RowsAssumption, FS_Subset DEF Boxes
<1>3. IsFiniteSet(H)
  <2>1. [b \in boxes |-> NaturalHeight(b)] \in Surjection(boxes, H)
    BY DEF Surjection
  <2> HIDE DEF H
  <2> QED BY <1>2, <2>1, FS_Surjection
<1>4. IsFiniteSet({0} \cup H)
  BY <1>3, FS_EmptySet, FS_AddElement, FS_Union, FS_Singleton
<1>5. {0} \cup H \in SUBSET Nat
  BY <1>1
<1>6. Max({0} \cup H) \in {0} \cup H /\ \A y \in {0} \cup H : Max({0} \cup H) >= y
  BY <1>4, <1>5, MaxIs
<1>7. Tallest(boxes) = Max({0} \cup H)
  BY DEF Tallest
<1>8. Tallest(boxes) \in Nat /\ \A b \in boxes : Tallest(boxes) >= NaturalHeight(b)
  BY <1>5, <1>6, <1>7
<1>9. boxes # {} => \E b \in boxes : Tallest(boxes) = NaturalHeight(b)
  <2> SUFFICES ASSUME NEW c \in boxes PROVE \E b \in boxes : Tallest(boxes) = NaturalHeight(b)
    OBVIOUS
  <2>1. CASE Tallest(boxes) = 0
    BY <1>1, <1>8, <2>1
  <2>2. CASE Tallest(boxes) # 0
    BY <1>6, <1>7, <2>2
  <2> QED BY <2>1, <2>2
<1> QED BY <1>1, <1>8, <1>9

\* An alignment makes the boxes fit that are there, at the width of the document.
LEMMA AlignFits ==
    ASSUME RowsTypeOK, AlignElementsSameHeight, UNCHANGED <<box, width>>
    PROVE  /\ height' \in [Boxes -> Nat] /\ late' \in SUBSET Boxes
           /\ RowFits'
<1>1. /\ There \in SUBSET Boxes /\ There \ Always \in SUBSET Boxes
      /\ There \cap Always \in SUBSET Boxes
  BY DEF There
<1>2. height' \in [Boxes -> Nat]
  <2>1. Tallest(There \cap Always) \in Nat /\ Tallest(There \ Always) \in Nat
    BY <1>1, TallestIs
  <2> QED BY <2>1 DEF AlignElementsSameHeight, AutoHeight
<1>3. There' = There /\ late' = {} /\ Settled' = There \ Always /\ width' = width
  BY DEF There, Settled, AlignElementsSameHeight
<1>4. CASE width > 768
  <2> DEFINE T == Tallest(There \ Always)
  <2>1. \A b \in There \ Always : height'[b] = T
    BY <1>1, <1>4 DEF AlignElementsSameHeight
  <2>2. /\ T \in Nat
        /\ \A b \in There \ Always : NaturalHeight(b) \in Nat /\ T >= NaturalHeight(b)
        /\ There \ Always # {} => \E b \in There \ Always : T = NaturalHeight(b)
    BY <1>1, TallestIs
  <2> HIDE DEF T
  <2>3. \A b, c \in There \ Always : height'[b] = height'[c] /\ height'[b] >= NaturalHeight(b)
    BY <2>1, <2>2
  <2>4. \A b : NaturalHeight(b)' = NaturalHeight(b)
    BY DEF NaturalHeight
  <2>5. ASSUME NEW b \in There \ Always
        PROVE  \E c \in There \ Always, full \in BOOLEAN : height'[b] = Natural(c, full, width)
    <3>1. PICK c \in There \ Always : T = NaturalHeight(c)
      BY <2>2
    <3>2. height'[b] = Natural(c, box[c] = "full", width) /\ (box[c] = "full") \in BOOLEAN
      BY <2>1, <3>1 DEF NaturalHeight
    <3> QED BY <3>2
  <2> QED BY <1>2, <1>3, <1>4, <2>3, <2>4, <2>5 DEF RowFits
<1>5. CASE ~(width > 768)
  <2>1. \A b \in There \ Always : height'[b] = AutoHeight
    BY <1>1, <1>5 DEF AlignElementsSameHeight
  <2> QED BY <1>2, <1>3, <1>5, <2>1 DEF RowFits
<1> QED BY <1>2, <1>3, <1>4, <1>5

\* A product or a picture that comes later is late, and changes no box but itself.
LEMMA LateFits ==
    ASSUME RowsTypeOK, RowFits, NEW B \in SUBSET Boxes,
           box' \in [Boxes -> {"absent", "bare", "full"}],
           \A b \in Boxes \ B : box'[b] = box[b],
           \A b \in B : box'[b] # "absent",
           late' = late \cup B, UNCHANGED <<height, loaded, aligning, width>>
    PROVE  RowsTypeOK' /\ RowFits'
<1>1. RowsTypeOK'
  BY DEF RowsTypeOK
<1>2. There \subseteq There' /\ Settled' \subseteq Settled
  BY DEF There, Settled
<1>3. \A b \in Settled' : NaturalHeight(b)' = NaturalHeight(b)
  BY DEF There, Settled, NaturalHeight
<1>4. CASE loaded /\ aligning = 0 /\ width > 768
  <2>1. \A b, c \in Settled : height[b] = height[c] /\ height[b] >= NaturalHeight(b)
    BY <1>4 DEF RowFits
  <2>2. \A b \in Settled : \E c \in There \ Always, full \in BOOLEAN :
            height[b] = Natural(c, full, width)
    BY <1>4 DEF RowFits
  <2>3. \A b, c \in Settled' : height'[b] = height'[c] /\ height'[b] >= NaturalHeight(b)'
    BY <1>2, <1>3, <2>1
  <2>4. \A b \in Settled' : \E c \in There' \ Always, full \in BOOLEAN :
            height'[b] = Natural(c, full, width')
    BY <1>2, <2>2
  <2> QED BY <1>1, <1>4, <2>3, <2>4 DEF RowFits
<1>5. CASE loaded /\ aligning = 0 /\ ~(width > 768)
  BY <1>1, <1>2, <1>5 DEF RowFits
<1>6. CASE ~(loaded /\ aligning = 0)
  BY <1>1, <1>6 DEF RowFits
<1> QED BY <1>4, <1>5, <1>6

\* Every step keeps that.
LEMMA RowsInductive == RowsSpec => []RowsInv
<1>1. RowsShut /\ width \in Widths => RowsInv
  <2> SUFFICES ASSUME RowsShut, width \in Widths PROVE RowsInv
    OBVIOUS
  <2>1. 0 \in Nat /\ 0 \in 0..MaxAlign
    BY RowsAssumption
  <2>2. RowsTypeOK
    BY <2>1 DEF RowsShut, RowsTypeOK, AutoHeight
  <2> QED BY <2>2 DEF RowsShut, RowsInv, RowFits
<1>2. RowsInv /\ [\/ PageNext \/ ShowRelated
                  \/ (RowsReady \/ RowsLeft) /\ UNCHANGED width
                  \/ RowsShut /\ WidthChanges /\ UNCHANGED rowVars]_<<rowVars, width>>
      => RowsInv'
  <2> SUFFICES ASSUME RowsInv, [\/ PageNext \/ ShowRelated
                                \/ (RowsReady \/ RowsLeft) /\ UNCHANGED width
                                \/ RowsShut /\ WidthChanges /\ UNCHANGED rowVars]_<<rowVars, width>>
               PROVE  RowsTypeOK' /\ RowFits'
    BY DEF RowsInv
  <2>0. RowsTypeOK /\ RowFits
    BY DEF RowsInv
  <2>1. CASE WindowLoad
    <3>1. height' \in [Boxes -> Nat] /\ late' \in SUBSET Boxes /\ RowFits'
      BY <2>0, <2>1, AlignFits DEF WindowLoad
    <3> QED BY <2>0, <2>1, <3>1 DEF WindowLoad, RowsTypeOK
  <2>2. CASE AlignLater
    <3>1. height' \in [Boxes -> Nat] /\ late' \in SUBSET Boxes /\ RowFits'
      BY <2>0, <2>2, AlignFits DEF AlignLater
    <3>2. aligning' \in 0..MaxAlign
      BY <2>0, <2>2, RowsAssumption DEF AlignLater, RowsTypeOK
    <3> QED BY <2>0, <2>2, <3>1, <3>2 DEF AlignLater, RowsTypeOK
  <2>3. CASE WindowResize
    <3>1. aligning' \in 0..MaxAlign /\ aligning' # 0
      BY <2>0, <2>3, RowsAssumption DEF WindowResize, RowsTypeOK
    <3> QED BY <2>0, <2>3, <3>1 DEF WindowResize, WidthChanges, RowsTypeOK, RowFits
  <2>4. CASE ShowPicture
    <3>1. PICK b \in Related : /\ box[b] = "bare" /\ box' = [box EXCEPT ![b] = "full"]
                               /\ late' = late \cup {b}
      BY <2>4 DEF ShowPicture
    <3>2. {b} \in SUBSET Boxes
      BY DEF Boxes
    <3>3. /\ box' \in [Boxes -> {"absent", "bare", "full"}]
          /\ \A c \in Boxes \ {b} : box'[c] = box[c]
          /\ \A c \in {b} : box'[c] # "absent"
      BY <2>0, <3>1, <3>2 DEF RowsTypeOK
    <3> QED BY <2>0, <2>4, <3>1, <3>2, <3>3, LateFits DEF ShowPicture
  <2>5. CASE ShowRelated
    <3>1. PICK some \in SUBSET Related :
              /\ box' = [b \in Boxes |-> IF b \in some THEN "bare" ELSE box[b]]
              /\ late' = late \cup some
      BY <2>5 DEF ShowRelated
    <3>2. some \in SUBSET Boxes
      BY DEF Boxes
    <3>3. /\ box' \in [Boxes -> {"absent", "bare", "full"}]
          /\ \A c \in Boxes \ some : box'[c] = box[c]
          /\ \A c \in some : box'[c] # "absent"
      BY <2>0, <3>1, <3>2 DEF RowsTypeOK
    <3> QED BY <2>0, <2>5, <3>1, <3>2, <3>3, LateFits DEF ShowRelated
  <2>6. CASE (RowsReady \/ RowsLeft) /\ UNCHANGED width
    <3>1. 0 \in Nat /\ 0 \in 0..MaxAlign
      BY RowsAssumption
    <3>2. RowsTypeOK'
      BY <2>0, <2>6, <3>1 DEF RowsReady, RowsLeft, RowsTypeOK, AutoHeight
    <3>3. loaded' = FALSE
      BY <2>6 DEF RowsReady, RowsLeft
    <3> QED BY <3>2, <3>3 DEF RowFits
  <2>7. CASE RowsShut /\ WidthChanges /\ UNCHANGED rowVars
    BY <2>0, <2>7 DEF RowsShut, WidthChanges, rowVars, RowsTypeOK, RowFits
  <2>8. CASE UNCHANGED <<rowVars, width>>
    BY <2>0, <2>8 DEF rowVars, RowsTypeOK, RowFits, Settled, There, NaturalHeight
  <2> QED BY <2>1, <2>2, <2>3, <2>4, <2>5, <2>6, <2>7, <2>8 DEF PageNext
<1> QED BY <1>1, <1>2, PTL DEF RowsSpec

\* RowFits of alignElementsSameHeight, over any sequence of pages, resizes and late
\* answers: once loaded and aligned the boxes fit, but those that came later.
THEOREM RowAlwaysFits == RowsSpec => []RowFits
<1>1. RowsInv => RowFits
  BY DEF RowsInv
<1> QED BY <1>1, RowsInductive, PTL

-----------------------------------------------------------------------------
(* The menus *)

\* Opening does nothing on a narrow document, else it leaves one menu open.
LEMMA OpenDropdownIs ==
    ASSUME NEW b \in Bars, NEW m \in Menus
    PROVE  /\ OpenDropdown(b, m) \in Bars
           /\ \/ OpenDropdown(b, m) = b
              \/ /\ OpenDropdown(b, m).open = {m}
                 /\ OpenDropdown(b, m).stale = b.stale
  BY DEF OpenDropdown, Bars

\* A hover over a toggle leaves the bar alone, or leaves this menu the one that is open.
LEMMA HoverToggleIs ==
    ASSUME NEW b \in Bars, NEW m \in Menus
    PROVE  /\ HoverToggle(b, m) \in Bars
           /\ HoverToggle(b, m) = b \/ HoverToggle(b, m).open = {m}
  BY OpenDropdownIs DEF HoverToggle

\* The mouse in a menu leaves the bar alone, or leaves this menu the one that is open.
LEMMA EnterMenuIs ==
    ASSUME NEW b \in Bars, NEW m \in Menus, NEW part
    PROVE  /\ EnterMenu(b, m, part) \in Bars
           /\ EnterMenu(b, m, part) = b \/ EnterMenu(b, m, part).open = {m}
  BY OpenDropdownIs DEF EnterMenu

\* Leaving a menu opens and closes none, and starts a timer on a wide document.
LEMMA LeaveMenuIs ==
    ASSUME NEW b \in Bars, NEW m \in Menus
    PROVE  /\ LeaveMenu(b, m) \in Bars
           /\ LeaveMenu(b, m).open = b.open
           /\ width > 768 => m \in LeaveMenu(b, m).timeout
           /\ b.timeout \subseteq LeaveMenu(b, m).timeout
           /\ \A n \in Menus : b.stale[n] > 0 => LeaveMenu(b, m).stale[n] > 0
<1>1. CASE width > 768
  <2> DEFINE count == IF m \in b.timeout THEN b.stale[m] + 1 ELSE b.stale[m]
  <2>1. count \in Nat /\ (b.stale[m] > 0 => count > 0)
    BY DEF Bars
  <2>2. LeaveMenu(b, m) = [open    |-> b.open,
                           timeout |-> b.timeout \cup {m},
                           stale   |-> [b.stale EXCEPT ![m] = count]]
    BY <1>1 DEF LeaveMenu, Bars
  <2> QED  BY <2>1, <2>2 DEF Bars
<1>2. CASE ~(width > 768)
  BY <1>2 DEF LeaveMenu
<1> QED  BY <1>1, <1>2

\* The mouse leaves for p: the menu it leaves has a timer if the document is wide,
\* and what accounted for the others still does.
LEMMA LeftKeeps ==
    ASSUME MenuTypeOK, Accounted(bar, mouse, narrow), NEW p \in Places
    PROVE  /\ Left(bar, p) \in Bars
           /\ \A m, n \in Left(bar, p).open : m = n
           /\ \A m \in Left(bar, p).open :
                  \/ On(p, m) \/ m \in Left(bar, p).timeout \/ Left(bar, p).stale[m] > 0
                  \/ m \in narrow /\ ~On(mouse, m)
                  \/ m \in narrow /\ p.menu = mouse.menu
                  \/ m = mouse.menu /\ p.menu # mouse.menu /\ ~(width > 768)
<1> DEFINE m0 == mouse.menu
           toggle == IF m0 # "none" /\ OnToggle(mouse, m0) /\ ~OnToggle(p, m0)
                     THEN HoverToggle(bar, m0) ELSE bar
<1>1. mouse \in Places /\ (m0 # "none" => m0 \in Menus) /\ bar \in Bars
  BY DEF MenuTypeOK, Places, Away
<1>2. toggle \in Bars /\ (toggle = bar \/ (m0 \in Menus /\ toggle.open = {m0}))
  BY <1>1, HoverToggleIs
<1>3. Left(bar, p) = IF m0 # "none" /\ ~On(p, m0) THEN LeaveMenu(toggle, m0) ELSE toggle
  BY DEF Left
<1>4. /\ \A m, n \in toggle.open : m = n
      /\ \A m \in toggle.open :
             m = m0 \/ m \in toggle.timeout \/ toggle.stale[m] > 0 \/ m \in narrow
  BY <1>2 DEF Accounted, On
<1> HIDE DEF toggle
<1>5. CASE m0 # "none" /\ ~On(p, m0)
  <2>1. /\ Left(bar, p) \in Bars /\ Left(bar, p).open = toggle.open
        /\ width > 768 => m0 \in Left(bar, p).timeout
        /\ toggle.timeout \subseteq Left(bar, p).timeout
        /\ \A n \in Menus : toggle.stale[n] > 0 => Left(bar, p).stale[n] > 0
    BY <1>1, <1>2, <1>3, <1>5, LeaveMenuIs
  <2>2. toggle.open \subseteq Menus
    BY <1>2 DEF Bars
  <2> QED  BY <1>4, <1>5, <2>1, <2>2 DEF On
<1>6. CASE ~(m0 # "none" /\ ~On(p, m0))
  <2>1. Left(bar, p) = toggle
    BY <1>3, <1>6
  <2>2. m0 = "none" \/ p.menu = m0
    BY <1>6 DEF On
  <2>3. toggle.open \subseteq Menus /\ "none" \notin Menus
    BY <1>2, MenuAssumption DEF Bars
  <2> QED  BY <1>2, <1>4, <2>1, <2>2, <2>3 DEF On
<1> QED  BY <1>5, <1>6

\* It comes to p: the menu there may open, alone.
LEMMA EnteredIs ==
    ASSUME NEW b \in Bars, mouse \in Places, NEW p \in Places
    PROVE  /\ Entered(b, p) \in Bars
           /\ Entered(b, p) = b \/ Entered(b, p).open = {p.menu}
<1> DEFINE m1 == p.menu
           toggle == IF m1 # "none" /\ OnToggle(p, m1) /\ ~OnToggle(mouse, m1)
                     THEN HoverToggle(b, m1) ELSE b
<1>1. m1 # "none" => m1 \in Menus
  BY DEF Places, Away
<1>2. toggle \in Bars /\ (toggle = b \/ toggle.open = {m1})
  BY <1>1, HoverToggleIs
<1>3. Entered(b, p) =
          IF m1 # "none" /\ ~On(mouse, m1) THEN EnterMenu(toggle, m1, p.part) ELSE toggle
  BY DEF Entered
<1> HIDE DEF toggle
<1> QED  BY <1>1, <1>2, <1>3, EnterMenuIs

\* The mouse leaves one menu and enters another: each open menu stays accounted for.
LEMMA MouseMoveKeeps ==
    ASSUME MenuTypeOK, Accounted(bar, mouse, narrow), MouseMove
    PROVE  MenuTypeOK' /\ Accounted(bar', mouse', narrow')
<1>1. PICK p \in Places :
        /\ mouse' = p
        /\ bar' = Entered(Left(bar, p), p)
        /\ narrow' = IF p.menu = mouse.menu THEN narrow
                     ELSE (IF width > 768 THEN narrow \ {mouse.menu}
                           ELSE narrow \cup ({mouse.menu} \cap Menus)) \ {p.menu}
        /\ width' = width
  BY DEF MouseMove
<1>2. mouse \in Places /\ width \in Nat /\ narrow \subseteq Menus
  BY DEF MenuTypeOK
<1> DEFINE b == Left(bar, p)
<1>3. /\ b \in Bars
      /\ \A m, n \in b.open : m = n
      /\ \A m \in b.open :
             \/ On(p, m) \/ m \in b.timeout \/ b.stale[m] > 0
             \/ m \in narrow /\ ~On(mouse, m)
             \/ m \in narrow /\ p.menu = mouse.menu
             \/ m = mouse.menu /\ p.menu # mouse.menu /\ ~(width > 768)
  BY LeftKeeps
<1> HIDE DEF b
<1>4. bar' \in Bars /\ (bar' = b \/ bar'.open = {p.menu})
  BY <1>1, <1>2, <1>3, EnteredIs DEF b
<1>5. MenuTypeOK'
  BY <1>1, <1>2, <1>4 DEF MenuTypeOK
<1>6. CASE bar' = b
  <2>1. b.open \subseteq Menus
    BY <1>3 DEF Bars
  <2>2. \A m \in b.open : On(p, m) \/ m \in b.timeout \/ b.stale[m] > 0 \/ m \in narrow'
    BY <1>1, <1>3, <2>1 DEF On
  <2> QED  BY <1>1, <1>3, <1>5, <1>6, <2>2 DEF Accounted
<1>7. CASE bar'.open = {p.menu}
  BY <1>1, <1>5, <1>7 DEF Accounted, On
<1> QED  BY <1>4, <1>6, <1>7

\* A timer takes its menu with it.
LEMMA CloseLaterKeeps ==
    ASSUME MenuTypeOK, Accounted(bar, mouse, narrow), CloseLater
    PROVE  MenuTypeOK' /\ Accounted(bar', mouse', narrow')
<1>1. PICK m \in Menus :
        \/ bar' = [open |-> bar.open \ {m}, timeout |-> bar.timeout \ {m}, stale |-> bar.stale]
        \/ bar.stale[m] > 0 /\ bar' = [open |-> bar.open \ {m}, timeout |-> bar.timeout,
                                     stale |-> [bar.stale EXCEPT ![m] = @ - 1]]
  BY DEF CloseLater
<1>2. UNCHANGED <<mouse, width, narrow>>
  BY DEF CloseLater
<1>3. bar.stale[m] > 0 => [bar.stale EXCEPT ![m] = @ - 1] \in [Menus -> Nat]
  BY DEF MenuTypeOK, Bars
<1>4. /\ bar' \in Bars /\ bar'.open = bar.open \ {m}
      /\ \A n \in Menus \ {m} : /\ n \in bar.timeout => n \in bar'.timeout
                                /\ bar'.stale[n] = bar.stale[n]
  BY <1>1, <1>3 DEF MenuTypeOK, Bars
<1> QED  BY <1>2, <1>4 DEF MenuTypeOK, Accounted, Bars

\* What a click leaves open is under the mouse.
LEMMA ClickKeeps ==
    ASSUME MenuTypeOK, Click
    PROVE  MenuTypeOK' /\ Accounted(bar', mouse', narrow')
<1>1. bar' = [bar EXCEPT !.open = {m \in Menus \ bar.open : OnToggle(mouse, m)}]
  BY DEF Click
<1>2. bar' \in Bars /\ \A m \in bar'.open : m = mouse.menu
  BY <1>1 DEF MenuTypeOK, Bars, OnToggle
<1> QED  BY <1>2 DEF MenuTypeOK, Accounted, On, Click

\* No menu is open when a page comes or goes.
LEMMA ClosedIs ==
    Closed \in Bars /\ \A p, without : Accounted(Closed, p, without)
  BY DEF Closed, Bars, Accounted

\* The menu bar keeps its type, and every open menu is accounted for, as long as the
\* document and the window around it change as they may.
LEMMA MenuInductive ==
    MenuSpec => [](MenuTypeOK /\ Accounted(bar, mouse, narrow))
<1>1. MenuShut /\ width \in Widths => MenuTypeOK /\ Accounted(bar, mouse, narrow)
  BY ClosedIs, WindowAssumption DEF MenuShut, MenuTypeOK, Places
<1>2. /\ MenuTypeOK /\ Accounted(bar, mouse, narrow)
      /\ [MenuNext \/ ((MenuReady \/ MenuLeft) /\ UNCHANGED width)]_<<menuVars, width>>
      => MenuTypeOK' /\ Accounted(bar, mouse, narrow)'
  <2> SUFFICES ASSUME MenuTypeOK, Accounted(bar, mouse, narrow),
                      [MenuNext \/ ((MenuReady \/ MenuLeft) /\ UNCHANGED width)]_<<menuVars, width>>
               PROVE  MenuTypeOK' /\ Accounted(bar', mouse', narrow')
    BY DEF Accounted, On
  <2>1. CASE MouseMove  BY <2>1, MouseMoveKeeps
  <2>2. CASE CloseLater  BY <2>2, CloseLaterKeeps
  <2>3. CASE Click  BY <2>3, ClickKeeps
  <2>4. CASE Resize
    BY <2>4, WindowAssumption DEF Resize, WidthChanges, MenuTypeOK
  <2>5. CASE MenuReady /\ UNCHANGED width
    BY <2>5, ClosedIs DEF MenuReady, MenuTypeOK
  <2>6. CASE MenuLeft /\ UNCHANGED width
    BY <2>6, ClosedIs DEF MenuLeft, MenuTypeOK, Places
  <2>7. CASE UNCHANGED <<menuVars, width>>
    BY <2>7 DEF menuVars, MenuTypeOK
  <2> QED  BY <2>1, <2>2, <2>3, <2>4, <2>5, <2>6, <2>7 DEF MenuNext
<1> QED  BY <1>1, <1>2, PTL DEF MenuSpec

\* AbandonedCloses of dropdownHover, over any sequence of pages: no two menus are
\* open, and none is left open without a timer but on a document too narrow for it.
THEOREM AbandonedClosesAlways == MenuSpec => []AbandonedCloses
<1>1. MenuTypeOK /\ Accounted(bar, mouse, narrow) => AbandonedCloses
  <2> SUFFICES ASSUME MenuTypeOK, Accounted(bar, mouse, narrow)
               PROVE  Cardinality(bar.open) <= 1
    BY DEF Accounted, AbandonedCloses
  <2>1. CASE bar.open = {}
    BY <2>1, FS_EmptySet
  <2>2. CASE bar.open # {}
    <3>1. PICK m : bar.open = {m}
      BY <2>2 DEF Accounted
    <3> QED  BY <3>1, FS_Singleton
  <2> QED  BY <2>1, <2>2
<1> QED  BY <1>1, MenuInductive, PTL
-----------------------------------------------------------------------------
(* The pages of the category page *)

\* What Math.ceil gives.
LEMMA Ceiling ==
    ASSUME NEW n \in Nat \ {0}, NEW s \in Nat \ {0}, NEW p, p = (n + s - 1) \div s
    PROVE  p \in Nat \ {0} /\ (p - 1) * s < n /\ n <= p * s
<1>1. PICK a \in Nat : a = n + s - 1
  OBVIOUS
<1>2. p \in Nat /\ s * p <= a /\ a < s * p + s
  BY <1>1
<1>3. s * (p - 1) = s * p - s /\ s * p \in Nat
  BY <1>2
<1>4. p # 0
  BY <1>1, <1>2
<1> QED BY <1>1, <1>2, <1>3, <1>4

\* The last page begins before the end and does not end before it.  With a size larger
\* than the count the page divides by the count, and there is one page.
LEMMA NumPagesIs ==
    ASSUME NEW n \in Nat \ {0}, NEW size \in Nat \ {0}
    PROVE  /\ NumPages(n, size) \in Nat \ {0}
           /\ (NumPages(n, size) - 1) * size < n /\ n <= NumPages(n, size) * size
<1> DEFINE fitted == Fitted(n, size)
           p == NumPages(n, size)
<1>1. fitted \in Nat \ {0} /\ fitted = IF n <= size THEN n ELSE size
  BY DEF Fitted
<1>2. p = (n + fitted - 1) \div fitted
  BY <1>1 DEF NumPages
<1>3. p \in Nat \ {0} /\ (p - 1) * fitted < n /\ n <= p * fitted
  <2> HIDE DEF fitted, p
  <2> QED BY <1>1, <1>2, Ceiling
<1> HIDE DEF fitted, p
<1>4. CASE n <= size
  <2>1. (p - 1) * n < n
    BY <1>1, <1>3, <1>4
  <2>2. p = 1
    <3>1. ASSUME p - 1 >= 1 PROVE FALSE
      BY <1>3, <2>1, <3>1
    <3> QED BY <1>3, <3>1
  <2> QED BY <1>4, <2>2 DEF p
<1>5. CASE ~(n <= size)
  BY <1>1, <1>3, <1>5 DEF p
<1> QED BY <1>4, <1>5

\* Where page i of the rows ends.
UpTo(rows, size, i) == IF i * size > Len(rows) THEN Len(rows) ELSE i * size

\* Each page begins where the one before has ended, and none is empty.
LEMMA CutIs ==
    ASSUME NEW S, NEW rows \in Seq(S), NEW size \in Nat \ {0}, NEW i \in Nat \ {0},
           (i - 1) * size < Len(rows)
    PROVE  /\ UpTo(rows, size, i - 1) \in 0..Len(rows) - 1
           /\ UpTo(rows, size, i) \in UpTo(rows, size, i - 1) + 1..Len(rows)
           /\ Cut(rows, i, size)
                  = SubSeq(rows, UpTo(rows, size, i - 1) + 1, UpTo(rows, size, i))
<1>1. PICK a \in Nat : a = i * size
  OBVIOUS
<1>2. PICK n \in Nat : n = Len(rows)
  OBVIOUS
<1>3. (i - 1) * size = a - size /\ a - size \in Nat /\ a - size < n
  BY <1>1, <1>2
<1>4. UpTo(rows, size, i - 1) = a - size
  BY <1>2, <1>3 DEF UpTo
<1>5. PICK end : end = IF a > n THEN n ELSE a
  OBVIOUS
<1>6. UpTo(rows, size, i) = end
  BY <1>1, <1>2, <1>5 DEF UpTo
<1>7. Cut(rows, i, size) = SubSeq(rows, a - size + 1, end)
  <2>1. Cut(rows, i, size)
            = IF a - size > n THEN <<>> ELSE SubSeq(rows, a - size + 1, IF a > n THEN n ELSE a)
    BY <1>1, <1>2, Zenon DEF Cut
  <2> QED BY <1>3, <1>5, <2>1
<1>8. a - size \in 0..n - 1 /\ end \in a - size + 1..n
  BY <1>3, <1>5
<1> QED BY <1>2, <1>4, <1>6, <1>7, <1>8

\* The pages that begin before the end.
LEMMA Begun ==
    ASSUME NEW n \in Nat \ {0}, NEW size \in Nat \ {0}, NEW i \in 1..NumPages(n, size)
    PROVE  (i - 1) * size < n
<1>1. PICK p : p = NumPages(n, size)
  OBVIOUS
<1>2. p \in Nat /\ (p - 1) * size < n
  BY <1>1, NumPagesIs
<1>3. i - 1 \in Nat /\ i - 1 <= p - 1
  BY <1>1, <1>2
<1>4. (i - 1) * size <= (p - 1) * size
  BY <1>2, <1>3
<1> QED BY <1>2, <1>3, <1>4

\* What FlattenSeq joins, page after page.
FlatAt(f, i, pages) == IF i = 1 THEN pages[i] ELSE f[i - 1] \o pages[i]
IsFlat(f, pages) == f = [i \in 1..Len(pages) |-> FlatAt(f, i, pages)]

\* There is one function that does so.
LEMMA FlatIs ==
    ASSUME NEW pages, Len(pages) \in Nat \ {0}, NEW g, IsFlat(g, pages)
    PROVE  FlattenSeq(pages) = g[Len(pages)]
<1> DEFINE flat == CHOOSE f : IsFlat(f, pages)
<1>1. PICK p \in Nat \ {0} : p = Len(pages)
  OBVIOUS
<1>2. FlattenSeq(pages) = flat[p]
  BY <1>1 DEF FlattenSeq, IsFlat, FlatAt
<1>3. IsFlat(flat, pages)
  OBVIOUS
<1> HIDE DEF flat
<1>4. \A i \in 1..p : /\ flat[i] = IF i = 1 THEN pages[i] ELSE flat[i - 1] \o pages[i]
                      /\ g[i] = IF i = 1 THEN pages[i] ELSE g[i - 1] \o pages[i]
  BY <1>1, <1>3 DEF IsFlat, FlatAt
<1> DEFINE Bad == {i \in Nat : i \in 1..p /\ flat[i] # g[i]}
<1>5. CASE Bad = {}
  BY <1>1, <1>2, <1>5
<1>6. CASE Bad # {}
  <2>1. PICK i \in Bad : \A j \in Bad : i <= j
    <3>1. Bad \in SUBSET Nat
      OBVIOUS
    <3> HIDE DEF Bad
    <3> QED BY <1>6, <3>1, LeastNat
  <2>2. i \in 1..p /\ flat[i] # g[i]
    BY <2>1
  <2>3. i # 1
    BY <1>4, <2>2
  <2>4. i - 1 \in 1..p /\ i - 1 \notin Bad
    BY <2>1, <2>2, <2>3
  <2>5. flat[i - 1] = g[i - 1]
    BY <2>4
  <2> QED BY <1>4, <2>2, <2>3, <2>5
<1> QED BY <1>5, <1>6

\* The first p pages of the rows.
FirstPages(rows, size, p) == [i \in 1..p |-> Cut(rows, i, size)]

\* Pages one after the other are the rows: after i of them, the first i * size.
LEMMA PagesJoined ==
    ASSUME NEW S, NEW rows \in Seq(S), NEW size \in Nat \ {0}, NEW p \in Nat \ {0},
           (p - 1) * size < Len(rows), Len(rows) <= p * size
    PROVE  FlattenSeq(FirstPages(rows, size, p)) = rows
<1>0. PICK pages : pages = FirstPages(rows, size, p)
  OBVIOUS
<1> DEFINE g == [i \in 1..p |-> SubSeq(rows, 1, UpTo(rows, size, i))]
<1>1. Len(pages) = p /\ \A i \in 1..p : pages[i] = Cut(rows, i, size)
  BY <1>0 DEF FirstPages
<1>2. ASSUME NEW i \in 1..p
      PROVE  /\ UpTo(rows, size, i - 1) \in 0..Len(rows) - 1
             /\ UpTo(rows, size, i) \in UpTo(rows, size, i - 1) + 1..Len(rows)
             /\ pages[i] = SubSeq(rows, UpTo(rows, size, i - 1) + 1, UpTo(rows, size, i))
  <2>1. (i - 1) * size < Len(rows)
    <3>1. i - 1 \in Nat /\ p - 1 \in Nat /\ i - 1 <= p - 1 /\ Len(rows) \in Nat
      OBVIOUS
    <3>2. (i - 1) * size <= (p - 1) * size
      BY <3>1
    <3> QED BY <3>1, <3>2
  <2>2. pages[i] = Cut(rows, i, size) /\ i \in Nat \ {0}
    BY <1>1
  <2> QED BY <2>1, <2>2, CutIs
<1>3. UpTo(rows, size, 0) = 0 /\ UpTo(rows, size, p) = Len(rows)
  BY DEF UpTo
<1>4. ASSUME NEW i \in 1..p PROVE g[i] = FlatAt(g, i, pages)
  <2>1. CASE i = 1
    <3>1. g[i] = SubSeq(rows, 1, UpTo(rows, size, i))
      OBVIOUS
    <3>2. pages[i] = SubSeq(rows, 1, UpTo(rows, size, i))
      <4>1. PICK k : k = UpTo(rows, size, i - 1)
        OBVIOUS
      <4>2. k = 0 /\ k + 1 = 1
        BY <2>1, <4>1 DEF UpTo
      <4>3. pages[i] = SubSeq(rows, k + 1, UpTo(rows, size, i))
        BY <1>2, <4>1, Zenon
      <4> QED BY <4>2, <4>3
    <3> HIDE DEF g
    <3> QED BY <2>1, <3>1, <3>2 DEF FlatAt
  <2>2. CASE i # 1
    <3>1. PICK k, m : k = UpTo(rows, size, i - 1) /\ m = UpTo(rows, size, i)
      OBVIOUS
    <3>2. g[i - 1] = SubSeq(rows, 1, k) /\ g[i] = SubSeq(rows, 1, m)
      <4>1. i \in 1..p /\ i - 1 \in 1..p
        BY <2>2
      <4>2. g[i - 1] = SubSeq(rows, 1, UpTo(rows, size, i - 1))
        BY <4>1, Zenon
      <4>3. g[i] = SubSeq(rows, 1, UpTo(rows, size, i))
        BY <4>1, Zenon
      <4> QED BY <3>1, <4>2, <4>3, Zenon
    <3>3. 1 \in 1..Len(rows) + 1 /\ k \in 1 - 1..Len(rows) /\ m \in k..Len(rows)
      <4>1. k \in 0..Len(rows) - 1 /\ m \in k + 1..Len(rows)
        BY <1>2, <3>1, Zenon
      <4> QED BY <4>1
    <3>4. SubSeq(rows, 1, k) \o SubSeq(rows, k + 1, m) = SubSeq(rows, 1, m)
      BY <3>3, ConcatAdjacentSubSeq
    <3>5. pages[i] = SubSeq(rows, k + 1, m)
      BY <1>2, <3>1
    <3> HIDE DEF g
    <3> QED BY <2>2, <3>2, <3>4, <3>5 DEF FlatAt
  <2> QED BY <2>1, <2>2
<1>5. IsFlat(g, pages)
  <2>1. g = [i \in 1..p |-> g[i]]
    OBVIOUS
  <2> HIDE DEF g
  <2> QED BY <1>1, <1>4, <2>1 DEF IsFlat
<1>6. g[p] = rows
  BY <1>3, SubSeqFull
<1> HIDE DEF g
<1> QED BY <1>0, <1>1, <1>5, <1>6, FlatIs

\* The rows of a filter, row by row.
KeptAt(f, n, matching) ==
    IF n = 0 THEN <<>>
    ELSE IF db.rows[n] \in matching THEN Append(f[n - 1], db.rows[n]) ELSE f[n - 1]
IsKept(f, m, matching) == f = [n \in 0..m |-> KeptAt(f, n, matching)]

\* There is a function that keeps them: the least number of rows without one has a
\* lesser one that has none either.
LEMMA KeptExists ==
    ASSUME NEW matching, NEW m \in Nat
    PROVE  \E f : IsKept(f, m, matching)
<1> DEFINE Bad == {n \in Nat : ~ \E f : IsKept(f, n, matching)}
<1> SUFFICES ASSUME Bad # {} PROVE FALSE
  OBVIOUS
<1>1. PICK n \in Bad : \A k \in Bad : n <= k
  <2>1. Bad \in SUBSET Nat
    OBVIOUS
  <2> HIDE DEF Bad
  <2> QED BY <2>1, LeastNat
<1>2. n # 0
  <2> SUFFICES IsKept([k \in 0..0 |-> <<>>], 0, matching)
    BY <1>1
  <2> QED BY DEF IsKept, KeptAt
<1>3. n - 1 \in Nat /\ n - 1 \notin Bad
  BY <1>1, <1>2
<1>4. PICK f : IsKept(f, n - 1, matching)
  BY <1>3
<1> DEFINE g == [k \in 0..n |-> IF k < n THEN f[k] ELSE KeptAt(f, n, matching)]
<1>5. ASSUME NEW k \in 0..n PROVE g[k] = KeptAt(g, k, matching)
  <2>1. k > 0 => g[k - 1] = f[k - 1]
    BY <1>3
  <2>2. KeptAt(g, k, matching) = KeptAt(f, k, matching)
    <3> HIDE DEF g
    <3> QED BY <2>1 DEF KeptAt
  <2>3. k < n => f[k] = KeptAt(f, k, matching)
    <3>1. \A j \in 0..n - 1 : f[j] = KeptAt(f, j, matching)
      BY <1>4 DEF IsKept
    <3> QED BY <1>3, <3>1
  <2> QED BY <2>2, <2>3, <1>3
<1>6. IsKept(g, n, matching)
  <2>1. g = [k \in 0..n |-> g[k]]
    OBVIOUS
  <2> HIDE DEF g
  <2> QED BY <2>1, <1>5 DEF IsKept
<1> QED BY <1>1, <1>6

\* The service lists the socks that match, each once, and counts as many.
THEOREM ListedAreCounted ==
    ASSUME db \in Databases, NEW filter, NEW order
    PROVE  /\ Rows(filter, order) \in Seq(Socks)
           /\ Range(Rows(filter, order)) = Matching(filter)
           /\ IsInjective(Rows(filter, order))
           /\ Len(Rows(filter, order)) = Count(filter) /\ Count(filter) \in Nat
<1> DEFINE M == Matching(filter)
           before(n) == {db.rows[j] : j \in 1..n} \cap M
           kept == CHOOSE f : IsKept(f, Len(db.rows), M)
<1>1. /\ db.rows \in Seq(Socks) /\ Len(db.rows) \in Nat
      /\ Range(db.rows) = Socks /\ IsInjective(db.rows)
  BY ListingAssumption
<1>2. IsFiniteSet(Socks) /\ M \subseteq Socks /\ IsFiniteSet(M) /\ Count(filter) = Cardinality(M)
  <2>1. M \in SUBSET Socks
    BY DEF Matching
  <2> QED BY <2>1, FS_Subset, ListingAssumption DEF Count
<1>3. IsKept(kept, Len(db.rows), M)
  BY <1>1, KeptExists
<1>4. Rows(filter, order) = kept[Len(db.rows)]
  BY DEF Rows, IsKept, KeptAt
<1>5. \A n \in 0..Len(db.rows) : kept[n] = KeptAt(kept, n, M)
  <2> HIDE DEF kept
  <2> QED BY <1>3 DEF IsKept
<1> HIDE DEF kept, M
<1> DEFINE
      Good(n) ==
          /\ kept[n] \in Seq(Socks)
          /\ {kept[n][k] : k \in 1..Len(kept[n])} = before(n)
          /\ IsFiniteSet(before(n)) /\ Len(kept[n]) = Cardinality(before(n))
      Bad == {n \in Nat : n <= Len(db.rows) /\ ~Good(n)}
<1>6. Good(0)
  <2>1. kept[0] = <<>>
    BY <1>1, <1>5 DEF KeptAt
  <2>2. before(0) = {}
    OBVIOUS
  <2> HIDE DEF before
  <2> QED BY <2>1, <2>2, FS_EmptySet
<1>7. ASSUME NEW n \in 1..Len(db.rows), Good(n - 1) PROVE Good(n)
  <2>1. PICK r : r = db.rows[n]
    OBVIOUS
  <2>2. r \in Socks /\ n \in Nat /\ n - 1 \in Nat
    BY <1>1, <2>1
  <2>3. r \notin before(n - 1)
    <3>1. \A j \in 1..n - 1 : db.rows[j] # r
      BY <1>1, <2>1 DEF IsInjective
    <3> QED BY <3>1
  <2>4. {db.rows[j] : j \in 1..n} = {db.rows[j] : j \in 1..n - 1} \cup {r}
    BY <1>1, <2>1, <2>2
  <2>5. kept[n] = IF r \in M THEN Append(kept[n - 1], r) ELSE kept[n - 1]
    BY <1>1, <1>5, <2>1 DEF KeptAt
  <2>6. CASE r \in M
    <3>1. before(n) = before(n - 1) \cup {r}
      BY <2>4, <2>6
    <3>2. PICK old : old = kept[n - 1]
      OBVIOUS
    <3>3. PICK b : b = before(n - 1)
      OBVIOUS
    <3>4. /\ old \in Seq(Socks) /\ IsFiniteSet(b) /\ Len(old) = Cardinality(b)
          /\ {old[k] : k \in 1..Len(old)} = b /\ r \notin b
      BY <1>7, <2>3, <3>2, <3>3
    <3>5. kept[n] = Append(old, r) /\ before(n) = b \cup {r}
      BY <2>5, <2>6, <3>1, <3>2, <3>3
    <3> HIDE DEF before
    <3>6. Append(old, r) \in Seq(Socks) /\ Len(Append(old, r)) = Len(old) + 1
      BY <2>2, <3>4
    <3>7. {Append(old, r)[k] : k \in 1..Len(old) + 1} = b \cup {r}
      <4>1. Append(old, r)[Len(old) + 1] = r
        BY <3>4
      <4>2. \A k \in 1..Len(old) : Append(old, r)[k] = old[k]
        BY <3>4
      <4>3. Len(old) \in Nat /\ 1..Len(old) + 1 = 1..Len(old) \cup {Len(old) + 1}
        BY <3>4
      <4> QED BY <3>4, <4>1, <4>2, <4>3
    <3>8. IsFiniteSet(b \cup {r}) /\ Cardinality(b \cup {r}) = Cardinality(b) + 1
      BY <3>4, FS_AddElement
    <3> QED BY <3>4, <3>5, <3>6, <3>7, <3>8
  <2>7. CASE r \notin M
    <3>1. before(n) = before(n - 1)
      BY <2>4, <2>7
    <3> HIDE DEF before
    <3> QED BY <1>7, <2>5, <2>7, <3>1
  <2> QED BY <2>6, <2>7
<1>8. Good(Len(db.rows))
  <2>1. CASE Bad = {}
    <3>1. PICK n \in Nat : n = Len(db.rows)
      BY <1>1
    <3>2. n \notin Bad
      <4> HIDE DEF Bad
      <4> QED BY <2>1
    <3> HIDE DEF Good
    <3> QED BY <3>1, <3>2
  <2>2. CASE Bad # {}
    <3>1. PICK n \in Bad : \A m \in Bad : n <= m
      <4>1. Bad \in SUBSET Nat
        OBVIOUS
      <4> HIDE DEF Bad
      <4> QED BY <2>2, <4>1, LeastNat
    <3>2. n \in Nat /\ n <= Len(db.rows) /\ ~Good(n)
      BY <3>1
    <3> HIDE DEF Good
    <3>3. n # 0
      BY <1>6, <3>2
    <3>4. n - 1 \in Nat /\ n - 1 \notin Bad /\ n \in 1..Len(db.rows)
      BY <1>1, <3>1, <3>2, <3>3
    <3>5. Good(n - 1)
      BY <1>1, <3>2, <3>4
    <3> QED BY <1>7, <3>2, <3>4, <3>5
  <2> QED BY <2>1, <2>2
<1>9. before(Len(db.rows)) = M
  BY <1>1, <1>2 DEF Range
<1> HIDE DEF before
<1>10. PICK rows : rows = Rows(filter, order)
  OBVIOUS
<1>11. /\ rows \in Seq(Socks) /\ Len(rows) = Cardinality(M)
       /\ {rows[k] : k \in 1..Len(rows)} = M
  BY <1>4, <1>8, <1>9, <1>10
<1>12. Range(rows) = M
  BY <1>11 DEF Range
<1>13. IsInjective(rows)
  <2>1. rows \in [1..Len(rows) -> M] /\ Len(rows) \in Nat
    BY <1>11
  <2>2. rows \in Surjection(1..Len(rows), M)
    BY <1>11, <2>1 DEF Surjection
  <2>3. IsFiniteSet(1..Len(rows)) /\ Cardinality(1..Len(rows)) = Cardinality(M)
    <3>1. PICK n \in Nat : n = Len(rows)
      BY <2>1
    <3>2. 1 \in Int /\ n \in Int /\ n = IF 1 > n THEN 0 ELSE n - 1 + 1
      OBVIOUS
    <3>3. IsFiniteSet(1..n) /\ Cardinality(1..n) = n
      BY <3>2, FS_Interval
    <3> QED BY <1>11, <3>1, <3>3
  <2>4. rows \in Injection(1..Len(rows), M)
    BY <2>2, <2>3, FS_SurjSameCardinalityImpliesInj
  <2> QED BY <2>4 DEF Injection, IsInjective
<1> QED BY <1>2, <1>10, <1>11, <1>12, <1>13 DEF M

\* However many socks match and whatever the size, but 0 for some: the pages that are
\* offered, one after the other, are what the service lists for the filter.
THEOREM PagesCoverRows ==
    ASSUME db \in Databases, NEW filter, NEW order, NEW size \in Nat,
           size # 0 \/ Count(filter) = 0
    PROVE  Covered(filter, order, size)
<1> DEFINE n == Count(filter)
           rows == Rows(filter, order)
           pages == [i \in 1..NumPages(n, size) |-> List(filter, order, i, size)]
<1>1. rows \in Seq(Socks) /\ Len(rows) = n /\ n \in Nat
  BY ListedAreCounted
<1>2. Covered(filter, order, size) <=> FlattenSeq(pages) = rows
  BY DEF Covered
<1> HIDE DEF n
<1>3. CASE n = 0
  <2>1. NumPages(n, size) = 0
    BY <1>3 DEF NumPages, Fitted
  <2>2. pages = <<>> /\ rows = <<>>
    <3> HIDE DEF rows
    <3> QED BY <1>1, <1>3, <2>1
  <2>3. FlattenSeq(<<>>) = <<>>
    BY DEF FlattenSeq
  <2> QED BY <1>2, <2>2, <2>3
<1>4. CASE n # 0
  <2>1. n \in Nat \ {0} /\ size \in Nat \ {0}
    BY <1>1, <1>4 DEF n
  <2>2. PICK p : p = NumPages(n, size)
    OBVIOUS
  <2>3. p \in Nat \ {0} /\ (p - 1) * size < n /\ n <= p * size
    BY <2>1, <2>2, NumPagesIs
  <2>4. pages = FirstPages(rows, size, p)
    BY <2>2 DEF List, FirstPages
  <2> HIDE DEF rows, pages
  <2>5. (p - 1) * size < Len(rows) /\ Len(rows) <= p * size
    BY <1>1, <2>3
  <2>6. FlattenSeq(FirstPages(rows, size, p)) = rows
    BY <1>1, <2>1, <2>3, <2>5, PagesJoined
  <2> QED BY <1>2, <2>4, <2>6
<1> QED BY <1>3, <1>4

\* A page that is offered shows a sock, unless the size is 0.
THEOREM PagesShowSocks ==
    ASSUME db \in Databases, NEW filter, NEW order, NEW size \in Nat \ {0},
           NEW i \in 1..NumPages(Count(filter), size)
    PROVE  List(filter, order, i, size) # <<>>
<1> DEFINE rows == Rows(filter, order)
<1>1. PICK n : n = Count(filter)
  OBVIOUS
<1>2. rows \in Seq(Socks) /\ Len(rows) = n /\ n \in Nat
  BY <1>1, ListedAreCounted
<1>3. n # 0
  <2>1. ASSUME n = 0 PROVE NumPages(n, size) = 0
    BY <2>1 DEF NumPages, Fitted
  <2> QED BY <1>1, <2>1
<1>4. NumPages(n, size) \in Nat /\ (i - 1) * size < n
  BY <1>1, <1>2, <1>3, NumPagesIs, Begun
<1>5. List(filter, order, i, size) = Cut(rows, i, size)
  BY DEF List
<1> HIDE DEF rows
<1>6. PICK k, m : k = UpTo(rows, size, i - 1) /\ m = UpTo(rows, size, i)
  OBVIOUS
<1>7. k \in 0..n - 1 /\ m \in k + 1..n /\ Cut(rows, i, size) = SubSeq(rows, k + 1, m)
  <2>1. i \in Nat \ {0}
    BY <1>1, <1>4
  <2> QED BY <1>2, <1>4, <1>6, <2>1, CutIs
<1>8. PICK s : s = SubSeq(rows, k + 1, m)
  OBVIOUS
<1>9. Len(s) # 0
  <2>1. Len(s) = m - k
    BY <1>2, <1>7, <1>8
  <2> QED BY <1>2, <1>7, <2>1
<1>10. s # <<>>
  BY <1>9
<1> QED BY <1>5, <1>7, <1>8, <1>10
=============================================================================
