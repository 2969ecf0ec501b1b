-------------------------------- MODULE Menu --------------------------------
(***************************************************************************)
(* The drop-down menus of the account and checkout pages, which open when  *)
(* the mouse comes over them (bootstrap-hover-dropdown.js).  The closing   *)
(* timer of a menu is named by one variable of its closure, `timeout`,     *)
(* which is overwritten when the mouse leaves and cleared when it opens.   *)
(*                                                                         *)
(* A menu is an element with a toggle, that has a text and a caret, and a  *)
(* list, which is there to point at while the menu is open.  The mouse is  *)
(* the only pointing device: on touch screens the plugin does nothing.     *)
(***************************************************************************)
EXTENDS Window, FiniteSets

CONSTANTS
    Menus,
    MaxTimers \* bound: closing timers of one menu running at once

ASSUME MenuAssumption == MaxTimers \in Nat \ {0} /\ "none" \notin Menus

VARIABLES
    bar,      \* open: the open menus; timeout: those whose `timeout` names a timer;
              \* stale: timers that run and are named no longer
    mouse,    \* the part of a menu the mouse is on: [menu, part], or Away
    narrow    \* history: the menus the mouse last left at a width without timers

menuVars == <<bar, mouse, narrow>>

Toggle == {"text", "caret"}
Away == [menu |-> "none", part |-> "none"]
Places == [menu : Menus, part : Toggle \cup {"list"}] \cup {Away}

Closed == [open |-> {}, timeout |-> {}, stale |-> [m \in Menus |-> 0]]

-----------------------------------------------------------------------------
(* The handlers *)

\* openDropdown, with instantlyCloseOthers
OpenDropdown(b, m) ==
    IF width > 760
    THEN [open |-> {m}, timeout |-> b.timeout \ {m}, stale |-> b.stale]
    ELSE b

\* The mouse leaves the toggle, or enters it: `hover` with one function calls it
\* for both.
HoverToggle(b, m) == IF m \in b.open THEN OpenDropdown(b, m) ELSE b

\* It enters the menu: a neighbour of the toggle cannot open it.
EnterMenu(b, m, part) ==
    IF m \in b.open \/ part = "text" THEN OpenDropdown(b, m) ELSE b

\* It leaves the menu.
LeaveMenu(b, m) ==
    IF width > 768
    THEN [b EXCEPT !.timeout = @ \cup {m}, !.stale[m] = IF m \in b.timeout THEN @ + 1 ELSE @]
    ELSE b

On(p, m) == p.menu = m
OnToggle(p, m) == p.menu = m /\ p.part \in Toggle

\* Mutant of Left: the menu hears of it before its toggle.
LeftMenuFirst(b, p) ==
    LET m == mouse.menu
        menu == IF m # "none" /\ ~On(p, m) THEN LeaveMenu(b, m) ELSE b
    IN  IF m # "none" /\ OnToggle(mouse, m) /\ ~OnToggle(p, m) THEN HoverToggle(menu, m) ELSE menu

\* Events bubble: first the toggle hears that the mouse has left for p, then the
\* menu.
Left(b, p) ==
    LET m == mouse.menu
        toggle == IF m # "none" /\ OnToggle(mouse, m) /\ ~OnToggle(p, m)
                  THEN HoverToggle(b, m) ELSE b
    IN  IF m # "none" /\ ~On(p, m) THEN LeaveMenu(toggle, m) ELSE toggle

Entered(b, p) ==
    LET m == p.menu
        toggle == IF m # "none" /\ OnToggle(p, m) /\ ~OnToggle(mouse, m)
                  THEN HoverToggle(b, m) ELSE b
    IN  IF m # "none" /\ ~On(mouse, m) THEN EnterMenu(toggle, m, p.part) ELSE toggle

MouseMove ==
    \E p \in Places \ {mouse} :
        /\ p.part = "list" => p.menu \in bar.open
        /\ mouse' = p
        /\ bar' = Entered(Left(bar, p), p)
        /\ \A m \in Menus : bar'.stale[m] < MaxTimers
        /\ narrow' = IF p.menu = mouse.menu THEN narrow
                     ELSE (IF width > 768 THEN narrow \ {mouse.menu}
                           ELSE narrow \cup ({mouse.menu} \cap Menus)) \ {p.menu}
        /\ UNCHANGED width

\* The timer that `timeout` names, or one it names no longer, closes its menu.
CloseLater ==
    \E m \in Menus :
        /\ \/ /\ m \in bar.timeout
              /\ bar' = [open |-> bar.open \ {m}, timeout |-> bar.timeout \ {m},
                         stale |-> bar.stale]
           \/ /\ bar.stale[m] > 0
              /\ bar' = [open |-> bar.open \ {m}, timeout |-> bar.timeout,
                         stale |-> [bar.stale EXCEPT ![m] = @ - 1]]
        /\ UNCHANGED <<mouse, width, narrow>>

\* Bootstrap: a click closes all menus, one on the toggle of a closed menu opens it.
Click ==
    /\ bar' = [bar EXCEPT !.open = {m \in Menus \ @ : OnToggle(mouse, m)}]
    /\ UNCHANGED <<mouse, width, narrow>>

Resize ==
    /\ WidthChanges
    /\ UNCHANGED <<bar, mouse, narrow>>

MenuShut == bar = Closed /\ mouse = Away /\ narrow = {}

MenuReady ==
    /\ bar' = Closed /\ narrow' = {}
    /\ mouse' \in {p \in Places : p.part # "list"}

MenuLeft == bar' = Closed /\ mouse' = Away /\ narrow' = {}

MenuNext == MouseMove \/ CloseLater \/ Click \/ Resize

\* The menus of one page after the other.
MenuSpec ==
    /\ MenuShut /\ width \in Widths
    /\ [][MenuNext \/ ((MenuReady \/ MenuLeft) /\ UNCHANGED width)]_<<menuVars, width>>

-----------------------------------------------------------------------------
(* Properties *)

\* One menu is open at most, and one that the mouse has left has a timer that will
\* close it, whatever was moved, clicked and opened in between.  But menus open on
\* documents wider than 760, and get a timer on those wider than 768 only.
AbandonedCloses ==
    /\ Cardinality(bar.open) <= 1
    /\ \A m \in bar.open :
           On(mouse, m) \/ m \in bar.timeout \/ bar.stale[m] > 0 \/ m \in narrow

\* The types its proof needs: the timers are counted, the mouse is at a place.
Bars == [open : SUBSET Menus, timeout : SUBSET Menus, stale : [Menus -> Nat]]

MenuTypeOK ==
    /\ bar \in Bars
    /\ mouse \in Places
    /\ width \in Nat
    /\ narrow \subseteq Menus

\* What a step may rely on, of the menus b with the mouse at p: one is open at
\* most, and the mouse, a timer or a width that gave it none accounts for it.
Accounted(b, p, without) ==
    /\ \A m, n \in b.open : m = n
    /\ \A m \in b.open :
           On(p, m) \/ m \in b.timeout \/ b.stale[m] > 0 \/ m \in without
=============================================================================
