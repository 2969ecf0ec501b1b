------------------------------- MODULE Window -------------------------------
(* The window of the browser, as wide as the customer makes it. *)
EXTENDS Naturals

CONSTANT Widths   \* widths the document may have

ASSUME WindowAssumption == Widths \subseteq Nat

VARIABLE width   \* of the document

WidthChanges == width' \in Widths \ {width}
=============================================================================
