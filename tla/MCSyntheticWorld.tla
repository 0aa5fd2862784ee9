--------------------------- MODULE MCSyntheticWorld ---------------------------
(* A ring of two whose actions may be drawn on the first day of the window. *)
EXTENDS SyntheticWorld

NoChange == {{}}
================================================================================
