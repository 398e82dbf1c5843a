----------------------------- MODULE MCPrepDack -----------------------------
(***************************************************************************)
(* PrepDack over every content of a window of 6 cells (and the bytes       *)
(* before it), for rounds below, at and beyond one turn of the window.     *)
(***************************************************************************)
EXTENDS PrepDack

MCAlphas == {0, 1, 3, 200}
=============================================================================
