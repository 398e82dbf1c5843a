---------------------------- MODULE MCDackTimer -----------------------------
(***************************************************************************)
(* DackTimer with a few DACKs.                                             *)
(***************************************************************************)
EXTENDS DackTimer
=============================================================================
