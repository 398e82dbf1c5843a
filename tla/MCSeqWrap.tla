----------------------------- MODULE MCSeqWrap ------------------------------
(***************************************************************************)
(* A stream that outlives the u16 vmact->seq: more frames are published    *)
(* than there are sequence numbers (65536 in the code, U16 here).          *)
(***************************************************************************)
EXTENDS Multicast

\* Cell 0 does not pass for a reception.
MCStaleWindows == {[k \in Cells |-> IF k = -1 THEN 2 ELSE 0]}
=============================================================================
