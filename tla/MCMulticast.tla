---------------------------- MODULE MCMulticast -----------------------------
(***************************************************************************)
(* Multicast on small instances.  Only cells -1 and 0 of window[] are ever *)
(* read before they are written; the others start at 2.                    *)
(***************************************************************************)
EXTENDS MulticastNoWrap

Stale(before, first) ==
    [k \in Cells |-> IF k = -1 THEN before ELSE IF k = 0 THEN first ELSE 2]

\* The bytes before the array zero or not, cell 0 a loss, a reception or neither.
MCStaleWindows == {Stale(0, 1), Stale(0, 0), Stale(2, 2)}

\* One content: frame 0 is not taken for received.
OneStaleWindow == {[k \in Cells |-> IF k = -1 THEN 2 ELSE 0]}
=============================================================================
