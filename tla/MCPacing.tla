------------------------------ MODULE MCPacing ------------------------------
(***************************************************************************)
(* The pacing of retransmissions.  granted is a ghost next to timer[]: the *)
(* round in which a frame may be retransmitted again, without the          *)
(* truncation to a u8 of the assignment timer[le % WINDOW_TX] = round + 6. *)
(***************************************************************************)
EXTENDS MCMulticast

VARIABLE granted

PacedInit == Init /\ granted = [k \in Slots |-> 0]

PacedNext ==
    /\ Next
    /\ granted' = IF TxSeq THEN [granted EXCEPT ![seq % WINDOW_TX] = 0]
                  ELSE IF CopyFrame THEN [granted EXCEPT ![le % WINDOW_TX] = dround + PACE]
                  ELSE granted

PacedSpec == PacedInit /\ [][PacedNext]_<<vars, granted>>

(***************************************************************************)
(* The pseudo code above vmac_rx: having retransmitted a frame, the DACK   *)
(* handler waits PACE rounds before it does so again.                      *)
(***************************************************************************)
RetxPaced ==
    (dpc = "scan" /\ InHole /\ Eligible) => dround >= granted[le % WINDOW_TX]
=============================================================================
