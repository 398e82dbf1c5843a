-------------------------- MODULE MulticastNoWrap ---------------------------
(***************************************************************************)
(* Multicast as long as vmact->seq, a u16, does not start over at 0: the   *)
(* theorems and the runs that pass are about this part of a stream.        *)
(* MCSeqWrap shows what happens after it.                                  *)
(***************************************************************************)
EXTENDS Multicast

ASSUME NoWrapAssumption == MAXSEND < U16
=============================================================================
