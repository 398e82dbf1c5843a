----------------------------- MODULE MCRxEntry ------------------------------
(***************************************************************************)
(* RxEntry with two application threads and encodings of which two share a *)
(* bucket.                                                                 *)
(***************************************************************************)
EXTENDS RxEntry

CONSTANTS encA, encB, encC

MCBucketOf == [x \in {encA, encB, encC} |-> IF x = encC THEN 2 ELSE 1]
=============================================================================
