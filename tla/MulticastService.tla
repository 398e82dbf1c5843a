-------------------------- MODULE MulticastService --------------------------
(***************************************************************************)
(* What V-MAC promises the applications of one encoding: a producer        *)
(* publishes data, and every data frame is handed to the application of a  *)
(* subscribed consumer at most once per subscription.  Delivery is best    *)
(* effort, so nothing says that a frame is delivered, nor in what order.   *)
(***************************************************************************)
EXTENDS Naturals

CONSTANTS
    Consumers,  \* the radios that may subscribe
    MAXSEND     \* bound: data frames published in a behaviour

VARIABLES
    published,  \* number of frames published; frame n is the n-th, from 0
    member,     \* member[c]: c has a subscription
    delivered   \* delivered[c][n]: times c's application got frame n

vars == <<published, member, delivered>>

Frames == 0 .. MAXSEND - 1
Nothing == [n \in Frames |-> 0]

Init ==
    /\ published = 0
    /\ member = [c \in Consumers |-> FALSE]
    /\ delivered = [c \in Consumers |-> Nothing]

Publish ==
    /\ published < MAXSEND
    /\ published' = published + 1
    /\ UNCHANGED <<member, delivered>>

\* A new subscription knows nothing of an earlier one.
Join(c) ==
    /\ ~member[c]
    /\ member' = [member EXCEPT ![c] = TRUE]
    /\ delivered' = [delivered EXCEPT ![c] = Nothing]
    /\ UNCHANGED published

Leave(c) ==
    /\ member[c]
    /\ member' = [member EXCEPT ![c] = FALSE]
    /\ UNCHANGED <<published, delivered>>

Deliver(c, n) ==
    /\ member[c]
    /\ n < published
    /\ delivered[c][n] = 0
    /\ delivered' = [delivered EXCEPT ![c][n] = 1]
    /\ UNCHANGED <<published, member>>

Next ==
    \/ Publish
    \/ \E c \in Consumers :
          Join(c) \/ Leave(c) \/ \E n \in Frames : Deliver(c, n)

Spec == Init /\ [][Next]_vars
=============================================================================
