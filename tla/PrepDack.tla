------------------------------ MODULE PrepDack ------------------------------
(***************************************************************************)
(* prepDACK (dack.c), one action per test of its three nested loops, from  *)
(* the call by vmac_rx up to the delay it computes for dack_timer.  The    *)
(* window it reads cannot change meanwhile: vmac_rx, its only writer, is   *)
(* the caller.  What happens to the finished DACK under dacklok is the     *)
(* subject of DackTimer.                                                   *)
(***************************************************************************)
EXTENDS RxWindow, Sequences

CONSTANTS
    MAXROUND,   \* bound: rounds are 1 .. MAXROUND
    MAXDELAY,   \* cap on alpha and on the delay, the literal 100 of prepDACK
    SHORTDELAY, \* the delay that replaces one above the cap, the literal 10
    Alphas,     \* inter-arrival estimates vmac_rx may have left in alpha
    U8          \* 2^8, the range of the loss counter

ASSUME PrepDackAssumption ==
    /\ MAXROUND \in Nat \ {0}
    /\ MAXDELAY \in Nat /\ SHORTDELAY \in 1 .. MAXDELAY
    /\ Alphas \subseteq Nat
    /\ U8 \in Nat \ {0} /\ U8 > BURST

VARIABLES
    window,     \* vmac->window
    round,      \* the argument round
    send,       \* dac_info->send: 1 when an earlier DACK is still waiting
    pc,         \* the loop the function is in
    i,          \* scan position
    tmp,        \* left edge being extended
    holesy,     \* the holes found so far, in order
    loss,       \* u8 loss counter
    alpha,      \* vmac->alpha
    duration    \* the delay computed, and what mod_timer was given

vars == <<window, round, send, pc, i, tmp, holesy, loss, alpha, duration>>

lattmp == round * BURST

TypeOK ==
    /\ window \in [Cells -> {0, 1}]
    /\ round \in 1 .. MAXROUND
    /\ send \in {0, 1}
    /\ pc \in {"scan", "left", "right", "delay", "arm", "armed", "replaced", "dropped"}
    /\ i \in 0 .. lattmp
    /\ tmp \in 0 .. lattmp
    /\ Len(holesy) <= HOLES_MAX
    /\ \A n \in DOMAIN holesy : holesy[n] \in Holes(lattmp)
    /\ loss \in 0 .. U8 - 1
    /\ alpha \in Nat
    /\ duration \in Int

(***************************************************************************)
(* Any pattern of lost and received frames, with either reading of the     *)
(* bytes before the array.  Frame s, newer than all before it, was just    *)
(* marked and requests round s / 5.                                        *)
(***************************************************************************)
Init ==
    /\ window \in [Cells -> {0, 1}]
    /\ round \in 1 .. MAXROUND
    /\ \E s \in lattmp .. lattmp + BURST - 1 : window[Slot(s)] = 1
    /\ send \in {0, 1}
    /\ pc = "scan"
    /\ i = ScanBase(lattmp)
    /\ tmp = 0
    /\ holesy = << >>
    /\ loss = 0
    /\ alpha \in Alphas
    /\ duration = 0

\* Seeded fault: the for statement without its i++.
ScanStuck ==
    /\ pc = "scan"
    /\ IF i < lattmp /\ Len(holesy) < HOLES_MAX
       THEN IF Lost(window, i)
            THEN pc' = "left" /\ tmp' = i /\ UNCHANGED i
            ELSE UNCHANGED <<i, pc, tmp>>
       ELSE pc' = "delay" /\ UNCHANGED <<i, tmp>>
    /\ UNCHANGED <<window, round, send, holesy, loss, alpha, duration>>

\* The for statement: its test and the test for a lost frame.
Scan ==
    /\ pc = "scan"
    /\ IF i < lattmp /\ Len(holesy) < HOLES_MAX
       THEN IF Lost(window, i)
            THEN pc' = "left" /\ tmp' = i /\ UNCHANGED i
            ELSE i' = i + 1 /\ UNCHANGED <<pc, tmp>>
       ELSE pc' = "delay" /\ UNCHANGED <<i, tmp>>
    /\ UNCHANGED <<window, round, send, holesy, loss, alpha, duration>>

\* Seeded faults: the base not looked at; tmp tested instead of its neighbour.
LeftRunPastBase == LostBefore(window, tmp) /\ tmp > 0
LeftRunFromSelf == Lost(window, tmp) /\ tmp > 0 /\ ScanBase(lattmp) < tmp - 1

\* The condition of the first while.
LeftRun == LostBefore(window, tmp) /\ tmp > 0 /\ ScanBase(lattmp) < tmp - 1

\* The first while: tmp moves left over lost frames, never onto the base.
LeftEdge ==
    /\ pc = "left"
    /\ IF LeftRun
       THEN tmp' = tmp - 1 /\ loss' = (loss + 1) % U8 /\ UNCHANGED pc
       ELSE pc' = "right" /\ UNCHANGED <<tmp, loss>>
    /\ UNCHANGED <<window, round, send, i, holesy, alpha, duration>>

\* Seeded faults: no end to the run; an end one frame early.
RightRunUnbounded == Lost(window, i)
RightRunShort == Lost(window, i) /\ i < lattmp - 2

\* The condition of the second while.
RightRun == Lost(window, i) /\ i < lattmp - 1

\* The second while, the hole it ends, and the i++ of the for statement.
RightEdge ==
    /\ pc = "right"
    /\ IF RightRun
       THEN i' = i + 1 /\ loss' = (loss + 1) % U8 /\ UNCHANGED <<pc, holesy>>
       ELSE /\ holesy' = Append(holesy, [le |-> tmp, re |-> i])
            /\ i' = i + 1
            /\ pc' = "scan"
            /\ UNCHANGED loss
    /\ UNCHANGED <<window, round, send, tmp, alpha, duration>>

(***************************************************************************)
(* The answer delay: few losses wait longer, so that the consumer that     *)
(* misses most answers first.  rndm is get_random_bytes(long) % 2.         *)
(***************************************************************************)
Delay ==
    /\ pc = "delay"
    /\ loss' = IF loss <= BURST THEN BURST - loss ELSE loss
    /\ alpha' = IF alpha >= MAXDELAY THEN MAXDELAY ELSE alpha
    /\ \E rndm \in {-1, 0, 1} :
          LET d == 2 * alpha' * (loss' + rndm)
          IN  duration' = IF d = 0 THEN 1 ELSE d
    /\ pc' = "arm"
    /\ UNCHANGED <<window, round, send, i, tmp, holesy>>

\* Only a DACK with no predecessor waiting arms the timer, at most MAXDELAY away;
\* otherwise it takes its predecessor's place and the timer runs on.
Arm ==
    /\ pc = "arm"
    /\ IF send = 1
       THEN pc' = "replaced" /\ UNCHANGED <<send, duration>>
       ELSE /\ pc' = "armed"
            /\ send' = 1
            /\ duration' = IF duration > MAXDELAY THEN SHORTDELAY ELSE duration
    /\ UNCHANGED <<window, round, i, tmp, holesy, loss, alpha>>

\* dev_alloc_skb found no memory, or dacklok was held: the DACK is given up.
GiveUp ==
    /\ pc \in {"delay", "arm"}
    /\ pc' = "dropped"
    /\ UNCHANGED <<window, round, send, i, tmp, holesy, loss, alpha, duration>>

Next == Scan \/ LeftEdge \/ RightEdge \/ Delay \/ Arm \/ GiveUp

Spec == Init /\ [][Next]_vars /\ WF_vars(Next)

-----------------------------------------------------------------------------
Scanned == pc \in {"delay", "arm", "armed", "replaced", "dropped"}
Reported == {holesy[n] : n \in DOMAIN holesy}

(***************************************************************************)
(* The three loops compute DackHoles, the definition by edges that         *)
(* Multicast uses, and report the holes by ascending right edge (the order *)
(* in which the producer's DACK handler serves them).                      *)
(***************************************************************************)
HolesMatchDefinition ==
    Scanned =>
        /\ Reported = DackHoles(window, lattmp)
        /\ \A m, n \in DOMAIN holesy : m < n => holesy[m].re < holesy[n].re

(***************************************************************************)
(* Every frame of the scan that the window records as lost is asked for,   *)
(* unless the DACK ran out of room for holes.  The one exception is the    *)
(* last frame of the round, which the right edge never passes.             *)
(***************************************************************************)
LossesRequested ==
    (Scanned /\ Len(holesy) < HOLES_MAX) =>
        \A s \in ScanBase(lattmp) .. lattmp - 2 :
            Lost(window, s) => s \in Requested(Reported)

(***************************************************************************)
(* A DACK asks only for frames the window records as lost, whenever the    *)
(* two bytes before window[] that the left-edge loop reads on a multiple   *)
(* of WINDOW are not zero.  (When they are zero the loop walks over frames *)
(* that were received, and the holes may overlap.)                         *)
(***************************************************************************)
OnlyLossesRequested ==
    (Scanned /\ window[-1] # 0) =>
        /\ \A s \in Requested(Reported) : Lost(window, s)
        /\ \A m, n \in DOMAIN holesy : m < n => holesy[m].re <= holesy[n].le

\* The function returns: no window content makes one of its loops run forever.
Terminates == <>(pc \in {"armed", "replaced", "dropped"})

(***************************************************************************)
(* The pseudo code above prepDACK: the left edge moves only onto a frame   *)
(* that is lost.                                                           *)
(***************************************************************************)
LeftEdgeLost == pc = "right" => \A s \in tmp .. i : Lost(window, s) \/ s = i
=============================================================================
