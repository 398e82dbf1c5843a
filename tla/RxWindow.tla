------------------------------ MODULE RxWindow ------------------------------
(***************************************************************************)
(* The receive window of one subscription (struct encoding_rx, vmac.h) and *)
(* what the two functions that own it compute from it: vmac_rx, which      *)
(* advances, tests and marks it, and prepDACK, which reads the losses out  *)
(* of it.  Pure operators on a window w, no state of its own: Multicast    *)
(* uses them for its consumers, PrepDack checks the loop of prepDACK       *)
(* against DackHoles.                                                      *)
(***************************************************************************)
EXTENDS Integers, FiniteSets

CONSTANTS
    WINDOW,     \* length of window[], 700 in vmac.h
    BURST,      \* frames per DACK round, the literal 5 of vmac_rx and prepDACK
    HOLES_MAX   \* room for holes in one DACK, 40 in dack.h

ASSUME WindowAssumption ==
    /\ WINDOW \in Nat /\ WINDOW > 1
    /\ BURST \in Nat \ {0}
    /\ HOLES_MAX \in Nat \ {0}

(***************************************************************************)
(* Cell k of window[].  Cell -1 is the two bytes of struct encoding_rx     *)
(* just before the array (the padding of clean): prepDACK reads it.  0 is  *)
(* "lost", 1 "received", and 2 stands for every other value vmalloc may    *)
(* have left in a cell that was never written.                             *)
(***************************************************************************)
Cells == -1 .. WINDOW - 1
CellValues == {0, 1, 2}
Windows == [Cells -> CellValues]

\* The cell of sequence number s.
Slot(s) == s % WINDOW

\* Seeded fault: the cell is cleared before latest is incremented.
AdvanceLate(w, latest, s) ==
    [k \in Cells |-> IF \E q \in latest .. s - 1 : Slot(q) = k THEN 0 ELSE w[k]]

(***************************************************************************)
(* vmac_rx: a frame newer than latest moves latest up to it one by one and *)
(* declares every number it passes (itself included) lost.                 *)
(***************************************************************************)
Advance(w, latest, s) ==
    [k \in Cells |-> IF \E q \in latest + 1 .. s : Slot(q) = k THEN 0 ELSE w[k]]

\* Seeded faults: newer frames are looked up too; none is.
DuplicateAny(w, latest, s) == w[Slot(s)] = 1
DuplicateNone(w, latest, s) == FALSE

\* vmac_rx: only a frame that is not newer than latest is looked up.
Duplicate(w, latest, s) == latest >= s /\ w[Slot(s)] = 1

\* vmac_rx: the lower bound under which a frame is accepted but not marked.
MarkFloor(latest) == IF latest >= WINDOW THEN latest % WINDOW ELSE 0

\* vmac_rx: window and latest after frame s has been accepted.
NewLatest(latest, s) == IF latest < s THEN s ELSE latest

\* Seeded fault: the lower bound itself is not marked.
AcceptAbove(w, latest, s) ==
    LET moved == IF latest < s THEN Advance(w, latest, s) ELSE w
    IN  IF s > MarkFloor(NewLatest(latest, s))
        THEN [moved EXCEPT ![Slot(s)] = 1]
        ELSE moved

Accept(w, latest, s) ==
    LET moved == IF latest < s THEN Advance(w, latest, s) ELSE w
    IN  IF s >= MarkFloor(NewLatest(latest, s))
        THEN [moved EXCEPT ![Slot(s)] = 1]
        ELSE moved

-----------------------------------------------------------------------------
(***************************************************************************)
(* What prepDACK reports.  lat is round * 5 and the scan covers            *)
(* ScanBase(lat) .. lat - 1.                                               *)
(***************************************************************************)
ScanBase(lat) == IF lat < WINDOW THEN 0 ELSE lat - WINDOW

Lost(w, s) == w[Slot(s)] = 0

\* window[x % WINDOW - 1]: the left neighbour, cell -1 when x is on cell 0.
LostBefore(w, x) == w[Slot(x) - 1] = 0

(***************************************************************************)
(* The scan stops on s as the first number of a hole: s is lost and the    *)
(* scan did not pass over it inside the previous hole.  When the previous  *)
(* hole was cut at lat - 1 the scan is over.                               *)
(***************************************************************************)
HoleStarts(w, lat) ==
    {s \in ScanBase(lat) .. lat - 1 :
        Lost(w, s) /\ (s = ScanBase(lat) \/ ~Lost(w, s - 1))}

\* The first HOLES_MAX of them, in the order of the scan.
ReportedStarts(w, lat) ==
    {s \in HoleStarts(w, lat) :
        Cardinality({t \in HoleStarts(w, lat) : t < s}) < HOLES_MAX}

(***************************************************************************)
(* The left edge walks back from s over cells that read 0, and may not     *)
(* reach the base.  The right edge is the first number at or after s that  *)
(* was received, or lat - 1: the last number of the scan is never inside   *)
(* a hole, whose frames are le .. re - 1.                                  *)
(***************************************************************************)
IsLeftEdge(w, lat, s, le) ==
    /\ \A x \in le + 1 .. s : LostBefore(w, x) /\ ScanBase(lat) < x - 1
    /\ ~(le > 0 /\ LostBefore(w, le) /\ ScanBase(lat) < le - 1)

\* Seeded fault: the scan ends one number early.
IsRightEdgeShort(w, lat, s, re) ==
    /\ \A x \in s .. re - 1 : Lost(w, x)
    /\ re = lat - 2 \/ ~Lost(w, re)

IsRightEdge(w, lat, s, re) ==
    /\ \A x \in s .. re - 1 : Lost(w, x)
    /\ re = lat - 1 \/ ~Lost(w, re)

Holes(lat) == [le : 0 .. lat - 1, re : 0 .. lat - 1]

DackHoles(w, lat) ==
    {h \in Holes(lat) :
        \E s \in ReportedStarts(w, lat) :
            /\ h.le <= s /\ IsLeftEdge(w, lat, s, h.le)
            /\ h.re >= s /\ IsRightEdge(w, lat, s, h.re)}

\* The frames a set of holes asks for.
Requested(holes) == UNION {h.le .. h.re - 1 : h \in holes}
=============================================================================
