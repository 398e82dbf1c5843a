--------------------------- MODULE RxWindowProofs ---------------------------
(***************************************************************************)
(* What Accept and DackHoles of RxWindow do, for every size of the window: *)
(* the facts about vmac_rx and prepDACK that the proofs about Multicast    *)
(* rest on.                                                                *)
(***************************************************************************)
EXTENDS RxWindow, TLAPS, FiniteSetTheorems, WellFoundedInduction

\* Quotient and remainder.
LEMMA DivMod ==
    ASSUME NEW m \in Nat \ {0}, NEW a \in Nat
    PROVE  /\ a % m \in 0 .. m - 1
           /\ a = m * (a \div m) + (a % m)
           /\ a \div m \in Nat
  OBVIOUS

\* Two numbers less than m apart have different remainders.
LEMMA ModDistinct ==
    ASSUME NEW m \in Nat \ {0}, NEW a \in Nat, NEW b \in Nat, a < b, b - a < m
    PROVE  a % m # b % m
<1> SUFFICES ASSUME a % m = b % m PROVE FALSE
  OBVIOUS
<1> DEFINE qa == a \div m
<1> DEFINE qb == b \div m
<1>1. a = m * qa + (a % m) /\ b = m * qb + (b % m) /\ qa \in Nat /\ qb \in Nat
  BY DivMod
<1> HIDE DEF qa, qb
<1>2. b - a = m * qb - m * qa
  BY <1>1, DivMod
<1>3. m * qb - m * qa = m * (qb - qa)
  BY <1>1
<1>4. qb - qa \in Int
  BY <1>1
<1>5. CASE qb - qa <= 0
  <2>1. m * (qb - qa) <= 0
    BY <1>4, <1>5
  <2> QED
    BY <2>1, <1>2, <1>3
<1>6. CASE qb - qa >= 1
  <2>1. m * (qb - qa) >= m
    BY <1>4, <1>6
  <2> QED
    BY <2>1, <1>2, <1>3
<1> QED
  BY <1>4, <1>5, <1>6

\* One turn later, the same remainder.
LEMMA ModTurn ==
    ASSUME NEW m \in Nat \ {0}, NEW a \in Nat PROVE (a + m) % m = a % m
<1> DEFINE q == a \div m
           r == a % m
           p == (a + m) \div m
           t == (a + m) % m
<1>1. a = m * q + r /\ q \in Nat /\ r \in 0 .. m - 1
  BY DivMod
<1>2. a + m = m * p + t /\ p \in Nat /\ t \in 0 .. m - 1
  <2> DEFINE b == a + m
  <2>1. b \in Nat
    OBVIOUS
  <2> HIDE DEF b
  <2>2. b = m * (b \div m) + (b % m) /\ b \div m \in Nat /\ b % m \in 0 .. m - 1
    BY <2>1, DivMod
  <2> QED
    BY <2>2 DEF b
<1> HIDE DEF q, r, p, t
<1>3. t - r = m * (q + 1 - p) /\ q + 1 - p \in Int
  <2>1. m * (q + 1 - p) = m * q + m - m * p /\ q + 1 - p \in Int
    BY <1>1, <1>2
  <2>2. m * q \in Int /\ m * p \in Int
    BY <1>1, <1>2
  <2> QED
    BY <1>1, <1>2, <2>1, <2>2
<1>4. CASE q + 1 - p >= 1
  <2>1. m * (q + 1 - p) >= m
    BY <1>3, <1>4
  <2> QED
    BY <1>1, <1>2, <1>3, <2>1
<1>5. CASE q + 1 - p <= -1
  <2>1. m * (q + 1 - p) <= -m
    BY <1>3, <1>5
  <2> QED
    BY <1>1, <1>2, <1>3, <2>1
<1>6. CASE q + 1 - p = 0
  BY <1>1, <1>2, <1>3, <1>6 DEF r, t
<1> QED
  BY <1>3, <1>4, <1>5, <1>6

\* From one turn on, the remainder is at least one turn below.
LEMMA ModFloor ==
    ASSUME NEW m \in Nat \ {0}, NEW a \in Nat, a >= m PROVE a % m <= a - m
  OBVIOUS

\* A sequence number has a cell.
LEMMA SlotCell ==
    ASSUME NEW s \in Nat PROVE Slot(s) \in 0 .. WINDOW - 1 /\ Slot(s) \in Cells
<1>1. Slot(s) \in 0 .. WINDOW - 1
  BY DivMod, WindowAssumption DEF Slot
<1> QED
  BY <1>1, WindowAssumption DEF Cells

\* Two numbers within one window have different cells.
LEMMA SlotDistinct ==
    ASSUME NEW a \in Nat, NEW b \in Nat, a < b, b < a + WINDOW
    PROVE  Slot(a) # Slot(b)
<1>1. WINDOW \in Nat \ {0} /\ b - a < WINDOW
  BY WindowAssumption
<1> QED
  BY <1>1, ModDistinct DEF Slot

(***************************************************************************)
(* A frame that is newer than latest, or at most WINDOW - 1 behind it, is  *)
(* marked; the numbers it passed are lost, and every other number of the   *)
(* moved window keeps its cell.                                            *)
(***************************************************************************)
THEOREM AcceptWindow ==
    ASSUME NEW w \in Windows, NEW latest \in Nat, NEW s \in Nat,
           latest < s + WINDOW
    PROVE  LET moved == Accept(w, latest, s)
               top   == NewLatest(latest, s)
           IN  /\ moved \in Windows
               /\ moved[Slot(s)] = 1
               /\ top \in Nat /\ s <= top /\ latest <= top
               /\ \A n \in Nat : (n # s /\ n <= top /\ top < n + WINDOW) =>
                     moved[Slot(n)] = IF n > latest THEN 0 ELSE w[Slot(n)]
<1> DEFINE adv == IF latest < s THEN Advance(w, latest, s) ELSE w
           top == NewLatest(latest, s)
<1>1. top \in Nat /\ s <= top /\ latest <= top /\ top < s + WINDOW
  BY WindowAssumption DEF NewLatest
<1>2. s >= MarkFloor(top)
  <2>1. CASE top >= WINDOW
    <3>1. top % WINDOW <= top - WINDOW
      BY <1>1, <2>1, ModFloor, WindowAssumption
    <3>2. MarkFloor(top) = top % WINDOW /\ top % WINDOW \in Int
      BY <1>1, <2>1, WindowAssumption DEF MarkFloor
    <3> HIDE DEF top
    <3> QED
      BY <3>1, <3>2, <1>1, WindowAssumption
  <2>2. CASE ~(top >= WINDOW)
    BY <2>2 DEF MarkFloor
  <2> QED
    BY <2>1, <2>2
<1>3. adv \in Windows
  BY DEF Advance, Windows, CellValues
<1>4. Accept(w, latest, s) = [adv EXCEPT ![Slot(s)] = 1]
  BY <1>2 DEF Accept
<1>5. Slot(s) \in Cells
  BY SlotCell
<1>6. Accept(w, latest, s) \in Windows /\ Accept(w, latest, s)[Slot(s)] = 1
  <2> HIDE DEF adv
  <2> QED
    BY <1>3, <1>4, <1>5 DEF Windows, CellValues
<1>7. ASSUME NEW n \in Nat, n # s, n <= top, top < n + WINDOW
      PROVE  Accept(w, latest, s)[Slot(n)] = IF n > latest THEN 0 ELSE w[Slot(n)]
  <2>1. Slot(n) # Slot(s)
    <3>1. CASE n < s
      BY <3>1, <1>1, <1>7, SlotDistinct, WindowAssumption
    <3>2. CASE s < n
      BY <3>2, <1>1, <1>7, SlotDistinct, WindowAssumption
    <3> QED
      BY <3>1, <3>2, <1>7
  <2>2. Slot(n) \in Cells
    BY SlotCell
  <2>3. Accept(w, latest, s)[Slot(n)] = adv[Slot(n)]
    <3> HIDE DEF adv
    <3> QED
      BY <1>3, <1>4, <1>5, <2>1, <2>2 DEF Windows
  <2>4. CASE n > latest
    <3>1. latest < s /\ n \in latest + 1 .. s
      BY <1>7, <2>4 DEF NewLatest
    <3> QED
      BY <2>2, <2>3, <2>4, <3>1 DEF Advance
  <2>5. CASE ~(n > latest)
    <3>1. CASE latest < s
      <4>1. \A q \in latest + 1 .. s : Slot(q) # Slot(n)
        <5> SUFFICES ASSUME NEW q \in latest + 1 .. s PROVE Slot(q) # Slot(n)
          OBVIOUS
        <5>1. q \in Nat /\ n < q /\ q < n + WINDOW
          BY <1>7, <2>5, <3>1, WindowAssumption DEF NewLatest
        <5> QED
          BY <5>1, SlotDistinct
      <4> QED
        BY <2>2, <2>3, <2>5, <3>1, <4>1 DEF Advance
    <3>2. CASE ~(latest < s)
      BY <2>3, <2>5, <3>2
    <3> QED
      BY <3>1, <3>2
  <2> QED
    BY <2>4, <2>5
<1> QED
  BY <1>1, <1>6, <1>7

\* The same, without the names it abbreviates.
LEMMA AcceptCells ==
    ASSUME NEW w \in Windows, NEW latest \in Nat, NEW s \in Nat,
           latest < s + WINDOW
    PROVE  /\ Accept(w, latest, s)[Slot(s)] = 1
           /\ \A n \in Nat :
                 (n # s /\ n <= NewLatest(latest, s) /\ NewLatest(latest, s) < n + WINDOW) =>
                     Accept(w, latest, s)[Slot(n)] = IF n > latest THEN 0 ELSE w[Slot(n)]
  BY AcceptWindow

\* The round of frame s ends at or before s.
LEMMA BurstFloor ==
    ASSUME NEW s \in Nat
    PROVE  s \div BURST \in Nat /\ (s \div BURST) * BURST \in Nat
           /\ (s \div BURST) * BURST <= s
<1>1. s = BURST * (s \div BURST) + (s % BURST) /\ s \div BURST \in Nat /\ s % BURST \in Nat
  BY DivMod, WindowAssumption
<1> QED
  BY <1>1, WindowAssumption

(***************************************************************************)
(* A DACK only names numbers below lat: the right edge of a hole is at     *)
(* most lat - 1, so every frame it asks for is older than that.            *)
(***************************************************************************)
THEOREM HolesBelow ==
    ASSUME NEW w, NEW lat \in Nat, NEW h \in DackHoles(w, lat)
    PROVE  h \in [le : Nat, re : Nat] /\ h.re < lat
  BY DEF DackHoles, Holes

-----------------------------------------------------------------------------
(* The definition of the holes *)

USE WindowAssumption

\* The starts of holes that the scan meets below n.
StartsBelow(w, lat, n) == {s \in HoleStarts(w, lat) : s < n}

\* h is the hole that starts at s.
HoleAt(w, lat, s, h) ==
    /\ h.le <= s /\ IsLeftEdge(w, lat, s, h.le)
    /\ h.re >= s /\ IsRightEdge(w, lat, s, h.re)

\* The holes of a set of starts.
HolesOf(w, lat, S) == {h \in Holes(lat) : \E s \in S : HoleAt(w, lat, s, h)}

\* The scan has frames before it.
LEMMA BaseFacts ==
    ASSUME NEW lat \in Nat
    PROVE  ScanBase(lat) \in Nat /\ ScanBase(lat) <= lat /\ (lat > 0 => ScanBase(lat) < lat)
  BY DEF ScanBase

\* Starts are numbers of the scan, finitely many.
LEMMA StartFacts ==
    ASSUME NEW w, NEW lat \in Nat, NEW n \in Nat
    PROVE  /\ HoleStarts(w, lat) \subseteq ScanBase(lat) .. lat - 1
           /\ HoleStarts(w, lat) \subseteq Nat
           /\ IsFiniteSet(HoleStarts(w, lat))
           /\ IsFiniteSet(StartsBelow(w, lat, n))
           /\ Cardinality(StartsBelow(w, lat, n)) \in Nat
<1>1. HoleStarts(w, lat) \subseteq ScanBase(lat) .. lat - 1
  BY DEF HoleStarts
<1>2. ScanBase(lat) \in Int /\ lat - 1 \in Int /\ ScanBase(lat) >= 0
  BY BaseFacts
<1>3. IsFiniteSet(ScanBase(lat) .. lat - 1)
  BY <1>2, FS_Interval
<1>4. IsFiniteSet(HoleStarts(w, lat))
  BY <1>1, <1>3, FS_Subset
<1>5. IsFiniteSet(StartsBelow(w, lat, n))
  BY <1>4, FS_Subset DEF StartsBelow
<1>6. Cardinality(StartsBelow(w, lat, n)) \in Nat
  BY <1>5, FS_CardinalityType
<1>7. HoleStarts(w, lat) \subseteq Nat
  BY <1>1, <1>2
<1> QED
  BY <1>1, <1>4, <1>5, <1>6, <1>7

\* A received frame starts no hole.
LEMMA StartsSkip ==
    ASSUME NEW w, NEW lat \in Nat, NEW n \in Nat, ~Lost(w, n)
    PROVE  StartsBelow(w, lat, n + 1) = StartsBelow(w, lat, n)
<1>1. n \notin HoleStarts(w, lat)
  BY DEF HoleStarts
<1>2. HoleStarts(w, lat) \subseteq Nat
  BY StartFacts
<1> QED
  BY <1>1, <1>2 DEF StartsBelow

\* No hole starts inside another: after the hole at s there is one start more.
LEMMA StartsAdd ==
    ASSUME NEW w, NEW lat \in Nat, NEW s \in HoleStarts(w, lat), NEW n \in Nat, s <= n,
           \A x \in s .. n - 1 : Lost(w, x)
    PROVE  /\ StartsBelow(w, lat, n + 1) = StartsBelow(w, lat, s) \cup {s}
           /\ Cardinality(StartsBelow(w, lat, n + 1)) = Cardinality(StartsBelow(w, lat, s)) + 1
<1>1. HoleStarts(w, lat) \subseteq Nat /\ s \in Nat /\ s >= ScanBase(lat)
  BY StartFacts, BaseFacts
<1>2. ASSUME NEW t \in HoleStarts(w, lat), t < n + 1, ~(t < s) PROVE t = s
  <2>1. t \in Nat /\ t <= n /\ s <= t
    BY <1>1, <1>2
  <2>2. CASE t > s
    <3>1. t - 1 \in s .. n - 1 /\ t # ScanBase(lat)
      BY <1>1, <2>1, <2>2, BaseFacts
    <3>2. Lost(w, t - 1)
      BY <3>1
    <3> QED
      BY <1>2, <3>1, <3>2 DEF HoleStarts
  <2> QED
    BY <1>1, <2>1, <2>2
<1>3. StartsBelow(w, lat, n + 1) = StartsBelow(w, lat, s) \cup {s}
  <2>1. \A t \in HoleStarts(w, lat) : t < n + 1 <=> (t < s \/ t = s)
    BY <1>1, <1>2
  <2> QED
    BY <2>1 DEF StartsBelow
<1>4. IsFiniteSet(StartsBelow(w, lat, s)) /\ s \notin StartsBelow(w, lat, s)
  BY <1>1, StartFacts DEF StartsBelow
<1> QED
  BY <1>3, <1>4, FS_AddElement

(***************************************************************************)
(* The scan ends when it has seen every frame or the DACK is full: then    *)
(* the starts it met are the ones whose holes are reported.                *)
(***************************************************************************)
LEMMA StartsAll ==
    ASSUME NEW w, NEW lat \in Nat, NEW n \in Nat,
           Cardinality(StartsBelow(w, lat, n)) <= HOLES_MAX,
           n >= lat \/ Cardinality(StartsBelow(w, lat, n)) >= HOLES_MAX
    PROVE  ReportedStarts(w, lat) = StartsBelow(w, lat, n)
<1> DEFINE B == StartsBelow(w, lat, n)
           Before(s) == StartsBelow(w, lat, s)
<1>1. HoleStarts(w, lat) \subseteq Nat /\ IsFiniteSet(B) /\ Cardinality(B) \in Nat
  BY StartFacts
<1>2. ReportedStarts(w, lat) = {s \in HoleStarts(w, lat) : Cardinality(Before(s)) < HOLES_MAX}
  BY DEF ReportedStarts, StartsBelow
<1>3. ASSUME NEW s \in HoleStarts(w, lat), s < n PROVE Cardinality(Before(s)) < HOLES_MAX
  <2>1. Before(s) \subseteq B /\ s \in B /\ s \notin Before(s)
    BY <1>1, <1>3 DEF StartsBelow
  <2>2. Before(s) # B
    BY <2>1
  <2> HIDE DEF B, Before
  <2>3. Cardinality(Before(s)) < Cardinality(B) /\ Cardinality(Before(s)) \in Nat
    BY <1>1, <2>1, <2>2, FS_Subset, FS_CardinalityType
  <2> QED
    BY <1>1, <2>3 DEF B
<1>4. ASSUME NEW s \in HoleStarts(w, lat), ~(s < n) PROVE ~(Cardinality(Before(s)) < HOLES_MAX)
  <2>1. s \in Nat /\ s < lat
    BY <1>1, StartFacts, BaseFacts
  <2>2. Cardinality(B) >= HOLES_MAX
    BY <1>4, <2>1
  <2>3. B \subseteq Before(s)
    BY <1>1, <1>4, <2>1 DEF StartsBelow
  <2>4. IsFiniteSet(Before(s)) /\ Cardinality(Before(s)) \in Nat
    BY <2>1, StartFacts
  <2> HIDE DEF B, Before
  <2>5. Cardinality(B) <= Cardinality(Before(s))
    BY <2>3, <2>4, FS_Subset
  <2> QED
    BY <1>1, <2>2, <2>4, <2>5
<1> QED
  BY <1>2, <1>3, <1>4 DEF StartsBelow

\* The holes of the definition are those of the reported starts.
LEMMA HolesAll ==
    ASSUME NEW w, NEW lat PROVE DackHoles(w, lat) = HolesOf(w, lat, ReportedStarts(w, lat))
  BY DEF DackHoles, HolesOf, HoleAt

\* A start has one left edge and one right edge.
LEMMA HoleUnique ==
    ASSUME NEW w, NEW lat \in Nat, NEW s \in Nat, NEW g \in Holes(lat), NEW h \in Holes(lat),
           HoleAt(w, lat, s, g), HoleAt(w, lat, s, h)
    PROVE  g = h
<1>1. /\ g.le \in Nat /\ h.le \in Nat /\ g.re \in Nat /\ h.re \in Nat
      /\ g.re <= lat - 1 /\ h.re <= lat - 1 /\ g = [le |-> g.le, re |-> g.re]
      /\ h = [le |-> h.le, re |-> h.re]
  BY DEF Holes
<1>2. ASSUME NEW a \in Nat, NEW b \in Nat, a < b, b <= s,
             IsLeftEdge(w, lat, s, a), IsLeftEdge(w, lat, s, b)
      PROVE  FALSE
  <2>1. b \in a + 1 .. s /\ b > 0
    BY <1>2
  <2> QED
    BY <1>2, <2>1 DEF IsLeftEdge
<1>3. ASSUME NEW a \in Nat, NEW b \in Nat, a < b, s <= a, b <= lat - 1,
             IsRightEdge(w, lat, s, a), IsRightEdge(w, lat, s, b)
      PROVE  FALSE
  <2>1. a \in s .. b - 1 /\ a # lat - 1
    BY <1>3
  <2> QED
    BY <1>3, <2>1 DEF IsRightEdge
<1>4. g.le = h.le
  BY <1>1, <1>2 DEF HoleAt
<1>5. g.re = h.re
  BY <1>1, <1>3 DEF HoleAt
<1> QED
  BY <1>1, <1>4, <1>5

\* One start more is one hole more.
LEMMA HolesAdd ==
    ASSUME NEW w, NEW lat \in Nat, NEW S, NEW s \in Nat, NEW h \in Holes(lat),
           HoleAt(w, lat, s, h)
    PROVE  HolesOf(w, lat, S \cup {s}) = HolesOf(w, lat, S) \cup {h}
  BY HoleUnique DEF HolesOf

\* With the bytes before window[] not zero, the left neighbour is the frame before.
LEMMA BeforeFacts ==
    ASSUME NEW w, NEW x \in Nat \ {0}, w[-1] # 0, LostBefore(w, x)
    PROVE  Lost(w, x - 1)
<1> DEFINE q == x \div WINDOW
           r == x % WINDOW
           y == x - 1
<1>0. WINDOW \in Nat \ {0} /\ x \in Nat /\ y \in Nat
  OBVIOUS
<1>1. x = WINDOW * q + r /\ q \in Nat /\ r \in 0 .. WINDOW - 1
  BY ONLY <1>0, DivMod, Zenon
<1>2. r # 0
  BY DEF LostBefore, Slot
<1>3. y \in Nat /\ y = WINDOW * (y \div WINDOW) + (y % WINDOW) /\ y \div WINDOW \in Nat
      /\ y % WINDOW \in 0 .. WINDOW - 1
  BY ONLY <1>0, DivMod, Zenon
<1>4. y % WINDOW = r - 1
  <2> DEFINE p == y \div WINDOW
             t == y % WINDOW
  <2>1. y = x - 1
    OBVIOUS
  <2> HIDE DEF p, t, q, r, y
  <2>2. WINDOW * q - WINDOW * p = t - (r - 1) /\ p \in Nat /\ t \in 0 .. WINDOW - 1
    BY <1>1, <1>3, <2>1 DEF p, t
  <2>3. WINDOW * q - WINDOW * p = WINDOW * (q - p) /\ q - p \in Int
    BY <1>1, <2>2
  <2>4. r - 1 \in 0 .. WINDOW - 1 /\ r - 1 \in Int
    BY <1>1, <1>2
  <2>5. CASE q - p >= 1
    <3>1. WINDOW * (q - p) >= WINDOW
      BY <2>3, <2>5
    <3> QED
      BY <2>2, <2>3, <2>4, <3>1
  <2>6. CASE q - p <= -1
    <3>1. WINDOW * (q - p) <= -WINDOW
      BY <2>3, <2>6
    <3> QED
      BY <2>2, <2>3, <2>4, <3>1
  <2>7. CASE q - p = 0
    <3>1. WINDOW * (q - p) = 0
      BY <2>7
    <3> QED
      BY <2>2, <2>3, <2>4, <3>1 DEF t
  <2> QED
    BY <2>3, <2>5, <2>6, <2>7
<1> QED
  BY <1>4 DEF LostBefore, Lost, Slot

-----------------------------------------------------------------------------
(* Every loss has a hole *)

\* A set of numbers has a smallest one.
LEMMA Smallest ==
    ASSUME NEW T \in SUBSET Nat, T # {} PROVE \E x \in T : \A y \in T : x <= y
<1> DEFINE R == {p \in Nat \X Nat : p[1] < p[2]}
<1>1. IsWellFoundedOn(R, Nat)
  BY NatLessThanWellFounded DEF OpToRel
<1>2. ASSUME NEW x \in Nat, NEW y \in Nat, <<y, x>> \notin R PROVE x <= y
  <2>1. ~(y < x)
    BY <1>2
  <2> QED
    BY ONLY <2>1, x \in Nat, y \in Nat
<1> HIDE DEF R
<1>3. \E x \in T : \A y \in T : <<y, x>> \notin R
  BY <1>1, WFMin
<1> QED
  BY <1>2, <1>3

\* A lost frame is in a run of lost frames that begins with a start.
LEMMA StartExists ==
    ASSUME NEW w, NEW lat \in Nat, NEW n \in ScanBase(lat) .. lat - 1, Lost(w, n)
    PROVE  \E s \in HoleStarts(w, lat) : s <= n /\ \A x \in s .. n : Lost(w, x)
<1> DEFINE T == {s \in ScanBase(lat) .. n : \A x \in s .. n : Lost(w, x)}
<1>1. ScanBase(lat) \in Nat /\ n \in Nat /\ ScanBase(lat) <= n /\ n <= lat - 1
  BY BaseFacts
<1>2. n \in T /\ T \in SUBSET Nat
  BY <1>1
<1>3. PICK s \in T : \A y \in T : s <= y
  BY <1>2, Smallest
<1>4. s \in Nat /\ ScanBase(lat) <= s /\ s <= n /\ \A x \in s .. n : Lost(w, x)
  BY <1>1, <1>3
<1>5. s = ScanBase(lat) \/ ~Lost(w, s - 1)
  <2> SUFFICES ASSUME s # ScanBase(lat), Lost(w, s - 1) PROVE FALSE
    OBVIOUS
  <2>1. s - 1 \in ScanBase(lat) .. n /\ ~(s <= s - 1)
    BY <1>1, <1>4
  <2>2. \A x \in s - 1 .. n : x = s - 1 \/ x \in s .. n
    BY <1>4
  <2>3. s - 1 \in T
    BY <1>4, <2>1, <2>2
  <2> QED
    BY <1>3, <2>1, <2>3
<1>6. Lost(w, s) /\ s \in ScanBase(lat) .. lat - 1
  BY <1>1, <1>4
<1>7. s \in HoleStarts(w, lat)
  BY <1>5, <1>6 DEF HoleStarts
<1> QED
  BY <1>4, <1>7

\* A start has a left edge: the first while of prepDACK stops.
LEMMA LeftExists ==
    ASSUME NEW w, NEW lat \in Nat, NEW s \in Nat
    PROVE  \E le \in 0 .. s : IsLeftEdge(w, lat, s, le)
<1> DEFINE Walked(le) == \A x \in le + 1 .. s : LostBefore(w, x) /\ ScanBase(lat) < x - 1
           T == {le \in 0 .. s : Walked(le)}
<1>1. s \in T /\ T \in SUBSET Nat
  OBVIOUS
<1>2. PICK le \in T : \A y \in T : le <= y
  BY <1>1, Smallest
<1>3. le \in Nat /\ le <= s /\ le \in 0 .. s /\ Walked(le)
  BY <1>2
<1>4. ~(le > 0 /\ LostBefore(w, le) /\ ScanBase(lat) < le - 1)
  <2> SUFFICES ASSUME le > 0, LostBefore(w, le), ScanBase(lat) < le - 1 PROVE FALSE
    OBVIOUS
  <2>1. le - 1 \in 0 .. s /\ ~(le <= le - 1)
    BY <1>3
  <2>2. \A x \in (le - 1) + 1 .. s : x = le \/ x \in le + 1 .. s
    BY <1>3
  <2>3. Walked(le - 1)
    BY <1>3, <2>2
  <2> QED
    BY <1>2, <2>1, <2>3
<1> QED
  BY <1>3, <1>4 DEF IsLeftEdge

\* A start has a right edge, behind the lost frames that follow it.
LEMMA RightExists ==
    ASSUME NEW w, NEW lat \in Nat, NEW s \in Nat, s <= lat - 1
    PROVE  \E re \in s .. lat - 1 : IsRightEdge(w, lat, s, re)
<1> DEFINE T == {re \in s .. lat - 1 : re = lat - 1 \/ ~Lost(w, re)}
<1>1. lat - 1 \in T /\ T \in SUBSET Nat
  OBVIOUS
<1>2. PICK re \in T : \A y \in T : re <= y
  BY <1>1, Smallest
<1>3. re \in Nat /\ re \in s .. lat - 1 /\ (re = lat - 1 \/ ~Lost(w, re))
  BY <1>2
<1>4. ASSUME NEW x \in s .. re - 1 PROVE Lost(w, x)
  <2>1. x \in s .. lat - 1 /\ ~(re <= x)
    BY <1>3
  <2> QED
    BY <1>2, <2>1
<1> QED
  BY <1>3, <1>4 DEF IsRightEdge

\* Hence a hole, ...
LEMMA HoleExists ==
    ASSUME NEW w, NEW lat \in Nat, NEW s \in HoleStarts(w, lat)
    PROVE  \E h \in Holes(lat) : HoleAt(w, lat, s, h)
<1>1. s \in Nat /\ s <= lat - 1
  BY StartFacts, BaseFacts
<1>2. PICK le \in 0 .. s : IsLeftEdge(w, lat, s, le)
  BY <1>1, LeftExists
<1>3. PICK re \in s .. lat - 1 : IsRightEdge(w, lat, s, re)
  BY <1>1, RightExists
<1>4. [le |-> le, re |-> re] \in Holes(lat)
  BY <1>1 DEF Holes
<1>5. HoleAt(w, lat, s, [le |-> le, re |-> re])
  BY <1>1, <1>2, <1>3 DEF HoleAt
<1> QED
  BY <1>4, <1>5

\* ... and the holes of two starts end at different frames.
LEMMA HoleOrder ==
    ASSUME NEW w, NEW lat \in Nat, NEW s \in HoleStarts(w, lat), NEW t \in HoleStarts(w, lat),
           s < t, NEW g \in Holes(lat), NEW h \in Holes(lat),
           HoleAt(w, lat, s, g), HoleAt(w, lat, t, h)
    PROVE  g.re < h.re
<1>1. s \in Nat /\ t \in Nat /\ s >= ScanBase(lat) /\ ScanBase(lat) \in Nat
  BY StartFacts, BaseFacts
<1>2. g.re \in Nat /\ h.re \in Nat /\ h.re >= t
  BY DEF Holes, HoleAt
<1>3. ~Lost(w, t - 1)
  BY <1>1 DEF HoleStarts
<1>4. ~(g.re >= t)
  <2> SUFFICES ASSUME g.re >= t PROVE FALSE
    OBVIOUS
  <2>1. t - 1 \in s .. g.re - 1
    BY <1>1, <1>2
  <2> QED
    BY <1>3, <2>1 DEF HoleAt, IsRightEdge
<1> QED
  BY <1>1, <1>2, <1>4

\* There are as many holes as starts that are reported.
LEMMA HolesCount ==
    ASSUME NEW w, NEW lat \in Nat
    PROVE  /\ IsFiniteSet(DackHoles(w, lat)) /\ IsFiniteSet(ReportedStarts(w, lat))
           /\ Cardinality(DackHoles(w, lat)) = Cardinality(ReportedStarts(w, lat))
<1> DEFINE S == ReportedStarts(w, lat)
           T == DackHoles(w, lat)
           f == [s \in S |-> CHOOSE h \in Holes(lat) : HoleAt(w, lat, s, h)]
<1>1. S \subseteq HoleStarts(w, lat) /\ HoleStarts(w, lat) \subseteq Nat /\ IsFiniteSet(S)
  <2>1. S \subseteq HoleStarts(w, lat)
    BY DEF ReportedStarts
  <2>2. HoleStarts(w, lat) \subseteq Nat /\ IsFiniteSet(HoleStarts(w, lat))
    BY StartFacts
  <2> QED
    BY <2>1, <2>2, FS_Subset
<1>2. T = {h \in Holes(lat) : \E s \in S : HoleAt(w, lat, s, h)}
  BY HolesAll DEF HolesOf
<1>3. ASSUME NEW s \in S PROVE f[s] \in Holes(lat) /\ HoleAt(w, lat, s, f[s])
  BY <1>1, HoleExists
<1> HIDE DEF S, T
<1>4. f \in [S -> T]
  <2>1. \A s \in S : f[s] \in T
    BY <1>2, <1>3
  <2> QED
    BY <2>1
<1> HIDE DEF f
<1>5. \A s, t \in S : f[s] = f[t] => s = t
  <2> SUFFICES ASSUME NEW s \in S, NEW t \in S, s < t PROVE f[s] # f[t]
    BY <1>1
  <2>1. f[s].re < f[t].re /\ f[s].re \in Nat
    <3>1. f[s].re < f[t].re
      BY <1>1, <1>3, HoleOrder
    <3>2. \A h \in Holes(lat) : h.re \in Nat
      BY DEF Holes
    <3> QED
      BY <1>3, <3>1, <3>2
  <2> QED
    BY <2>1
<1>6. \A h \in T : \E s \in S : f[s] = h
  BY <1>1, <1>2, <1>3, HoleUnique
<1>7. f \in Bijection(S, T)
  BY <1>4, <1>5, <1>6 DEF Bijection, Injection, Surjection, IsInjective
<1> QED
  BY <1>1, <1>7, FS_Bijection DEF ExistsBijection, S, T

\* A DACK that is not full reports every start.
LEMMA AllReported ==
    ASSUME NEW w, NEW lat \in Nat, Cardinality(ReportedStarts(w, lat)) < HOLES_MAX
    PROVE  ReportedStarts(w, lat) = HoleStarts(w, lat)
<1> DEFINE T == HoleStarts(w, lat) \ ReportedStarts(w, lat)
<1>1. /\ ReportedStarts(w, lat) \subseteq HoleStarts(w, lat) /\ HoleStarts(w, lat) \subseteq Nat
      /\ IsFiniteSet(ReportedStarts(w, lat))
  BY StartFacts, HolesCount DEF ReportedStarts
<1>2. ASSUME T # {} PROVE FALSE
  <2>1. T \in SUBSET Nat
    BY <1>1
  <2>2. PICK s \in T : \A y \in T : s <= y
    BY <1>2, <2>1, Smallest
  <2>3. s \in Nat /\ s \in HoleStarts(w, lat)
    BY <1>1
  <2>4. StartsBelow(w, lat, s) \subseteq ReportedStarts(w, lat)
    <3>1. \A t \in HoleStarts(w, lat) : t < s => ~(s <= t)
      BY <1>1, <2>3
    <3> QED
      BY <2>2, <3>1 DEF StartsBelow
  <2>5. Cardinality(StartsBelow(w, lat, s)) <= Cardinality(ReportedStarts(w, lat))
    BY <1>1, <2>4, FS_Subset
  <2>6. /\ Cardinality(StartsBelow(w, lat, s)) \in Nat
        /\ Cardinality(ReportedStarts(w, lat)) \in Nat
    BY <1>1, <2>3, StartFacts, FS_CardinalityType
  <2>7. Cardinality(StartsBelow(w, lat, s)) < HOLES_MAX
    BY <2>5, <2>6
  <2> QED
    BY <2>2, <2>3, <2>7 DEF ReportedStarts, StartsBelow
<1> QED
  BY <1>1, <1>2

(***************************************************************************)
(* A DACK that is not full asks for every lost frame of the scan but the   *)
(* last, whatever the losses: the runs of lost frames, the two edges of    *)
(* each and the limit on holes leave none out.                             *)
(***************************************************************************)
THEOREM LossHasHole ==
    ASSUME NEW w, NEW lat \in Nat, NEW n \in ScanBase(lat) .. lat - 2, Lost(w, n),
           Cardinality(DackHoles(w, lat)) < HOLES_MAX
    PROVE  n \in Requested(DackHoles(w, lat))
<1>1. n \in Nat /\ n \in ScanBase(lat) .. lat - 1 /\ n <= lat - 2
  BY BaseFacts
<1>2. PICK s \in HoleStarts(w, lat) : s <= n /\ \A x \in s .. n : Lost(w, x)
  BY <1>1, StartExists
<1>3. s \in Nat
  BY StartFacts
<1>4. PICK h \in Holes(lat) : HoleAt(w, lat, s, h)
  BY HoleExists
<1>5. h \in DackHoles(w, lat)
  <2>1. ReportedStarts(w, lat) = HoleStarts(w, lat)
    BY HolesCount, AllReported
  <2> QED
    BY <1>4, <2>1, HolesAll DEF HolesOf
<1>6. n \in h.le .. h.re - 1
  <2>1. h.le \in Nat /\ h.re \in Nat /\ h.le <= s /\ h.re >= s
    BY <1>4 DEF Holes, HoleAt
  <2>2. ~(h.re <= n)
    <3> SUFFICES ASSUME h.re <= n PROVE FALSE
      OBVIOUS
    <3>1. h.re \in s .. n /\ h.re # lat - 1
      BY <1>1, <1>3, <2>1
    <3> QED
      BY <1>2, <1>4, <3>1 DEF HoleAt, IsRightEdge
  <2> QED
    BY <1>1, <1>2, <1>3, <2>1, <2>2
<1> QED
  BY <1>5, <1>6 DEF Requested
=============================================================================
