--------------------------- MODULE PrepDackProofs ---------------------------
(***************************************************************************)
(* Proofs about the three loops of prepDACK, for every window size, burst, *)
(* room for holes, round and content of the window: what they compute is   *)
(* DackHoles, and what the DACK asks for is what was lost.                 *)
(***************************************************************************)
EXTENDS PrepDack, RxWindowProofs

USE WindowAssumption, PrepDackAssumption

Base == ScanBase(lattmp)

\* The holes reported are those of the starts below n, one for each.
Done(n) ==
    /\ Reported = HolesOf(window, lattmp, StartsBelow(window, lattmp, n))
    /\ Len(holesy) = Cardinality(StartsBelow(window, lattmp, n))

(***************************************************************************)
(* Where the loops are: the scan stands behind a received frame or at one  *)
(* of its ends, and a hole that is being measured has room in the DACK.    *)
(***************************************************************************)
PosInv ==
    /\ holesy \in Seq(Holes(lattmp))
    /\ i \in Base .. lattmp
    /\ pc = "scan" => i = Base \/ i = lattmp \/ ~Lost(window, i - 1)
    /\ pc \in {"left", "right"} => i < lattmp /\ Len(holesy) < HOLES_MAX /\ tmp <= i

\* The first while starts on the start of a hole and has moved over cells that read 0.
LeftInv ==
    pc = "left" =>
        /\ i \in HoleStarts(window, lattmp)
        /\ \A x \in tmp + 1 .. i : LostBefore(window, x) /\ Base < x - 1

\* The second while has left that start over lost frames, the left edge being settled.
RightInv ==
    pc = "right" => \E s \in HoleStarts(window, lattmp) :
        /\ s <= i /\ tmp <= s /\ IsLeftEdge(window, lattmp, s, tmp)
        /\ \A x \in s .. i - 1 : Lost(window, x)
        /\ Done(s)

\* What has been reported.
DoneInv ==
    /\ pc \in {"scan", "left"} => Done(i)
    /\ Scanned => Reported = DackHoles(window, lattmp)

\* Right edges ascend and are behind the scan.
OrderInv ==
    /\ \A n \in DOMAIN holesy : holesy[n].re < i
    /\ \A m, n \in DOMAIN holesy : m < n => holesy[m].re < holesy[n].re

\* A lost frame behind the scan is asked for, or will be by the hole being measured.
CoverInv ==
    /\ ~Scanned => \A s \in Base .. lattmp - 2 :
          (s < i /\ Lost(window, s)) =>
              \/ s \in Requested(Reported)
              \/ pc = "right" /\ tmp <= s
    /\ LossesRequested

\* With the bytes before window[] not zero the left edge stays, and the holes are disjoint.
OnlyInv ==
    window[-1] # 0 =>
        /\ pc = "left" => tmp = i
        /\ pc = "right" => \A s \in tmp .. i - 1 : Lost(window, s)
        /\ pc \in {"left", "right"} => \A n \in DOMAIN holesy : holesy[n].re <= tmp
        /\ \A s \in Requested(Reported) : Lost(window, s)
        /\ \A m, n \in DOMAIN holesy : m < n => holesy[m].re <= holesy[n].le

IndInv ==
    TypeOK /\ PosInv /\ LeftInv /\ RightInv /\ DoneInv /\ OrderInv /\ CoverInv /\ OnlyInv

-----------------------------------------------------------------------------
(* Sequences *)

\* Appending a hole to the report.
LEMMA AppendFacts ==
    ASSUME NEW S, NEW c \in Seq(S), NEW h \in S
    PROVE  /\ Append(c, h) \in Seq(S) /\ Len(Append(c, h)) = Len(c) + 1
           /\ DOMAIN c = 1 .. Len(c) /\ DOMAIN Append(c, h) = 1 .. Len(c) + 1 /\ Len(c) \in Nat
           /\ \A n \in DOMAIN c : Append(c, h)[n] = c[n] /\ n \in DOMAIN Append(c, h)
           /\ Append(c, h)[Len(c) + 1] = h /\ Len(c) + 1 \in DOMAIN Append(c, h)
           /\ \A n \in DOMAIN Append(c, h) : n \in DOMAIN c \/ n = Len(c) + 1
           /\ {Append(c, h)[n] : n \in DOMAIN Append(c, h)} = {c[n] : n \in DOMAIN c} \cup {h}
<1>1. /\ Append(c, h) \in Seq(S) /\ Len(Append(c, h)) = Len(c) + 1
      /\ DOMAIN c = 1 .. Len(c) /\ DOMAIN Append(c, h) = 1 .. Len(c) + 1 /\ Len(c) \in Nat
      /\ Append(c, h)[Len(c) + 1] = h
  OBVIOUS
<1>2. \A n \in 1 .. Len(c) : Append(c, h)[n] = c[n]
  OBVIOUS
<1>3. /\ \A n \in 1 .. Len(c) : n \in 1 .. Len(c) + 1
      /\ \A n \in 1 .. Len(c) + 1 : n \in 1 .. Len(c) \/ n = Len(c) + 1
      /\ Len(c) + 1 \in 1 .. Len(c) + 1
  BY <1>1
<1>4. {Append(c, h)[n] : n \in 1 .. Len(c) + 1} = {c[n] : n \in 1 .. Len(c)} \cup {h}
  BY <1>1, <1>2, <1>3
<1> QED
  BY <1>1, <1>2, <1>3, <1>4

-----------------------------------------------------------------------------
(* Steps *)

\* The end of the round, and the base of its scan.
LEMMA LatFacts ==
    ASSUME TypeOK
    PROVE  /\ lattmp \in Nat /\ lattmp > 0 /\ Base \in Nat /\ Base < lattmp
           /\ i \in Nat /\ tmp \in Nat
<1>1. round \in Nat \ {0} /\ BURST \in Nat \ {0}
  BY DEF TypeOK
<1>2. lattmp \in Nat /\ lattmp > 0
  BY ONLY <1>1 DEF lattmp
<1> QED
  BY <1>2, BaseFacts DEF TypeOK, Base

\* The edges reported are numbers of frames.
LEMMA ReportFacts ==
    ASSUME TypeOK
    PROVE  \A n \in DOMAIN holesy : holesy[n].le \in Nat /\ holesy[n].re \in Nat
<1>1. \A h \in Holes(lattmp) : h.le \in Nat /\ h.re \in Nat
  BY LatFacts DEF Holes
<1>2. \A n \in DOMAIN holesy : holesy[n] \in Holes(lattmp)
  BY DEF TypeOK
<1> QED
  BY <1>1, <1>2

\* The window and the round do not change in prepDACK.
LEMMA Frame ==
    ASSUME Next PROVE window' = window /\ round' = round /\ lattmp' = lattmp /\ Base' = Base
  BY DEF Next, Scan, LeftEdge, RightEdge, Delay, Arm, GiveUp, lattmp, Base

\* The scan meets a lost frame: a hole starts there.
LEMMA ScanLostKeeps ==
    ASSUME IndInv, Scan, i < lattmp, Len(holesy) < HOLES_MAX, Lost(window, i) PROVE IndInv'
<1>1. /\ pc = "scan" /\ pc' = "left" /\ tmp' = i /\ i' = i /\ holesy' = holesy /\ loss' = loss
      /\ send' = send /\ alpha' = alpha /\ duration' = duration
      /\ window' = window /\ round' = round /\ lattmp' = lattmp /\ Base' = Base
  BY Frame DEF Scan, Next
<1>2. TypeOK /\ PosInv /\ DoneInv /\ OrderInv /\ CoverInv /\ OnlyInv
  BY DEF IndInv
<1>3. lattmp \in Nat /\ lattmp > 0 /\ Base \in Nat /\ Base < lattmp /\ i \in Nat
  BY <1>2, LatFacts
<1>4. TypeOK'
  BY <1>1, <1>2, <1>3 DEF TypeOK
<1>5. PosInv'
  BY <1>1, <1>2, <1>3 DEF PosInv
<1>6. LeftInv'
  <2>1. i \in HoleStarts(window, lattmp)
    BY <1>1, <1>2, <1>3 DEF PosInv, HoleStarts, Base
  <2> QED
    BY <1>1, <1>3, <2>1 DEF LeftInv
<1>7. RightInv' /\ DoneInv'
  BY <1>1, <1>2 DEF RightInv, DoneInv, Done, Reported, Scanned
<1>8. OrderInv'
  BY <1>1, <1>2 DEF OrderInv
<1>9. CoverInv'
  BY <1>1, <1>2 DEF CoverInv, Scanned, LossesRequested, Reported
<1>10. OnlyInv'
  <2>1. \A n \in DOMAIN holesy : holesy[n].re \in Nat /\ holesy[n].re < i
    BY <1>2, ReportFacts DEF OrderInv
  <2>2. \A n \in DOMAIN holesy : holesy[n].re <= i
    BY <1>3, <2>1
  <2> QED
    BY <1>1, <1>2, <2>2 DEF OnlyInv, Reported
<1> QED
  BY <1>4, <1>5, <1>6, <1>7, <1>8, <1>9, <1>10 DEF IndInv

\* The scan passes a frame that was received.
LEMMA ScanReceivedKeeps ==
    ASSUME IndInv, Scan, i < lattmp, Len(holesy) < HOLES_MAX, ~Lost(window, i) PROVE IndInv'
<1>1. /\ pc = "scan" /\ pc' = "scan" /\ tmp' = tmp /\ i' = i + 1 /\ holesy' = holesy
      /\ loss' = loss /\ send' = send /\ alpha' = alpha /\ duration' = duration
      /\ window' = window /\ round' = round /\ lattmp' = lattmp /\ Base' = Base
  BY Frame DEF Scan, Next
<1>2. TypeOK /\ PosInv /\ DoneInv /\ OrderInv /\ CoverInv /\ OnlyInv
  BY DEF IndInv
<1>3. lattmp \in Nat /\ lattmp > 0 /\ Base \in Nat /\ Base < lattmp /\ i \in Nat
  BY <1>2, LatFacts
<1>4. TypeOK'
  BY <1>1, <1>2, <1>3 DEF TypeOK
<1>5. PosInv'
  BY <1>1, <1>2, <1>3 DEF PosInv
<1>6. LeftInv' /\ RightInv'
  BY <1>1 DEF LeftInv, RightInv
<1>7. DoneInv'
  <2>1. StartsBelow(window, lattmp, i + 1) = StartsBelow(window, lattmp, i)
    BY <1>3, StartsSkip
  <2> QED
    BY <1>1, <1>2, <2>1 DEF DoneInv, Done, Reported, Scanned
<1>8. OrderInv'
  <2>1. \A n \in DOMAIN holesy : holesy[n].re \in Nat /\ holesy[n].re < i
    BY <1>2, ReportFacts DEF OrderInv
  <2>2. \A n \in DOMAIN holesy : holesy[n].re < i + 1
    BY <1>3, <2>1
  <2> QED
    BY <1>1, <1>2, <2>2 DEF OrderInv
<1>9. CoverInv'
  <2>1. \A s \in Base .. lattmp - 2 : (s < i + 1 /\ Lost(window, s)) => s < i
    BY <1>3
  <2> QED
    BY <1>1, <1>2, <2>1 DEF CoverInv, Scanned, LossesRequested, Reported
<1>10. OnlyInv'
  BY <1>1, <1>2 DEF OnlyInv, Reported
<1> QED
  BY <1>4, <1>5, <1>6, <1>7, <1>8, <1>9, <1>10 DEF IndInv

\* The scan is over, or the DACK is full: what was reported is what the definition says.
LEMMA ScanEndKeeps ==
    ASSUME IndInv, Scan, ~(i < lattmp /\ Len(holesy) < HOLES_MAX) PROVE IndInv'
<1>1. /\ pc = "scan" /\ pc' = "delay" /\ tmp' = tmp /\ i' = i /\ holesy' = holesy
      /\ loss' = loss /\ send' = send /\ alpha' = alpha /\ duration' = duration
      /\ window' = window /\ round' = round /\ lattmp' = lattmp /\ Base' = Base
  BY Frame DEF Scan, Next
<1>2. TypeOK /\ PosInv /\ DoneInv /\ OrderInv /\ CoverInv /\ OnlyInv
  BY DEF IndInv
<1>3. lattmp \in Nat /\ lattmp > 0 /\ Base \in Nat /\ Base < lattmp /\ i \in Nat
  BY <1>2, LatFacts
<1>4. TypeOK'
  BY <1>1, <1>2, <1>3 DEF TypeOK
<1>5. PosInv'
  BY <1>1, <1>2, <1>3 DEF PosInv
<1>6. LeftInv' /\ RightInv'
  BY <1>1 DEF LeftInv, RightInv
<1>7. DoneInv'
  <2>1. Done(i) /\ Len(holesy) <= HOLES_MAX /\ Len(holesy) \in Nat
    BY <1>1, <1>2 DEF DoneInv, TypeOK, PosInv
  <2>2. i >= lattmp \/ Len(holesy) >= HOLES_MAX
    BY <1>3, <2>1
  <2>3. ReportedStarts(window, lattmp) = StartsBelow(window, lattmp, i)
    BY <1>3, <2>1, <2>2, StartsAll DEF Done
  <2>4. Reported = DackHoles(window, lattmp)
    BY <2>1, <2>3, HolesAll DEF Done
  <2> QED
    BY <1>1, <2>4 DEF DoneInv, Reported
<1>8. OrderInv'
  BY <1>1, <1>2 DEF OrderInv
<1>9. CoverInv'
  <2>1. ASSUME Len(holesy) < HOLES_MAX, NEW s \in Base .. lattmp - 2, Lost(window, s)
        PROVE  s \in Requested(Reported)
    <3>1. s < i
      BY <1>3, <2>1
    <3> QED
      BY <1>1, <1>2, <2>1, <3>1 DEF CoverInv, Scanned
  <2> QED
    BY <1>1, <2>1 DEF CoverInv, Scanned, LossesRequested, Reported, Base
<1>10. OnlyInv'
  BY <1>1, <1>2 DEF OnlyInv, Reported
<1> QED
  BY <1>4, <1>5, <1>6, <1>7, <1>8, <1>9, <1>10 DEF IndInv

\* The left edge moves.
LEMMA LeftMovesKeeps ==
    ASSUME IndInv, LeftEdge, LeftRun PROVE IndInv'
<1>1. /\ pc = "left" /\ pc' = "left" /\ tmp' = tmp - 1 /\ i' = i /\ holesy' = holesy
      /\ loss' = (loss + 1) % U8 /\ send' = send /\ alpha' = alpha /\ duration' = duration
      /\ window' = window /\ round' = round /\ lattmp' = lattmp /\ Base' = Base
  BY Frame DEF LeftEdge, Next
<1>2. TypeOK /\ PosInv /\ LeftInv /\ DoneInv /\ OrderInv /\ CoverInv /\ OnlyInv
  BY DEF IndInv
<1>3. lattmp \in Nat /\ lattmp > 0 /\ Base \in Nat /\ Base < lattmp /\ i \in Nat /\ tmp \in Nat
  BY <1>2, LatFacts
<1>4. LostBefore(window, tmp) /\ tmp > 0 /\ Base < tmp - 1
  BY DEF LeftRun, Base
<1>5. TypeOK'
  <2>1. loss' \in 0 .. U8 - 1
    <3>1. loss + 1 \in Nat /\ U8 \in Nat \ {0}
      BY <1>2 DEF TypeOK
    <3> QED
      BY ONLY <1>1, <3>1, DivMod, Zenon
  <2> QED
    BY <1>1, <1>2, <1>3, <1>4, <2>1 DEF TypeOK
<1>6. PosInv'
  BY <1>1, <1>2, <1>3, <1>4 DEF PosInv
<1>7. LeftInv' /\ RightInv'
  <2>1. \A x \in (tmp - 1) + 1 .. i : x = tmp \/ x \in tmp + 1 .. i
    BY <1>3, <1>4
  <2> QED
    BY <1>1, <1>2, <1>4, <2>1 DEF LeftInv, RightInv
<1>8. DoneInv' /\ OrderInv'
  BY <1>1, <1>2 DEF DoneInv, Done, Reported, Scanned, OrderInv
<1>9. CoverInv'
  BY <1>1, <1>2 DEF CoverInv, Scanned, LossesRequested, Reported
<1>10. OnlyInv'
  <2>1. ASSUME window[-1] # 0 PROVE FALSE
    <3>1. tmp = i /\ i \in HoleStarts(window, lattmp)
      BY <1>1, <1>2, <2>1 DEF OnlyInv, LeftInv
    <3>2. Lost(window, i - 1)
      BY <1>3, <1>4, <2>1, <3>1, BeforeFacts
    <3>3. i # Base
      BY <1>3, <1>4, <3>1
    <3> QED
      BY <3>1, <3>2, <3>3 DEF HoleStarts, Base
  <2> QED
    BY <1>1, <2>1 DEF OnlyInv
<1> QED
  BY <1>5, <1>6, <1>7, <1>8, <1>9, <1>10 DEF IndInv

\* The left edge is settled.
LEMMA LeftEndsKeeps ==
    ASSUME IndInv, LeftEdge, ~LeftRun PROVE IndInv'
<1>1. /\ pc = "left" /\ pc' = "right" /\ tmp' = tmp /\ i' = i /\ holesy' = holesy
      /\ loss' = loss /\ send' = send /\ alpha' = alpha /\ duration' = duration
      /\ window' = window /\ round' = round /\ lattmp' = lattmp /\ Base' = Base
  BY Frame DEF LeftEdge, Next
<1>2. TypeOK /\ PosInv /\ LeftInv /\ DoneInv /\ OrderInv /\ CoverInv /\ OnlyInv
  BY DEF IndInv
<1>3. lattmp \in Nat /\ lattmp > 0 /\ Base \in Nat /\ Base < lattmp /\ i \in Nat /\ tmp \in Nat
  BY <1>2, LatFacts
<1>4. TypeOK' /\ PosInv' /\ LeftInv'
  BY <1>1, <1>2, <1>3 DEF TypeOK, PosInv, LeftInv
<1>5. RightInv'
  <2>1. i \in HoleStarts(window, lattmp) /\ tmp <= i /\ Done(i)
    BY <1>1, <1>2 DEF LeftInv, PosInv, DoneInv
  <2>2. IsLeftEdge(window, lattmp, i, tmp)
    BY <1>1, <1>2, <1>3 DEF LeftInv, LeftRun, IsLeftEdge, Base
  <2>3. \A x \in i .. i - 1 : Lost(window, x)
    BY <1>3
  <2>4. i <= i
    BY <1>3
  <2>5. /\ i' \in HoleStarts(window', lattmp') /\ i' <= i' /\ tmp' <= i'
        /\ IsLeftEdge(window', lattmp', i', tmp')
        /\ \A x \in i' .. i' - 1 : Lost(window', x)
        /\ Reported' = HolesOf(window', lattmp', StartsBelow(window', lattmp', i'))
        /\ Len(holesy') = Cardinality(StartsBelow(window', lattmp', i'))
    BY <1>1, <2>1, <2>2, <2>3, <2>4 DEF Done, Reported
  <2> QED
    BY <2>5 DEF RightInv, Done
<1>6. DoneInv' /\ OrderInv'
  BY <1>1, <1>2 DEF DoneInv, Done, Reported, Scanned, OrderInv
<1>7. CoverInv'
  BY <1>1, <1>2 DEF CoverInv, Scanned, LossesRequested, Reported
<1>8. OnlyInv'
  BY <1>1, <1>2, <1>3 DEF OnlyInv, Reported
<1> QED
  BY <1>4, <1>5, <1>6, <1>7, <1>8 DEF IndInv

\* The right edge moves.
LEMMA RightMovesKeeps ==
    ASSUME IndInv, RightEdge, RightRun PROVE IndInv'
<1>1. /\ pc = "right" /\ pc' = "right" /\ tmp' = tmp /\ i' = i + 1 /\ holesy' = holesy
      /\ loss' = (loss + 1) % U8 /\ send' = send /\ alpha' = alpha /\ duration' = duration
      /\ window' = window /\ round' = round /\ lattmp' = lattmp /\ Base' = Base
  BY Frame DEF RightEdge, Next
<1>2. TypeOK /\ PosInv /\ RightInv /\ OrderInv /\ CoverInv /\ OnlyInv
  BY DEF IndInv
<1>3. lattmp \in Nat /\ lattmp > 0 /\ Base \in Nat /\ Base < lattmp /\ i \in Nat /\ tmp \in Nat
  BY <1>2, LatFacts
<1>4. Lost(window, i) /\ i < lattmp - 1 /\ tmp <= i
  BY <1>1, <1>2 DEF RightRun, PosInv
<1>5. TypeOK'
  <2>1. loss' \in 0 .. U8 - 1
    <3>1. loss + 1 \in Nat /\ U8 \in Nat \ {0}
      BY <1>2 DEF TypeOK
    <3> QED
      BY ONLY <1>1, <3>1, DivMod, Zenon
  <2> QED
    BY <1>1, <1>2, <1>3, <1>4, <2>1 DEF TypeOK
<1>6. PosInv' /\ LeftInv'
  BY <1>1, <1>2, <1>3, <1>4 DEF PosInv, LeftInv
<1>7. RightInv'
  <2>1. PICK s \in HoleStarts(window, lattmp) :
            /\ s <= i /\ tmp <= s /\ IsLeftEdge(window, lattmp, s, tmp)
            /\ \A x \in s .. i - 1 : Lost(window, x)
            /\ Done(s)
    BY <1>1, <1>2 DEF RightInv
  <2>2. s \in Nat
    BY <1>3, StartFacts
  <2>3. s <= i + 1 /\ \A x \in s .. (i + 1) - 1 : Lost(window, x)
    BY <1>3, <1>4, <2>1, <2>2
  <2> QED
    BY <1>1, <2>1, <2>3 DEF RightInv, Done, Reported
<1>8. DoneInv'
  BY <1>1 DEF DoneInv, Scanned
<1>9. OrderInv'
  <2>1. \A n \in DOMAIN holesy : holesy[n].re \in Nat /\ holesy[n].re < i
    BY <1>2, ReportFacts DEF OrderInv
  <2>2. \A n \in DOMAIN holesy : holesy[n].re < i + 1
    BY <1>3, <2>1
  <2> QED
    BY <1>1, <1>2, <2>2 DEF OrderInv
<1>10. CoverInv'
  <2>1. \A s \in Base .. lattmp - 2 : s < i + 1 => s < i \/ tmp <= s
    BY <1>3, <1>4
  <2> QED
    BY <1>1, <1>2, <2>1 DEF CoverInv, Scanned, LossesRequested, Reported
<1>11. OnlyInv'
  <2>1. \A s \in tmp .. (i + 1) - 1 : s \in tmp .. i - 1 \/ s = i
    BY <1>3
  <2> QED
    BY <1>1, <1>2, <1>4, <2>1 DEF OnlyInv, Reported
<1> QED
  BY <1>5, <1>6, <1>7, <1>8, <1>9, <1>10, <1>11 DEF IndInv

\* The right edge is settled and the hole reported.
LEMMA RightEndsKeeps ==
    ASSUME IndInv, RightEdge, ~RightRun PROVE IndInv'
<1> DEFINE h == [le |-> tmp, re |-> i]
<1>1. /\ pc = "right" /\ pc' = "scan" /\ tmp' = tmp /\ i' = i + 1 /\ holesy' = Append(holesy, h)
      /\ loss' = loss /\ send' = send /\ alpha' = alpha /\ duration' = duration
      /\ window' = window /\ round' = round /\ lattmp' = lattmp /\ Base' = Base
  BY Frame DEF RightEdge, Next
<1>2. TypeOK /\ PosInv /\ RightInv /\ OrderInv /\ CoverInv /\ OnlyInv
  BY DEF IndInv
<1>3. lattmp \in Nat /\ lattmp > 0 /\ Base \in Nat /\ Base < lattmp /\ i \in Nat /\ tmp \in Nat
  BY <1>2, LatFacts
<1>4. /\ ~Lost(window, i) \/ i = lattmp - 1
      /\ i < lattmp /\ tmp <= i /\ Base <= i /\ Len(holesy) < HOLES_MAX
      /\ holesy \in Seq(Holes(lattmp))
  <2>1. i < lattmp /\ tmp <= i /\ Base <= i /\ Len(holesy) < HOLES_MAX
        /\ holesy \in Seq(Holes(lattmp))
    BY <1>1, <1>2, <1>3 DEF PosInv
  <2>2. ~Lost(window, i) \/ i = lattmp - 1
    BY <1>3, <2>1 DEF RightRun
  <2> QED
    BY <2>1, <2>2
<1>5. h \in Holes(lattmp) /\ h.le = tmp /\ h.re = i
  BY <1>3, <1>4 DEF Holes
<1> HIDE DEF h
<1>6. /\ holesy' \in Seq(Holes(lattmp)) /\ Len(holesy') = Len(holesy) + 1
      /\ DOMAIN holesy = 1 .. Len(holesy) /\ DOMAIN holesy' = 1 .. Len(holesy) + 1
      /\ Len(holesy) \in Nat
      /\ \A n \in DOMAIN holesy : holesy'[n] = holesy[n]
      /\ holesy'[Len(holesy) + 1] = h
      /\ \A n \in DOMAIN holesy' : n \in DOMAIN holesy \/ n = Len(holesy) + 1
      /\ Reported' = Reported \cup {h}
  BY <1>1, <1>4, <1>5, AppendFacts DEF Reported
<1>7. \A n \in DOMAIN holesy : /\ holesy[n].re \in Nat /\ holesy[n].le \in Nat
                               /\ holesy[n].re < i /\ n < Len(holesy) + 1
  <2>1. \A n \in DOMAIN holesy : n < Len(holesy) + 1
    BY <1>6
  <2> QED
    BY <1>2, <2>1, ReportFacts DEF OrderInv
<1>8. TypeOK'
  <2>1. \A n \in DOMAIN holesy' : holesy'[n] \in Holes(lattmp)
    BY <1>6
  <2>2. Len(holesy') <= HOLES_MAX
    BY <1>4, <1>6
  <2> QED
    BY <1>1, <1>2, <1>3, <1>4, <2>1, <2>2 DEF TypeOK
<1>9. PosInv'
  <2>1. i + 1 = lattmp \/ ~Lost(window, (i + 1) - 1)
    BY <1>3, <1>4
  <2> QED
    BY <1>1, <1>3, <1>4, <1>6, <2>1 DEF PosInv
<1>10. LeftInv' /\ RightInv'
  BY <1>1 DEF LeftInv, RightInv
<1>11. DoneInv'
  <2>1. PICK s \in HoleStarts(window, lattmp) :
            /\ s <= i /\ tmp <= s /\ IsLeftEdge(window, lattmp, s, tmp)
            /\ \A x \in s .. i - 1 : Lost(window, x)
            /\ Done(s)
    BY <1>1, <1>2 DEF RightInv
  <2>2. s \in Nat /\ i >= s
    BY <1>3, <2>1, StartFacts
  <2>3. HoleAt(window, lattmp, s, h)
    BY <1>4, <1>5, <2>1, <2>2 DEF HoleAt, IsRightEdge
  <2>4. /\ StartsBelow(window, lattmp, i + 1) = StartsBelow(window, lattmp, s) \cup {s}
        /\ Cardinality(StartsBelow(window, lattmp, i + 1))
              = Cardinality(StartsBelow(window, lattmp, s)) + 1
    BY <1>3, <2>1, StartsAdd
  <2>5. HolesOf(window, lattmp, StartsBelow(window, lattmp, s) \cup {s})
            = HolesOf(window, lattmp, StartsBelow(window, lattmp, s)) \cup {h}
    BY <1>3, <1>5, <2>2, <2>3, HolesAdd
  <2>6. /\ Reported' = HolesOf(window, lattmp, StartsBelow(window, lattmp, i + 1))
        /\ Len(holesy') = Cardinality(StartsBelow(window, lattmp, i + 1))
    BY <1>6, <2>1, <2>4, <2>5 DEF Done
  <2> QED
    BY <1>1, <2>6 DEF DoneInv, Done, Scanned
<1>12. OrderInv'
  <2>1. \A n \in DOMAIN holesy' : holesy'[n].re < i + 1
    BY <1>3, <1>5, <1>6, <1>7
  <2>2. ASSUME NEW m \in DOMAIN holesy', NEW n \in DOMAIN holesy', m < n
        PROVE  holesy'[m].re < holesy'[n].re
    <3>1. m \in DOMAIN holesy
      BY <1>6, <2>2
    <3>2. CASE n \in DOMAIN holesy
      BY <1>2, <1>6, <2>2, <3>1, <3>2 DEF OrderInv
    <3>3. CASE n = Len(holesy) + 1
      BY <1>5, <1>6, <1>7, <3>1, <3>3
    <3> QED
      BY <1>6, <3>2, <3>3
  <2> QED
    BY <1>1, <2>1, <2>2 DEF OrderInv
<1>13. CoverInv'
  <2>1. ASSUME NEW s \in Base .. lattmp - 2, s < i + 1, Lost(window, s)
        PROVE  s \in Requested(Reported')
    <3>1. s < i /\ s \in Int
      BY <1>3, <1>4, <2>1
    <3>2. CASE s \in Requested(Reported)
      BY <1>6, <3>2 DEF Requested
    <3>3. CASE tmp <= s
      <4>1. s \in h.le .. h.re - 1
        BY <1>3, <1>5, <3>1, <3>3
      <4> QED
        BY <1>6, <4>1 DEF Requested
    <3> QED
      BY <1>1, <1>2, <2>1, <3>1, <3>2, <3>3 DEF CoverInv, Scanned
  <2> QED
    BY <1>1, <2>1 DEF CoverInv, Scanned, LossesRequested
<1>14. OnlyInv'
  <2> SUFFICES ASSUME window[-1] # 0
               PROVE  /\ \A s \in Requested(Reported') : Lost(window, s)
                      /\ \A m, n \in DOMAIN holesy' : m < n => holesy'[m].re <= holesy'[n].le
    BY <1>1 DEF OnlyInv
  <2>1. \A s \in Requested(Reported') : Lost(window, s)
    <3>1. \A s \in Requested(Reported') : s \in Requested(Reported) \/ s \in tmp .. i - 1
      BY <1>5, <1>6 DEF Requested
    <3> QED
      BY <1>1, <1>2, <3>1 DEF OnlyInv
  <2>2. ASSUME NEW m \in DOMAIN holesy', NEW n \in DOMAIN holesy', m < n
        PROVE  holesy'[m].re <= holesy'[n].le
    <3>1. m \in DOMAIN holesy
      BY <1>6, <2>2
    <3>2. CASE n \in DOMAIN holesy
      BY <1>2, <1>6, <2>2, <3>1, <3>2 DEF OnlyInv
    <3>3. CASE n = Len(holesy) + 1
      BY <1>1, <1>2, <1>5, <1>6, <3>1, <3>3 DEF OnlyInv
    <3> QED
      BY <1>6, <3>2, <3>3
  <2> QED
    BY <2>1, <2>2
<1> QED
  BY <1>8, <1>9, <1>10, <1>11, <1>12, <1>13, <1>14 DEF IndInv

\* The delay, dacklok and dack_timer: the report is not touched any more.
LEMMA TailKeeps ==
    ASSUME IndInv, Delay \/ Arm \/ GiveUp PROVE IndInv'
<1>1. /\ Scanned /\ Scanned' /\ pc \notin {"scan", "left", "right"}
      /\ pc' \in {"arm", "armed", "replaced", "dropped"}
      /\ tmp' = tmp /\ i' = i /\ holesy' = holesy
      /\ window' = window /\ round' = round /\ lattmp' = lattmp /\ Base' = Base
  BY Frame DEF Delay, Arm, GiveUp, Next, Scanned
<1>2. TypeOK /\ PosInv /\ DoneInv /\ OrderInv /\ CoverInv /\ OnlyInv
  BY DEF IndInv
<1>3. loss' \in 0 .. U8 - 1 /\ alpha' \in Nat /\ duration' \in Int /\ send' \in {0, 1}
  <2>1. CASE Delay
    <3>1. loss' \in 0 .. U8 - 1 /\ loss' \in Int /\ send' \in {0, 1}
      BY <1>2, <2>1 DEF Delay, TypeOK
    <3>2. alpha' \in Nat
      BY <1>2, <2>1 DEF Delay, TypeOK
    <3>3. PICK rndm \in {-1, 0, 1} :
              duration' = IF 2 * alpha' * (loss' + rndm) = 0 THEN 1
                          ELSE 2 * alpha' * (loss' + rndm)
      BY <2>1 DEF Delay
    <3>4. 2 * alpha' * (loss' + rndm) \in Int
      BY <3>1, <3>2
    <3>5. duration' \in Int
      BY ONLY <3>3, <3>4, 1 \in Int
    <3> QED
      BY ONLY <3>1, <3>2, <3>5, Zenon
  <2>2. CASE Arm
    BY <1>2, <2>2 DEF Arm, TypeOK
  <2>3. CASE GiveUp
    BY <1>2, <2>3 DEF GiveUp, TypeOK
  <2> QED
    BY <2>1, <2>2, <2>3
<1>4. TypeOK'
  BY <1>1, <1>2, <1>3 DEF TypeOK
<1>5. PosInv' /\ LeftInv' /\ RightInv'
  BY <1>1, <1>2 DEF PosInv, LeftInv, RightInv
<1>6. DoneInv' /\ OrderInv'
  BY <1>1, <1>2 DEF DoneInv, Reported, OrderInv
<1>7. CoverInv'
  BY <1>1, <1>2 DEF CoverInv, LossesRequested, Reported
<1>8. OnlyInv'
  BY <1>1, <1>2 DEF OnlyInv, Reported
<1> QED
  BY <1>4, <1>5, <1>6, <1>7, <1>8 DEF IndInv

-----------------------------------------------------------------------------
(* Theorems *)

\* The call of prepDACK.
LEMMA InitInv == Init => IndInv
<1> SUFFICES ASSUME Init PROVE IndInv
  OBVIOUS
<1>1. /\ pc = "scan" /\ i = Base /\ tmp = 0 /\ holesy = << >> /\ round \in 1 .. MAXROUND
      /\ loss = 0 /\ duration = 0 /\ alpha \in Nat /\ send \in {0, 1}
      /\ window \in [Cells -> {0, 1}]
  BY DEF Init, Base
<1>2. lattmp \in Nat /\ lattmp > 0
  <2>1. round \in Nat \ {0} /\ BURST \in Nat \ {0}
    BY <1>1
  <2> QED
    BY ONLY <2>1 DEF lattmp
<1>3. Base \in Nat /\ Base < lattmp
  BY <1>2, BaseFacts DEF Base
<1>4. Len(holesy) = 0 /\ DOMAIN holesy = {} /\ holesy \in Seq(Holes(lattmp)) /\ Reported = {}
  BY <1>1 DEF Reported
<1>5. TypeOK
  BY <1>1, <1>2, <1>3, <1>4 DEF TypeOK
<1>6. PosInv /\ LeftInv /\ RightInv
  BY <1>1, <1>2, <1>3, <1>4 DEF PosInv, LeftInv, RightInv
<1>7. DoneInv
  <2>1. StartsBelow(window, lattmp, i) = {}
    <3>1. HoleStarts(window, lattmp) \subseteq Base .. lattmp - 1
      BY <1>2, <1>3, StartFacts DEF Base
    <3> QED
      BY <1>1, <1>2, <1>3, <3>1 DEF StartsBelow
  <2>2. HolesOf(window, lattmp, {}) = {}
    BY DEF HolesOf
  <2>3. Cardinality({}) = 0
    BY FS_EmptySet
  <2> QED
    BY <1>1, <1>4, <2>1, <2>2, <2>3 DEF DoneInv, Done, Scanned
<1>8. OrderInv
  BY <1>4 DEF OrderInv
<1>9. CoverInv
  BY <1>1, <1>2, <1>3 DEF CoverInv, Scanned, LossesRequested
<1>10. OnlyInv
  BY <1>1, <1>4 DEF OnlyInv, Requested
<1> QED
  BY <1>5, <1>6, <1>7, <1>8, <1>9, <1>10 DEF IndInv

\* Every step keeps the invariant.
LEMMA NextInv == IndInv /\ [Next]_vars => IndInv'
<1> SUFFICES ASSUME IndInv, [Next]_vars PROVE IndInv'
  OBVIOUS
<1>1. CASE Scan
  BY <1>1, ScanLostKeeps, ScanReceivedKeeps, ScanEndKeeps
<1>2. CASE LeftEdge
  BY <1>2, LeftMovesKeeps, LeftEndsKeeps
<1>3. CASE RightEdge
  BY <1>3, RightMovesKeeps, RightEndsKeeps
<1>4. CASE Delay \/ Arm \/ GiveUp
  BY <1>4, TailKeeps
<1>5. CASE UNCHANGED vars
  <2>1. /\ tmp' = tmp /\ i' = i /\ holesy' = holesy /\ pc' = pc /\ window' = window
        /\ round' = round /\ loss' = loss /\ alpha' = alpha /\ duration' = duration
        /\ send' = send /\ lattmp' = lattmp /\ Base' = Base /\ Reported' = Reported
        /\ (Scanned' <=> Scanned)
    BY <1>5 DEF vars, lattmp, Base, Reported, Scanned
  <2>2. TypeOK' /\ PosInv' /\ LeftInv'
    BY <2>1 DEF IndInv, TypeOK, PosInv, LeftInv
  <2>3. RightInv' /\ DoneInv' /\ OrderInv'
    BY <2>1 DEF IndInv, RightInv, DoneInv, Done, OrderInv
  <2>4. CoverInv' /\ OnlyInv'
    BY <2>1 DEF IndInv, CoverInv, OnlyInv, LossesRequested
  <2> QED
    BY <2>2, <2>3, <2>4 DEF IndInv
<1> QED
  BY <1>1, <1>2, <1>3, <1>4, <1>5 DEF Next

\* The invariant holds throughout.
THEOREM Inductive == Spec => []IndInv
  BY InitInv, NextInv, PTL DEF Spec

\* The loops of prepDACK stay in the window and the report in its array (TypeOK).
THEOREM TypeCorrect == Spec => []TypeOK
<1>1. IndInv => TypeOK
  BY DEF IndInv
<1> QED
  BY <1>1, Inductive, PTL

(***************************************************************************)
(* The three nested loops of prepDACK compute the definition by edges, and *)
(* report the holes by ascending right edge (HolesMatchDefinition).        *)
(***************************************************************************)
THEOREM LoopsCompute == Spec => []HolesMatchDefinition
<1>1. IndInv => HolesMatchDefinition
  BY DEF IndInv, DoneInv, OrderInv, HolesMatchDefinition
<1> QED
  BY <1>1, Inductive, PTL

(***************************************************************************)
(* Unless the DACK is full, every frame of the scan but the last that the  *)
(* window records as lost is asked for (LossesRequested).                  *)
(***************************************************************************)
THEOREM NoLossForgotten == Spec => []LossesRequested
<1>1. IndInv => LossesRequested
  BY DEF IndInv, CoverInv
<1> QED
  BY <1>1, Inductive, PTL

(***************************************************************************)
(* With the bytes before window[] not zero, a DACK asks for lost frames    *)
(* only, and for none of them twice (OnlyLossesRequested).                 *)
(***************************************************************************)
THEOREM NothingElse == Spec => []OnlyLossesRequested
<1>1. IndInv => OnlyLossesRequested
  BY DEF IndInv, OnlyInv, OnlyLossesRequested
<1> QED
  BY <1>1, Inductive, PTL
=============================================================================
