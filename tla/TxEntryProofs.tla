---------------------------- MODULE TxEntryProofs ---------------------------
(***************************************************************************)
(* Proofs of the safety properties of TxEntry, for any length of the       *)
(* retransmission buffer, range of seq and number of frames.               *)
(***************************************************************************)
EXTENDS TxEntry, FiniteSetTheorems, TLAPS

USE TxEntryAssumption

\* The table has an entry, and a vmac_tx in progress works on it.
Attached == entry # 0 /\ (apc = "idle" \/ avmact = entry)

\* Nothing has happened yet that breaks the ownership of copies.
Regular == ~failed /\ ~wrapped

\* Frames of the entry whose copy is in its slot, or was.
Stored == IF apc \in {"copy", "store"} THEN aseq ELSE seq

\* No cleanup is at the slots.
Calm == cpc \in {"idle", "find"}

\* Counters and pointers to entries; who cleans up, or will, has an entry to clean up.
CountInv ==
    /\ entry <= added /\ added <= sent /\ dvmact <= added
    /\ apc # "idle" => avmact # 0 /\ entry \in {0, avmact} /\ sent # 0
    /\ dpc # "idle" => dvmact # 0
    /\ (~wrapped /\ apc \in {"copy", "store", "free"}) => seq = aseq + 1
    /\ (cpc # "idle" \/ timeout # "off") => entry # 0
    /\ Calm => ci = 0

\* Copies not made yet are unused.
FutureInv ==
    \A k \in Copies : (k > sent \/ (k = sent /\ apc \in {"arm", "number", "copy"}))
                         => copy[k] = "unused"

\* No pointer leads to a copy not made yet, and none was lost.
PointInv ==
    /\ \A i \in Slots : slot[i] \in Copies => copy[slot[i]] # "unused"
    /\ tmp1 \in Copies => copy[tmp1] # "unused"
    /\ tmp2 \in Copies => copy[tmp2] # "unused"
    /\ \A k \in lost : copy[k] # "unused"

\* What vmac_tx is about to store, and what it found in the slot.
StoreInv ==
    apc = "store" => /\ Regular => tmp1 \in Copies
                     /\ tmp2 = IF aseq >= WINDOW_TX THEN slot[aseq % WINDOW_TX] ELSE Null

\* Only slots below Stored were written, and every copy in use is in a slot that the
\* cleanup has not passed, with vmac_tx, or lost.
KeptInv ==
    /\ \A i \in Slots : i >= Stored => slot[i] = Garbage
    /\ \A k \in Copies : copy[k] = "used" =>
          \/ k \in lost
          \/ \E i \in Slots : slot[i] = k /\ ~Passed(i)
          \/ apc = "store" /\ tmp1 = k
          \/ apc = "free" /\ tmp2 = k

\* The slots below Stored, or all of them, hold copies in use, each another one.
SlotInv ==
    /\ \A i \in Slots : i < Stored =>
          slot[i] \in Copies /\ copy[slot[i]] = "used" /\ slot[i] \notin lost
    /\ \A i, j \in Slots : (slot[i] = slot[j] /\ slot[i] \in Copies) => i = j

\* A copy that vmac_tx is about to store or to free is in use, and in no slot.
OwnerInv ==
    /\ apc = "store" =>
          copy[tmp1] = "used" /\ tmp1 \notin lost /\ \A i \in Slots : slot[i] # tmp1
    /\ (apc = "free" /\ tmp2 # Null) =>
          /\ tmp2 \in Copies /\ copy[tmp2] = "used" /\ tmp2 \notin lost
          /\ \A i \in Slots : slot[i] # tmp2

\* When the entry is gone only lost copies and the one vmac_tx is about to free are left.
GoneInv ==
    (entry = 0 /\ Regular) =>
        /\ apc \in {"idle", "arm"} => \A k \in Copies : copy[k] = "used" => k \in lost
        /\ (apc = "free" /\ fault = "none") =>
              \A k \in Copies : copy[k] = "used" => k \in lost \/ k = tmp2

\* What the DACK handler loaded is still in its slot, or a frame one turn later is numbered.
LoadInv ==
    (dpc = "copy" /\ dvmact = entry /\ Attached /\ Regular /\ added = 1) =>
        \/ seq > dle + WINDOW_TX
        \/ dptr = slot[dle % WINDOW_TX] /\ dle < Stored

\* While the slots hold all copies; and, with the first line, at any time.
OwnInv ==
    /\ (Attached /\ Regular) => KeptInv
    /\ (Attached /\ Regular /\ Calm) => SlotInv /\ OwnerInv

IndInv ==
    TypeOK /\ CountInv /\ FutureInv /\ PointInv /\ StoreInv /\ GoneInv /\ LoadInv /\ OwnInv

-----------------------------------------------------------------------------
(* Numbers *)

\* Zero is an entry, a number and no copy; nor is what vmalloc left one.
LEMMA ZeroFacts == /\ 0 \in 0 .. MAXSEND /\ 0 \in 0 .. U16 - 1 /\ 0 \notin 1 .. MAXSEND
                   /\ \A n \in 0 .. MAXSEND : 0 <= n
                   /\ MAXSEND + 1 \notin 1 .. MAXSEND
  OBVIOUS

\* Division with remainder.
LEMMA DivMod ==
    ASSUME NEW m \in Nat \ {0}, NEW a \in Nat
    PROVE  /\ a % m \in 0 .. m - 1
           /\ a = m * (a \div m) + (a % m)
           /\ a \div m \in Nat
  OBVIOUS

\* The remainder of a number below the divisor.
LEMMA ModSmall ==
    ASSUME NEW m \in Nat \ {0}, NEW a \in 0 .. m - 1 PROVE a % m = a
  OBVIOUS

\* The slot of a frame; the first WINDOW_TX frames have the slot of their number.
LEMMA SlotFacts ==
    \A s \in Nat : s % WINDOW_TX \in Slots /\ (s < WINDOW_TX => s % WINDOW_TX = s)
  BY DivMod, ModSmall DEF Slots

\* seq stays in its range, and is one more unless it starts over.
LEMMA SuccessorFacts ==
    \A s \in 0 .. U16 - 1 :
        Successor(s) \in 0 .. U16 - 1 /\ (s + 1 # U16 => Successor(s) = s + 1)
<1> SUFFICES ASSUME NEW s \in 0 .. U16 - 1
             PROVE  Successor(s) \in 0 .. U16 - 1 /\ (s + 1 # U16 => Successor(s) = s + 1)
  OBVIOUS
<1> DEFINE n == s + 1
<1>1. U16 \in Nat \ {0} /\ n \in Nat /\ n <= U16
  OBVIOUS
<1>2. Successor(s) = n % U16 /\ (s + 1 # U16 <=> n # U16) /\ s + 1 = n
  BY DEF Successor
<1> HIDE DEF n
<1>3. n % U16 \in 0 .. U16 - 1
  BY <1>1, DivMod
<1>4. ASSUME n # U16 PROVE n % U16 = n
  BY <1>1, <1>4, ModSmall
<1> QED
  BY <1>2, <1>3, <1>4

\* Numbers less than m apart have different remainders.
LEMMA ModApart ==
    ASSUME NEW m \in Nat \ {0}, NEW a \in Nat, NEW b \in Nat, a < b, b < a + m
    PROVE  a % m # b % m
<1> SUFFICES ASSUME a % m = b % m PROVE FALSE
  OBVIOUS
<1> DEFINE p == a \div m
           q == b \div m
<1>1. a = m * p + (a % m) /\ b = m * q + (b % m) /\ p \in Nat /\ q \in Nat
  BY DivMod
<1> HIDE DEF p, q
<1>2. b - a = m * q - m * p /\ q - p \in Int
  BY <1>1, DivMod
<1>3. m * q - m * p = m * (q - p)
  BY <1>1
<1>4. CASE q - p <= 0
  <2>1. m * (q - p) <= 0
    BY <1>2, <1>4
  <2> QED
    BY <1>2, <1>3, <2>1
<1>5. CASE q - p >= 1
  <2>1. m * (q - p) >= m
    BY <1>2, <1>5
  <2> QED
    BY <1>2, <1>3, <2>1
<1> QED
  BY <1>2, <1>4, <1>5

\* Sequence numbers and slots are natural numbers.
LEMMA NumFacts ==
    ASSUME TypeOK PROVE seq \in Nat /\ aseq \in Nat /\ dle \in Nat /\ \A i \in Slots : i \in Nat
<1>1. seq \in 0 .. U16 - 1 /\ aseq \in 0 .. U16 - 1 /\ dle \in 0 .. U16 - 1
  BY Zenon DEF TypeOK
<1> QED
  BY ONLY <1>1, TxEntryAssumption DEF Slots

\* The slots that vmac_tx and the DACK handler index.
LEMMA SlotUse ==
    ASSUME TypeOK
    PROVE  /\ aseq % WINDOW_TX \in Slots /\ (aseq < WINDOW_TX => aseq % WINDOW_TX = aseq)
           /\ dle % WINDOW_TX \in Slots /\ (dle < WINDOW_TX => dle % WINDOW_TX = dle)
           /\ slot[aseq % WINDOW_TX] \in Pointers
           /\ \A l \in 0 .. U16 - 1 : l % WINDOW_TX \in Slots /\ slot[l % WINDOW_TX] \in Pointers
<1>1. aseq \in Nat /\ dle \in Nat
  BY NumFacts
<1>2. \A l \in 0 .. U16 - 1 : l \in Nat
  OBVIOUS
<1>3. \A i \in Slots : slot[i] \in Pointers
  BY DEF TypeOK, Pointers
<1> QED
  BY ONLY <1>1, <1>2, <1>3, SlotFacts, Zenon

-----------------------------------------------------------------------------
(* Types *)

\* The parts of TypeOK: the entry with its copies and cleanup, vmac_tx, the DACK handler.
EntryType ==
    /\ entry \in 0 .. MAXSEND /\ added \in 0 .. MAXSEND
    /\ seq \in 0 .. U16 - 1 /\ slot \in [Slots -> Copies \cup {Garbage}]
    /\ timeout \in {"off", "armed", "due"}
    /\ cpc \in {"idle", "find", "loop", "free"} /\ ci \in 0 .. WINDOW_TX
    /\ lost \subseteq Copies
AppType ==
    /\ sent \in 0 .. MAXSEND
    /\ apc \in {"idle", "arm", "number", "copy", "store", "free"}
    /\ avmact \in 0 .. MAXSEND /\ aseq \in 0 .. U16 - 1
    /\ tmp1 \in Copies \cup {Null} /\ tmp2 \in Pointers
DackType ==
    /\ dpc \in {"idle", "snapshot", "scan", "copy"}
    /\ dvmact \in 0 .. MAXSEND /\ dseq \in 0 .. U16 - 1 /\ dle \in 0 .. U16 - 1
    /\ dptr \in Pointers /\ dskb2 \in {"null", "sent"}
CopyType == copy \in [Copies -> {"unused", "used", "freed"}]
FaultType == fault \in {"none", "entry", "copied freed", "freed twice", "sent twice"}

AllTypes == FlagsOK /\ EntryType /\ AppType /\ DackType /\ CopyType /\ FaultType

\* Together they are TypeOK, before and after a step.
LEMMA TypeParts == (TypeOK => AllTypes) /\ (AllTypes' => TypeOK')
  BY Zenon DEF AllTypes, TypeOK, EntryType, AppType, DackType, CopyType, FaultType

\* A part whose variables a step leaves alone.
LEMMA TypeSame ==
    /\ UNCHANGED <<entry, added, seq, slot, timeout, cpc, ci, lost>> => (EntryType' <=> EntryType)
    /\ UNCHANGED <<sent, apc, avmact, aseq, tmp1, tmp2>> => (AppType' <=> AppType)
    /\ UNCHANGED <<dpc, dvmact, dseq, dle, dptr, dskb2>> => (DackType' <=> DackType)
    /\ UNCHANGED copy => (CopyType' <=> CopyType)
  BY DEF EntryType, AppType, DackType, CopyType

-----------------------------------------------------------------------------
(* Steps *)

\* A step that leaves the copies and their places alone.
LEMMA OwnSame ==
    ASSUME OwnInv, UNCHANGED <<slot, copy, lost, tmp1, tmp2>>, Stored' = Stored,
           Attached' => Attached, Regular' => Regular, Calm' <=> Calm,
           \A i \in Slots : Passed(i)' <=> Passed(i),
           apc' = "store" <=> apc = "store", apc' = "free" <=> apc = "free"
    PROVE  OwnInv'
<1>1. KeptInv => KeptInv'
  BY DEF KeptInv
<1>2. SlotInv => SlotInv'
  BY DEF SlotInv
<1>3. OwnerInv => OwnerInv'
  BY DEF OwnerInv
<1> QED
  BY <1>1, <1>2, <1>3 DEF OwnInv

\* vmac_tx finds the entry or adds one.
LEMMA TxFindStep == ASSUME IndInv, fault = "none", TxFind PROVE IndInv'
<1> USE DEF IndInv, TypeOK, CountInv, Copies, Garbage, Null, Stored, Attached,
        Regular, TxFind, entryVars, cleanVars, appVars, dackVars
<1>1. FlagsOK'
  BY Zenon DEF FlagsOK
<1>2. TypeOK'
  <2>1. /\ sent' \in 0 .. MAXSEND /\ entry' \in 0 .. MAXSEND /\ added' \in 0 .. MAXSEND
        /\ avmact' \in 0 .. MAXSEND
    OBVIOUS
  <2>2. /\ seq' \in 0 .. U16 - 1 /\ slot' \in [Slots -> Copies \cup {Garbage}]
        /\ timeout' \in {"off", "armed", "due"} /\ lost' = lost /\ apc' = "arm"
    BY ZeroFacts
  <2>3. UNCHANGED <<orphan, cpc, ci, copy, aseq, tmp1, tmp2, dpc, dvmact, dseq, dle, dptr,
                    dskb2, fault>>
    OBVIOUS
  <2>4. TypeOK
    OBVIOUS
  <2> QED
    BY ONLY ZenonT(60), <1>1, <2>1, <2>2, <2>3, <2>4 DEF TypeOK
<1>3. CountInv'
  BY DEF Calm
<1>4. PointInv'
  <2>1. CASE entry # 0
    BY <2>1 DEF PointInv
  <2>2. CASE entry = 0
    BY <2>2, ZeroFacts DEF PointInv
  <2> QED
    BY <2>1, <2>2
<1>5. FutureInv'
  BY DEF FutureInv
<1>6. GoneInv'
  BY DEF GoneInv
<1>7. LoadInv'
  BY DEF LoadInv
<1>8. OwnInv'
  <2>1. CASE entry # 0
    BY <2>1, OwnSame DEF Calm, Passed
  <2>2. CASE entry = 0
    <3>1. Stored' = 0 /\ slot' = [i \in Slots |-> Garbage] /\ apc' = "arm"
      BY <2>2
    <3>2. Regular' => \A k \in Copies : copy'[k] = "used" => k \in lost'
      BY <2>2 DEF GoneInv
    <3>3. Regular' => KeptInv'
      BY <3>1, <3>2 DEF KeptInv, Slots
    <3>4. SlotInv'
      BY <3>1, ZeroFacts DEF SlotInv, Slots
    <3>5. OwnerInv'
      BY <3>1 DEF OwnerInv
    <3> QED
      BY <3>3, <3>4, <3>5 DEF OwnInv
  <2> QED
    BY <2>1, <2>2
<1>9. StoreInv'
  BY DEF StoreInv
<1> QED
  BY <1>2, <1>3, <1>4, <1>5, <1>6, <1>7, <1>8, <1>9

\* The timeout is moved.
LEMMA TxArmStep == ASSUME IndInv, fault = "none", TxArm PROVE IndInv'
<1> USE DEF IndInv, TypeOK, CountInv, Copies, Garbage, Null, Stored, Attached,
        Regular, TxArm, Touch, entryVars, cleanVars, appVars, dackVars
<1>1. FlagsOK'
  BY Zenon DEF FlagsOK
<1>2. TypeOK'
  BY <1>1 DEF Pointers, Slots
<1>3. CountInv'
  BY DEF Calm
<1>4. PointInv'
  BY DEF PointInv, Slots
<1>5. FutureInv'
  BY DEF FutureInv
<1>6. GoneInv'
  BY DEF GoneInv
<1>7. LoadInv'
  BY DEF LoadInv
<1>8. OwnInv'
  BY OwnSame DEF Calm, Passed
<1>9. StoreInv'
  BY DEF StoreInv
<1> QED
  BY <1>2, <1>3, <1>4, <1>5, <1>6, <1>7, <1>8, <1>9

\* The frame gets its number.
LEMMA TxNumberStep == ASSUME IndInv, fault = "none", TxNumber PROVE IndInv'
<1> USE DEF IndInv, TypeOK, CountInv, Copies, Garbage, Null
<1>1. /\ apc = "number" /\ apc' = "copy" /\ aseq' = seq
      /\ seq' \in 0 .. U16 - 1 /\ wrapped' = (wrapped \/ seq + 1 = U16)
      /\ ~wrapped' => ~wrapped /\ seq' = seq + 1
      /\ fault' \in {"none", "entry"}
      /\ UNCHANGED <<entry, added, slot, failed, lost, timeout, cleanVars, copy, avmact, tmp1,
                     tmp2, sent, dackVars>>
  BY SuccessorFacts DEF TxNumber, Touch
<1> USE <1>1 DEF dackVars, cleanVars
<1>2. FlagsOK'
  BY Zenon DEF FlagsOK
<1>3. TypeOK'
  <2>1. TypeOK /\ DackType' /\ CopyType' /\ FaultType'
    BY TypeParts, TypeSame DEF AllTypes, FaultType
  <2>2. EntryType'
    BY ONLY <1>1, <2>1, TypeParts DEF AllTypes, EntryType, cleanVars
  <2>3. AppType'
    BY ONLY <1>1, <2>1, TypeParts DEF AllTypes, AppType, EntryType
  <2> QED
    BY ONLY <1>2, <2>1, <2>2, <2>3, TypeParts DEF AllTypes
<1>4. CountInv' /\ FutureInv' /\ PointInv' /\ GoneInv' /\ StoreInv'
  BY DEF FutureInv, PointInv, GoneInv, StoreInv, Regular, Calm
<1>5. Stored' = Stored /\ (Attached' <=> Attached) /\ (Regular' => Regular)
  BY DEF Stored, Attached, Regular
<1>6. LoadInv'
  BY <1>5 DEF LoadInv, Regular
<1>7. OwnInv'
  BY <1>5, OwnSame DEF Calm, Passed
<1> QED
  BY <1>3, <1>4, <1>6, <1>7

\* The frame is copied, or there is no memory.
LEMMA TxCopyStep == ASSUME IndInv, fault = "none", TxCopy PROVE IndInv'
<1> USE DEF IndInv, TypeOK, CountInv, Copies, Garbage, Null
<1> DEFINE Copied == tmp1' = sent /\ copy' = [copy EXCEPT ![sent] = "used"] /\ UNCHANGED failed
           Failed == tmp1' = Null /\ UNCHANGED copy /\ failed' = TRUE
<1>1. /\ apc = "copy" /\ apc' = "store" /\ sent \in Copies
      /\ fault' \in {"none", "entry"}
      /\ tmp2' = IF aseq >= WINDOW_TX THEN slot[aseq % WINDOW_TX] ELSE Null
      /\ UNCHANGED <<entry, added, seq, slot, wrapped, lost, timeout, cleanVars, avmact, aseq,
                     sent, dackVars>>
      /\ Copied \/ Failed
  BY DEF TxCopy, Touch, Victim, Replaces
<1>2. tmp2' \in Pointers /\ (tmp2' = Null \/ \E i \in Slots : tmp2' = slot[i])
  BY <1>1, SlotUse DEF Pointers
<1>3. FlagsOK' /\ (Regular' => Copied /\ Regular)
  <2>1. FlagsOK
    OBVIOUS
  <2> QED
    BY ONLY <1>1, <2>1, Zenon DEF FlagsOK, Regular, cleanVars
<1> HIDE DEF Copied, Failed
<1> USE <1>1 DEF dackVars, cleanVars
<1>4. TypeOK'
  <2>1. CASE Copied
    BY <1>2, <1>3, <2>1 DEF Copied
  <2>2. CASE Failed
    BY <1>2, <1>3, <2>2 DEF Failed
  <2> QED
    BY <2>1, <2>2
<1>5. CountInv'
  BY DEF Calm
<1>6. FutureInv' /\ PointInv'
  <2>1. CASE Copied
    BY <1>2, <2>1 DEF Copied, FutureInv, PointInv
  <2>2. CASE Failed
    BY <1>2, <2>2 DEF Failed, FutureInv, PointInv
  <2> QED
    BY <2>1, <2>2
<1>7. GoneInv'
  BY DEF GoneInv
<1>8. Stored' = Stored /\ (Attached' <=> Attached)
  BY DEF Stored, Attached
<1>9. LoadInv'
  BY <1>3, <1>8 DEF LoadInv
<1>10. StoreInv'
  BY <1>3 DEF StoreInv, Copied
<1>11. ASSUME Attached', Regular' PROVE KeptInv' /\ (Calm' => SlotInv' /\ OwnerInv')
  <2>1. Copied /\ KeptInv /\ (Calm => SlotInv /\ OwnerInv) /\ copy[sent] = "unused"
    BY <1>3, <1>8, <1>11 DEF FutureInv, OwnInv
  <2>2. copy' = [copy EXCEPT ![sent] = "used"] /\ tmp1' = sent
    BY <2>1 DEF Copied
  <2>3. sent \notin lost /\ \A i \in Slots : slot[i] # sent
    BY <2>1 DEF PointInv
  <2>4. (Calm' <=> Calm) /\ \A i \in Slots : Passed(i)' <=> Passed(i)
    BY DEF Calm, Passed
  <2>5. KeptInv'
    BY <1>8, <2>1, <2>2, <2>4 DEF KeptInv
  <2>6. ASSUME Calm PROVE SlotInv'
    BY <1>8, <2>1, <2>2, <2>3, <2>6 DEF SlotInv
  <2>7. ASSUME Calm PROVE OwnerInv'
    BY <2>1, <2>2, <2>3, <2>7 DEF OwnerInv
  <2> QED
    BY <2>4, <2>5, <2>6, <2>7
<1>12. OwnInv'
  BY <1>11 DEF OwnInv
<1> QED
  BY <1>4, <1>5, <1>6, <1>7, <1>9, <1>10, <1>12

\* The copy is stored.
LEMMA TxStoreStep == ASSUME IndInv, fault = "none", TxStore PROVE IndInv'
<1> USE DEF IndInv, TypeOK, CountInv, Copies, Garbage, Null
<1> DEFINE at == aseq % WINDOW_TX
<1>1. /\ apc = "store" /\ apc' = "free"
      /\ fault' = IF avmact = entry THEN "none" ELSE "entry"
      /\ slot' = IF tmp1 # Null THEN [slot EXCEPT ![at] = tmp1] ELSE slot
      /\ lost' = IF tmp1 # Null /\ Passed(at) THEN lost \cup {tmp1} ELSE lost
      /\ UNCHANGED <<entry, added, seq, failed, wrapped, timeout, cleanVars, copy, avmact, aseq,
                     tmp1, tmp2, sent, dackVars>>
  BY DEF TxStore, Touch
<1>2. at \in Slots /\ (aseq < WINDOW_TX => at = aseq)
  BY SlotUse
<1> HIDE DEF at
<1> USE <1>1, <1>2 DEF dackVars, cleanVars
<1>3. FlagsOK' /\ TypeOK'
  <2>1. FlagsOK'
    BY Zenon DEF FlagsOK
  <2> QED
    BY <2>1
<1>4. CountInv' /\ FutureInv' /\ PointInv' /\ GoneInv' /\ StoreInv'
  BY DEF FutureInv, PointInv, GoneInv, StoreInv, Regular, Calm
<1>5. /\ (Attached' <=> Attached) /\ (Regular' <=> Regular) /\ (Calm' <=> Calm)
      /\ \A i \in Slots : Passed(i)' <=> Passed(i)
  BY DEF Attached, Regular, Calm, Passed
<1>6. ASSUME Regular PROVE Stored = aseq /\ Stored' = aseq + 1 /\ seq = aseq + 1
  BY <1>6 DEF Stored, Regular
<1>7. ASSUME Regular
      PROVE  /\ slot' = [slot EXCEPT ![at] = tmp1] /\ tmp1 \in Copies
             /\ tmp2 = IF aseq >= WINDOW_TX THEN slot[at] ELSE Null
             /\ lost' = IF Passed(at) THEN lost \cup {tmp1} ELSE lost
             /\ \A i \in Slots : slot'[i] = IF i = at THEN tmp1 ELSE slot[i]
  <2>1. tmp1 \in Copies /\ tmp2 = IF aseq >= WINDOW_TX THEN slot[at] ELSE Null
    BY <1>7 DEF StoreInv, at
  <2> QED
    BY <2>1, ZeroFacts
<1>8. LoadInv'
  <2> SUFFICES ASSUME dpc = "copy", dvmact = entry, Attached, Regular, added = 1,
                      seq <= dle + WINDOW_TX
               PROVE  dptr = slot'[dle % WINDOW_TX] /\ dle < Stored'
    BY <1>5 DEF LoadInv
  <2>1. dptr = slot[dle % WINDOW_TX] /\ dle < aseq
    BY <1>6 DEF LoadInv
  <2>2. dle % WINDOW_TX # at
    <3>1. dle \in Nat /\ aseq \in Nat /\ dle < aseq /\ aseq < dle + WINDOW_TX
      BY <1>6, <2>1
    <3> QED
      BY ONLY <3>1, TxEntryAssumption, ModApart DEF at
  <2>3. dle % WINDOW_TX \in Slots
    BY SlotUse
  <2> QED
    BY <1>6, <1>7, <2>1, <2>2, <2>3
<1>9. ASSUME Attached, Regular PROVE KeptInv' /\ (Calm => SlotInv' /\ OwnerInv')
  <2> USE <1>6, <1>7, <1>9
  <2>1. KeptInv /\ (Calm => SlotInv /\ OwnerInv)
    BY DEF OwnInv
  <2>2. at < Stored' /\ \A i \in Slots : i < Stored' <=> (i < Stored \/ i = at)
    BY DEF Slots
  <2>3. \A i \in Slots : i >= Stored' => slot'[i] = Garbage
    BY <2>1, <2>2 DEF KeptInv, Slots
  <2>4. ASSUME NEW k \in Copies, copy[k] = "used"
        PROVE  k \in lost' \/ (\E i \in Slots : slot'[i] = k /\ ~Passed(i)') \/ tmp2 = k
    <3>1. CASE k = tmp1
      BY <1>5, <3>1
    <3>2. CASE k \in lost
      BY <3>2
    <3>3. CASE k # tmp1 /\ k \notin lost
      <4>1. PICK i \in Slots : slot[i] = k /\ ~Passed(i)
        BY <2>1, <2>4, <3>3 DEF KeptInv
      <4>2. CASE i = at
        <5>1. aseq >= WINDOW_TX
          BY <2>1, <4>1, <4>2, ZeroFacts DEF KeptInv, Slots
        <5> QED
          BY <4>1, <4>2, <5>1
      <4>3. CASE i # at
        BY <1>5, <4>1, <4>3
      <4> QED
        BY <4>2, <4>3
    <3> QED
      BY <3>1, <3>2, <3>3
  <2>5. KeptInv'
    BY <2>3, <2>4 DEF KeptInv
  <2>6. ASSUME Calm PROVE SlotInv' /\ OwnerInv'
    <3>1. SlotInv /\ OwnerInv /\ lost' = lost
      BY <2>1, <2>6 DEF Calm, Passed
    <3>2. copy[tmp1] = "used" /\ tmp1 \notin lost /\ \A i \in Slots : slot[i] # tmp1
      BY <3>1 DEF OwnerInv
    <3>3. \A i \in Slots : i < Stored' =>
             slot'[i] \in Copies /\ copy[slot'[i]] = "used" /\ slot'[i] \notin lost
      BY <2>2, <3>1, <3>2 DEF SlotInv
    <3>4. \A i, j \in Slots : (slot'[i] = slot'[j] /\ slot'[i] \in Copies) => i = j
      BY <3>1, <3>2 DEF SlotInv
    <3>5. ASSUME tmp2 # Null
          PROVE  /\ tmp2 \in Copies /\ copy[tmp2] = "used" /\ tmp2 \notin lost
                 /\ \A i \in Slots : slot'[i] # tmp2
      <4>1. aseq >= WINDOW_TX /\ tmp2 = slot[at]
        BY <3>5
      <4>2. at < Stored
        BY <4>1 DEF Slots
      <4>3. tmp2 \in Copies /\ copy[tmp2] = "used" /\ tmp2 \notin lost
        BY <3>1, <4>1, <4>2 DEF SlotInv
      <4> QED
        BY <3>1, <3>2, <4>1, <4>3 DEF SlotInv
    <3> QED
      BY <3>1, <3>3, <3>4, <3>5 DEF SlotInv, OwnerInv
  <2> QED
    BY <2>5, <2>6
<1>10. OwnInv'
  BY <1>5, <1>9 DEF OwnInv
<1> QED
  BY <1>3, <1>4, <1>8, <1>10

\* The replaced copy is freed.
LEMMA TxFreeStep == ASSUME IndInv, fault = "none", TxFree PROVE IndInv'
<1> USE DEF IndInv, TypeOK, CountInv, Copies, Garbage, Null
<1>1. /\ apc = "free" /\ apc' = "idle" /\ avmact' = 0 /\ aseq' = 0 /\ tmp1' = Null
      /\ tmp2' = Null /\ fault' \in {"none", "freed twice"}
      /\ copy' \in [Copies -> {"unused", "used", "freed"}]
      /\ \A k \in Copies : copy'[k] = IF k = tmp2 THEN "freed" ELSE copy[k]
      /\ UNCHANGED <<entryVars, timeout, cleanVars, sent, dackVars>>
  <2>1. CASE tmp2 \in {Null, Garbage} /\ UNCHANGED <<copy, fault>>
    BY <2>1, ZeroFacts DEF TxFree
  <2>2. CASE ~(tmp2 \in {Null, Garbage} /\ UNCHANGED <<copy, fault>>)
    BY <2>2 DEF TxFree
  <2> QED
    BY <2>1, <2>2
<1> USE <1>1 DEF entryVars, cleanVars, dackVars
<1>2. FlagsOK' /\ TypeOK'
  <2>1. FlagsOK'
    BY Zenon DEF FlagsOK
  <2>2. TypeOK /\ EntryType' /\ DackType' /\ CopyType' /\ FaultType'
    BY TypeParts, TypeSame DEF AllTypes, CopyType, FaultType
  <2>3. AppType'
    BY ONLY <1>1, <2>2, ZeroFacts, TypeParts DEF AllTypes, AppType, Pointers, Null
  <2> QED
    BY ONLY <2>1, <2>2, <2>3, TypeParts DEF AllTypes
<1>3. CountInv'
  BY DEF Calm
<1>4. FutureInv' /\ PointInv' /\ StoreInv'
  BY ZeroFacts DEF FutureInv, PointInv, StoreInv
<1>5. GoneInv'
  BY DEF GoneInv, Regular
<1>6. Stored' = Stored /\ (Attached' => entry # 0) /\ (Regular' <=> Regular)
  BY DEF Stored, Attached, Regular
<1>7. /\ Attached' => Attached
      /\ Calm' <=> Calm
      /\ \A i \in Slots : Passed(i)' <=> Passed(i)
  BY DEF Attached, Calm, Passed
<1>8. LoadInv'
  BY <1>6, <1>7 DEF LoadInv
<1>9. ASSUME Attached', Regular' PROVE KeptInv' /\ (Calm' => SlotInv' /\ OwnerInv')
  <2>1. KeptInv /\ (Calm => SlotInv /\ OwnerInv)
    BY <1>6, <1>7, <1>9 DEF OwnInv
  <2>2. KeptInv'
    BY <1>6, <1>7, <2>1 DEF KeptInv
  <2>3. ASSUME Calm PROVE SlotInv'
    <3>1. tmp2 # Null => \A i \in Slots : slot[i] # tmp2
      BY <2>1, <2>3 DEF OwnerInv
    <3>2. \A i \in Slots : slot[i] \in Copies => copy'[slot[i]] = copy[slot[i]]
      BY ZenonT(60), <3>1, ZeroFacts
    <3> QED
      BY <1>6, <2>1, <2>3, <3>2 DEF SlotInv
  <2>4. OwnerInv'
    BY DEF OwnerInv
  <2> QED
    BY <1>7, <2>2, <2>3, <2>4
<1>10. OwnInv'
  BY <1>9 DEF OwnInv
<1> QED
  BY <1>2, <1>3, <1>4, <1>5, <1>8, <1>10

\* A DACK arrives and finds the entry.
LEMMA DackFindStep == ASSUME IndInv, fault = "none", DackFind PROVE IndInv'
<1> USE DEF IndInv, TypeOK, CountInv, Copies, Garbage, Null, Stored, Attached,
        Regular, DackFind, entryVars, cleanVars, appVars, dackVars
<1>1. FlagsOK'
  BY Zenon DEF FlagsOK
<1>2. TypeOK'
  BY <1>1 DEF Pointers, Slots
<1>3. CountInv'
  BY DEF Calm
<1>4. PointInv'
  BY DEF PointInv, Slots
<1>5. FutureInv'
  BY DEF FutureInv
<1>6. GoneInv'
  BY DEF GoneInv
<1>7. LoadInv'
  BY DEF LoadInv
<1>8. OwnInv'
  BY OwnSame DEF Calm, Passed
<1>9. StoreInv'
  BY DEF StoreInv
<1> QED
  BY <1>2, <1>3, <1>4, <1>5, <1>6, <1>7, <1>8, <1>9

\* The DACK handler reads seq.
LEMMA DackSnapshotStep == ASSUME IndInv, fault = "none", DackSnapshot PROVE IndInv'
<1> USE DEF IndInv, TypeOK, CountInv, Copies, Garbage, Null, Stored, Attached,
        Regular, DackSnapshot, Touch, entryVars, cleanVars, appVars, dackVars
<1>1. FlagsOK'
  BY Zenon DEF FlagsOK
<1>2. TypeOK'
  BY <1>1 DEF Pointers, Slots
<1>3. CountInv'
  BY DEF Calm
<1>4. PointInv'
  BY DEF PointInv, Slots
<1>5. FutureInv'
  BY DEF FutureInv
<1>6. GoneInv'
  BY DEF GoneInv
<1>7. LoadInv'
  BY DEF LoadInv
<1>8. OwnInv'
  BY OwnSame DEF Calm, Passed
<1>9. StoreInv'
  BY DEF StoreInv
<1> QED
  BY <1>2, <1>3, <1>4, <1>5, <1>6, <1>7, <1>8, <1>9

\* The DACK handler reads a slot.
LEMMA DackLoadStep ==
    ASSUME IndInv, fault = "none", NEW l \in 0 .. U16 - 1, DackLoad(l)
    PROVE  IndInv'
<1> USE DEF IndInv, TypeOK, CountInv, Copies, Garbage, Null
<1> DEFINE Loaded == dpc' = "copy" /\ dle' = l /\ dptr' = slot[l % WINDOW_TX]
<1>1. /\ dpc = "scan" /\ AskedFor(l) /\ fault' \in {"none", "entry", "sent twice"}
      /\ Loaded \/ UNCHANGED <<dpc, dle, dptr>>
      /\ UNCHANGED <<entryVars, timeout, cleanVars, copy, appVars, dvmact, dseq, dskb2>>
  BY DEF DackLoad, Touch
<1> USE <1>1 DEF entryVars, cleanVars, appVars
<1>2. l % WINDOW_TX \in Slots /\ slot[l % WINDOW_TX] \in Pointers
  BY SlotUse
<1>3. FlagsOK' /\ TypeOK'
  <2>1. FlagsOK'
    BY Zenon DEF FlagsOK
  <2>2. TypeOK /\ EntryType' /\ AppType' /\ CopyType' /\ FaultType'
    BY TypeParts, TypeSame DEF AllTypes, FaultType
  <2>3. DackType'
    BY ONLY <1>1, <1>2, <2>2, TypeParts DEF AllTypes, DackType
  <2> QED
    BY ONLY <2>1, <2>2, <2>3, TypeParts DEF AllTypes
<1>4. CountInv' /\ FutureInv' /\ PointInv' /\ GoneInv' /\ StoreInv'
  BY DEF FutureInv, PointInv, GoneInv, StoreInv, Regular, Calm
<1>5. Stored' = Stored /\ (Attached' <=> Attached) /\ (Regular' <=> Regular)
  BY DEF Stored, Attached, Regular
<1>6. LoadInv'
  <2>1. CASE Loaded
    <3>1. (Regular /\ added = 1) => l < Stored
      <4>1. ~(1 > 1)
        BY ONLY TxEntryAssumption
      <4> QED
        BY ONLY <1>1, <4>1, Zenon DEF AskedFor, Stored, Regular
    <3>2. dptr' = slot'[dle' % WINDOW_TX] /\ dle' = l
      BY <2>1
    <3> HIDE DEF IndInv, Loaded
    <3> QED
      BY <1>5, <3>1, <3>2 DEF LoadInv
  <2>2. CASE UNCHANGED <<dpc, dle, dptr>>
    BY <1>5, <2>2 DEF LoadInv
  <2> QED
    BY <2>1, <2>2
<1>7. OwnInv'
  BY <1>5, OwnSame DEF Calm, Passed
<1> QED
  BY <1>3, <1>4, <1>6, <1>7

\* The DACK handler copies a frame.
LEMMA DackCopyStep == ASSUME IndInv, fault = "none", DackCopy PROVE IndInv'
<1> USE DEF IndInv, TypeOK, CountInv, Copies, Garbage, Null
<1>1. /\ dpc' = "scan" /\ dle' = 0 /\ dptr' = Null /\ dskb2' \in {"null", "sent"}
      /\ dpc = "copy" /\ fault' \in {"none", "entry", "copied freed"}
      /\ UNCHANGED <<entryVars, timeout, cleanVars, copy, appVars, dvmact, dseq>>
  BY DEF DackCopy, Touch
<1> USE <1>1 DEF entryVars, cleanVars, appVars
<1>2. FlagsOK' /\ TypeOK'
  <2>1. FlagsOK'
    BY Zenon DEF FlagsOK
  <2>2. TypeOK /\ EntryType' /\ AppType' /\ CopyType' /\ FaultType'
    BY TypeParts, TypeSame DEF AllTypes, FaultType
  <2>3. DackType'
    BY ONLY <1>1, <2>2, ZeroFacts, TypeParts DEF AllTypes, DackType, Pointers, Null
  <2> QED
    BY ONLY <2>1, <2>2, <2>3, TypeParts DEF AllTypes
<1>3. CountInv' /\ FutureInv' /\ PointInv' /\ GoneInv' /\ LoadInv' /\ StoreInv'
  BY DEF FutureInv, PointInv, GoneInv, StoreInv, Regular, LoadInv, Calm
<1>4. OwnInv'
  BY OwnSame DEF Attached, Regular, Stored, Calm, Passed
<1> QED
  BY <1>2, <1>3, <1>4

\* The DACK handler returns.
LEMMA DackDoneStep == ASSUME IndInv, fault = "none", DackDone PROVE IndInv'
<1> USE DEF IndInv, TypeOK, CountInv, Copies, Garbage, Null, Stored, Attached,
        Regular, DackDone, entryVars, cleanVars, appVars, dackVars
<1>1. FlagsOK'
  BY Zenon DEF FlagsOK
<1>2. TypeOK'
  BY <1>1 DEF Pointers, Slots
<1>3. CountInv'
  BY DEF Calm
<1>4. PointInv'
  BY DEF PointInv, Slots
<1>5. FutureInv'
  BY DEF FutureInv
<1>6. GoneInv'
  BY DEF GoneInv
<1>7. LoadInv'
  BY DEF LoadInv
<1>8. OwnInv'
  BY OwnSame DEF Calm, Passed
<1>9. StoreInv'
  BY DEF StoreInv
<1> QED
  BY <1>2, <1>3, <1>4, <1>5, <1>6, <1>7, <1>8, <1>9

\* The timeout is due.
LEMMA DueStep == ASSUME IndInv, fault = "none", Due PROVE IndInv'
<1> USE DEF IndInv, TypeOK, CountInv, Copies, Garbage, Null, Stored, Attached,
        Regular, Due, entryVars, cleanVars, appVars, dackVars
<1>1. FlagsOK'
  BY Zenon DEF FlagsOK
<1>2. TypeOK'
  BY <1>1 DEF Pointers, Slots
<1>3. CountInv'
  BY DEF Calm
<1>4. PointInv'
  BY DEF PointInv, Slots
<1>5. FutureInv'
  BY DEF FutureInv
<1>6. GoneInv'
  BY DEF GoneInv
<1>7. LoadInv'
  BY DEF LoadInv
<1>8. OwnInv'
  BY OwnSame DEF Calm, Passed
<1>9. StoreInv'
  BY DEF StoreInv
<1> QED
  BY <1>2, <1>3, <1>4, <1>5, <1>6, <1>7, <1>8, <1>9

\* The cleanup starts.
LEMMA ExpiresStep == ASSUME IndInv, fault = "none", Expires PROVE IndInv'
<1> USE DEF IndInv, TypeOK, CountInv, Copies, Garbage, Null, Stored, Attached,
        Regular, Expires, entryVars, cleanVars, appVars, dackVars
<1>1. FlagsOK'
  BY Zenon DEF FlagsOK
<1>2. TypeOK'
  BY <1>1 DEF Pointers, Slots
<1>3. CountInv'
  BY DEF Calm
<1>4. PointInv'
  BY DEF PointInv, Slots
<1>5. FutureInv'
  BY DEF FutureInv
<1>6. GoneInv'
  BY DEF GoneInv
<1>7. LoadInv'
  BY DEF LoadInv
<1>8. OwnInv'
  BY OwnSame DEF Calm, Passed
<1>9. StoreInv'
  BY DEF StoreInv
<1> QED
  BY <1>2, <1>3, <1>4, <1>5, <1>6, <1>7, <1>8, <1>9

\* A timer expires in freed memory.
LEMMA OrphanExpiresStep == ASSUME IndInv, fault = "none", OrphanExpires PROVE IndInv'
<1> USE DEF IndInv, TypeOK, CountInv, Copies, Garbage, Null, Stored, Attached,
        Regular, OrphanExpires, entryVars, cleanVars, appVars, dackVars
<1>1. FlagsOK'
  BY Zenon DEF FlagsOK
<1>2. TypeOK'
  BY <1>1 DEF Pointers, Slots
<1>3. CountInv'
  BY DEF Calm
<1>4. PointInv'
  BY DEF PointInv, Slots
<1>5. FutureInv'
  BY DEF FutureInv
<1>6. GoneInv'
  BY DEF GoneInv
<1>7. LoadInv'
  BY DEF LoadInv
<1>8. OwnInv'
  BY OwnSame DEF Calm, Passed
<1>9. StoreInv'
  BY DEF StoreInv
<1> QED
  BY <1>2, <1>3, <1>4, <1>5, <1>6, <1>7, <1>8, <1>9

\* The cleanup finds the entry.
LEMMA CleanFindStep == ASSUME IndInv, fault = "none", CleanFind PROVE IndInv'
<1> USE DEF IndInv, TypeOK, CountInv, Copies, Garbage, Null, Stored, Attached,
        Regular, CleanFind, entryVars, appVars, dackVars
<1>1. FlagsOK'
  BY Zenon DEF FlagsOK
<1>2. TypeOK' /\ cpc = "find" /\ cpc' = "loop" /\ ci' = 0
  BY <1>1 DEF Pointers, Slots, Calm
<1>3. CountInv'
  BY DEF Calm
<1>4. PointInv' /\ FutureInv' /\ StoreInv'
  BY DEF PointInv, FutureInv, StoreInv, Slots
<1>5. GoneInv'
  BY DEF GoneInv
<1>6. LoadInv'
  BY DEF LoadInv
<1>7. \A i \in Slots : ~Passed(i)'
  BY <1>2 DEF Passed, Slots
<1>8. KeptInv => KeptInv'
  BY <1>7 DEF KeptInv
<1>9. OwnInv'
  BY <1>2, <1>8 DEF OwnInv, Calm
<1> QED
  BY <1>2, <1>3, <1>4, <1>5, <1>6, <1>9

\* The cleanup frees the copy in one slot.
LEMMA CleanSlotStep == ASSUME IndInv, fault = "none", CleanSlot PROVE IndInv'
<1> USE DEF IndInv, TypeOK, CountInv, Copies, Garbage, Null
<1>1. /\ cpc = "loop" /\ ci' = ci + 1 /\ fault' \in {"none", "freed twice"}
      /\ UNCHANGED <<entryVars, timeout, orphan, cpc, appVars, dackVars>>
  BY DEF CleanSlot
<1>2. ci \in Slots /\ ci + 1 \in 0 .. WINDOW_TX
  <2>1. ci \in 0 .. WINDOW_TX /\ ci < Filled(seq) /\ seq \in 0 .. U16 - 1
    BY DEF CleanSlot
  <2> QED
    BY ONLY <2>1, TxEntryAssumption DEF Filled, Slots
<1>3. /\ copy' \in [Copies -> {"unused", "used", "freed"}]
      /\ \A k \in Copies : copy'[k] = IF k = slot[ci] THEN "freed" ELSE copy[k]
  <2>1. CASE slot[ci] = Garbage /\ UNCHANGED <<copy, fault>>
    BY <2>1, ZeroFacts
  <2>2. CASE copy' = [k \in Copies |-> IF k = slot[ci] THEN "freed" ELSE copy[k]]
    BY <2>2
  <2> QED
    BY <2>1, <2>2 DEF CleanSlot
<1> USE <1>1, <1>3 DEF entryVars, appVars, dackVars
<1>4. TypeOK'
  <2>1. FlagsOK'
    BY Zenon DEF FlagsOK
  <2>2. TypeOK /\ AppType' /\ DackType' /\ CopyType' /\ FaultType'
    BY TypeParts, TypeSame DEF AllTypes, CopyType, FaultType
  <2>3. EntryType'
    BY ONLY <1>1, <1>2, <2>2, TypeParts DEF AllTypes, EntryType, entryVars
  <2> QED
    BY ONLY <2>1, <2>2, <2>3, TypeParts DEF AllTypes
<1>5. CountInv' /\ StoreInv' /\ LoadInv'
  BY DEF Calm, StoreInv, LoadInv, Attached, Regular, Stored
<1>6. FutureInv' /\ PointInv'
  <2>1. \A k \in Copies : copy'[k] = "unused" <=> copy[k] = "unused"
    BY <1>2 DEF PointInv
  <2>2. \A k \in lost : k \in Copies
    OBVIOUS
  <2> QED
    BY <2>1, <2>2 DEF FutureInv, PointInv
<1>7. GoneInv'
  BY DEF GoneInv
<1>8. ASSUME Attached, Regular PROVE KeptInv'
  <2>1. KeptInv
    BY <1>8 DEF OwnInv
  <2>2. \A i \in Slots : ~Passed(i) /\ i # ci => ~Passed(i)'
    <3>1. cpc' = "loop" /\ ci' = ci + 1 /\ cpc = "loop"
      OBVIOUS
    <3>2. \A i \in Slots : ~(i < ci) /\ i # ci => ~(i < ci + 1)
      BY ONLY <1>2, TxEntryAssumption DEF Slots
    <3> QED
      BY ONLY <3>1, <3>2 DEF Passed
  <2>3. Stored' = Stored
    BY DEF Stored
  <2> QED
    BY <2>1, <2>2, <2>3 DEF KeptInv
<1>9. OwnInv'
  BY <1>8 DEF OwnInv, Attached, Regular, Calm
<1> QED
  BY <1>4, <1>5, <1>6, <1>7, <1>9

\* The cleanup has been at all slots below seq.
LEMMA CleanEndStep == ASSUME IndInv, fault = "none", CleanEnd PROVE IndInv'
<1> USE DEF IndInv, TypeOK, CountInv, Copies, Garbage, Null
<1>1. /\ cpc = "loop" /\ cpc' = "free" /\ ci >= Filled(seq)
      /\ UNCHANGED <<entryVars, timeout, orphan, ci, copy, appVars, dackVars, fault>>
  BY DEF CleanEnd
<1> USE <1>1 DEF entryVars, appVars, dackVars
<1>2. TypeOK'
  <2>1. FlagsOK'
    BY Zenon DEF FlagsOK
  <2> QED
    BY <2>1
<1>3. CountInv' /\ StoreInv' /\ LoadInv'
  BY DEF Calm, StoreInv, LoadInv, Attached, Regular, Stored
<1>4. FutureInv' /\ PointInv'
  BY DEF FutureInv, PointInv
<1>5. GoneInv'
  BY DEF GoneInv
<1>6. ASSUME Attached, Regular PROVE KeptInv'
  <2>1. KeptInv /\ Stored' = Stored
    BY <1>6 DEF OwnInv, Stored
  <2>2. Stored \in Nat /\ Stored <= seq
    BY <1>6 DEF Stored, Regular
  <2>3. \A i \in Slots : ~Passed(i) => i >= Stored
    BY <2>2 DEF Passed, Filled, Slots
  <2>4. \A i \in Slots : ~Passed(i) => slot[i] \notin Copies
    BY <2>1, <2>3, ZeroFacts DEF KeptInv
  <2> QED
    BY <2>1, <2>4 DEF KeptInv
<1>7. OwnInv'
  BY <1>6 DEF OwnInv, Attached, Regular, Calm
<1> QED
  BY <1>2, <1>3, <1>4, <1>5, <1>7

\* The cleanup frees the entry.
LEMMA CleanFreeStep == ASSUME IndInv, fault = "none", CleanFree PROVE IndInv'
<1> USE DEF IndInv, TypeOK, CountInv, Copies, Garbage, Null
<1>1. /\ cpc = "free" /\ cpc' = "idle" /\ ci' = 0 /\ entry' = 0 /\ timeout' = "off"
      /\ UNCHANGED <<added, seq, slot, failed, wrapped, lost, copy, appVars, dackVars, fault>>
  BY DEF CleanFree
<1>2. FlagsOK'
  BY Zenon DEF CleanFree, FlagsOK
<1> USE <1>1 DEF appVars, dackVars
<1>3. TypeOK'
  BY <1>2, ZeroFacts
<1>4. CountInv' /\ StoreInv'
  BY ZeroFacts DEF Calm, StoreInv, Regular
<1>5. FutureInv' /\ PointInv'
  BY DEF FutureInv, PointInv
<1>6. LoadInv' /\ ~Attached'
  BY DEF LoadInv, Attached
<1>7. GoneInv'
  <2> SUFFICES ASSUME Regular, apc \in {"idle", "arm", "free"},
                      NEW k \in Copies, copy[k] = "used", k \notin lost
               PROVE  apc = "free" /\ k = tmp2
    BY DEF GoneInv, Regular
  <2>1. KeptInv
    BY DEF OwnInv, Attached
  <2> QED
    BY <2>1 DEF KeptInv, Passed
<1>8. OwnInv'
  BY <1>6 DEF OwnInv
<1> QED
  BY <1>3, <1>4, <1>5, <1>6, <1>7, <1>8

-----------------------------------------------------------------------------
(* The inductive invariant *)

\* The invariant holds before the first frame.
LEMMA InitIndInv == Init => IndInv
<1> SUFFICES ASSUME Init PROVE IndInv
  OBVIOUS
<1>1. FlagsOK
  BY Zenon DEF Init, FlagsOK
<1>2. TypeOK
  BY <1>1, ZeroFacts DEF Init, TypeOK, Copies, Garbage, Null, Pointers, Slots
<1>3. CountInv
  BY DEF Init, CountInv, Calm
<1>4. FutureInv /\ PointInv /\ GoneInv /\ LoadInv /\ StoreInv
  BY ZeroFacts DEF Init, FutureInv, PointInv, GoneInv, LoadInv, StoreInv, Copies, Garbage, Null
<1>5. OwnInv
  BY DEF Init, Attached, OwnInv
<1> QED
  BY <1>2, <1>3, <1>4, <1>5 DEF IndInv

\* Every step of the three threads keeps the invariant.
LEMMA NextIndInv == IndInv /\ [Next]_vars => IndInv'
<1> SUFFICES ASSUME IndInv, [Next]_vars PROVE IndInv'
  OBVIOUS
<1>1. CASE Next
  BY <1>1, TxFindStep, TxArmStep, TxNumberStep, TxCopyStep, TxStoreStep, TxFreeStep,
     DackFindStep, DackSnapshotStep, DackLoadStep, DackCopyStep, DackDoneStep,
     DueStep, ExpiresStep, OrphanExpiresStep,
     CleanFindStep, CleanSlotStep, CleanEndStep, CleanFreeStep
  DEF Next
<1>2. CASE UNCHANGED vars
  <2> USE <1>2 DEF vars, entryVars, cleanVars, appVars, dackVars
  <2>1. TypeOK'
    <3>1. FlagsOK'
      BY Zenon DEF FlagsOK, TypeOK, IndInv
    <3>2. TypeOK /\ (FaultType' <=> FaultType)
      BY DEF IndInv, FaultType
    <3> QED
      BY <3>1, <3>2, TypeParts, TypeSame DEF AllTypes
  <2>2. CountInv' /\ FutureInv' /\ PointInv' /\ StoreInv'
    BY Zenon DEF CountInv, FutureInv, PointInv, StoreInv, IndInv, Regular, Calm
  <2>3. (Attached' <=> Attached) /\ (Regular' <=> Regular) /\ Stored' = Stored
    BY Zenon DEF Attached, Regular, Stored
  <2>4. GoneInv'
    BY <2>3 DEF GoneInv, IndInv
  <2>5. LoadInv'
    BY <2>3 DEF LoadInv, IndInv
  <2>6. OwnInv'
    BY <2>3, OwnSame DEF IndInv, Calm, Passed
  <2> QED
    BY <2>1, <2>2, <2>4, <2>5, <2>6 DEF IndInv
<1> QED
  BY <1>1, <1>2

\* The conjuncts of IndInv hold in every reachable state.
THEOREM Inductive == Spec => []IndInv
  BY InitIndInv, NextIndInv, PTL DEF Spec

-----------------------------------------------------------------------------
(* The properties *)

(***************************************************************************)
(* Types: among others, seq stays a u16 and the slots hold pointers to     *)
(* copies or what vmalloc left (TypeOK).                                   *)
(***************************************************************************)
THEOREM TypeCorrect == Spec => []TypeOK
  BY Inductive, PTL DEF IndInv

\* The set of owners of a copy in use has one element.
LEMMA OneElement == ASSUME NEW S, NEW x \in S, \A y \in S : y = x PROVE Cardinality(S) = 1
<1>1. S = {x}
  OBVIOUS
<1> QED
  BY <1>1, FS_Singleton

\* What the invariant says of copies is what CopyHasOneOwner counts.
LEMMA OwnersCounted == IndInv => CopyHasOneOwner
<1> SUFFICES ASSUME IndInv, Settled, entry # 0, Regular, NEW k \in Copies
             PROVE  Cardinality(Owners(k)) = (IF copy[k] = "used" /\ k \notin lost THEN 1 ELSE 0)
  BY DEF CopyHasOneOwner, Regular
<1>1. /\ KeptInv /\ SlotInv /\ OwnerInv
      /\ apc = "store" => tmp1 \in Copies
  BY DEF IndInv, OwnInv, StoreInv, Settled, Attached, Calm
<1>2. k # Null /\ k # Garbage
  BY ZeroFacts DEF Copies, Null, Garbage, Slots
<1>3. ASSUME copy[k] # "used" \/ k \in lost PROVE Owners(k) = {}
  <2>1. \A i \in Slots : slot[i] # k
    <3>1. Stored \in Nat /\ \A i \in Slots : i < Stored \/ i >= Stored
      BY NumFacts DEF Stored, IndInv
    <3> QED
      BY <1>1, <1>2, <1>3, <3>1 DEF KeptInv, SlotInv
  <2> QED
    BY <1>1, <1>2, <1>3, <2>1 DEF OwnerInv, Owners
<1>4. ASSUME copy[k] = "used", k \notin lost PROVE \E x \in Owners(k) : \A y \in Owners(k) : y = x
  <2>1. CASE \E i \in Slots : slot[i] = k
    <3>1. PICK i \in Slots : slot[i] = k
      BY <2>1
    <3>2. ~(apc = "store" /\ tmp1 = k) /\ ~(apc = "free" /\ tmp2 = k)
      BY <1>1, <1>2, <3>1 DEF OwnerInv
    <3>3. \A j \in Slots : slot[j] = k => j = i
      BY <1>1, <3>1 DEF SlotInv
    <3> QED
      BY <3>1, <3>2, <3>3 DEF Owners
  <2>2. CASE apc = "store" /\ tmp1 = k
    <3>1. \A i \in Slots : slot[i] # k
      BY <1>1, <2>2 DEF OwnerInv
    <3> QED
      BY <2>2, <3>1 DEF Owners
  <2>3. CASE apc = "free" /\ tmp2 = k
    <3>1. \A i \in Slots : slot[i] # k
      BY <1>1, <1>2, <2>3 DEF OwnerInv
    <3> QED
      BY <2>3, <3>1 DEF Owners
  <2> QED
    BY <1>1, <1>4, <2>1, <2>2, <2>3 DEF KeptInv
<1> QED
  BY <1>3, <1>4, OneElement, FS_EmptySet

(***************************************************************************)
(* Every copy that vmac_tx made and nobody freed is in one slot, or with   *)
(* the vmac_tx that is about to store or to free it, and in one place      *)
(* only, as long as no skb_copy failed and seq did not start over.  The    *)
(* exceptions are copies stored in an earlier entry in a slot that its     *)
(* cleanup had passed: they are in no place (CopyHasOneOwner).             *)
(***************************************************************************)
THEOREM OneOwner == Spec => []CopyHasOneOwner
  BY Inductive, OwnersCounted, PTL

(***************************************************************************)
(* __cleanup_tx, which frees slot by slot while vmac_tx numbers and stores *)
(* frames, leaves no copy behind but those stored in a slot it had passed  *)
(* (NothingLeftBehind).                                                    *)
(***************************************************************************)
THEOREM NoCopyLeft == Spec => []NothingLeftBehind
<1>1. IndInv => NothingLeftBehind
  BY DEF IndInv, GoneInv, Regular, NothingLeftBehind
<1> QED
  BY <1>1, Inductive, PTL

\* What the DACK handler loaded, and still finds in its slot, is in use.
LEMMA LoadedIntact == IndInv => CopyIntact
<1> SUFFICES ASSUME IndInv, dpc = "copy", dvmact = entry, Settled, Regular, added = 1
             PROVE  Usable(dptr) \/ seq > dle + WINDOW_TX
  BY DEF CopyIntact, Regular
<1> DEFINE at == dle % WINDOW_TX
<1>1. Attached
  BY DEF Settled, Attached, IndInv, CountInv
<1>2. SlotInv /\ at \in Slots /\ (dle < WINDOW_TX => at = dle)
  BY <1>1, SlotUse DEF IndInv, OwnInv, Settled, Calm
<1>3. CASE dptr = slot[at] /\ dle < Stored
  <2>1. at < Stored
    <3>1. dle \in Nat /\ at \in Nat /\ at <= dle
      BY <1>2, NumFacts DEF IndInv, Slots
    <3> QED
      BY <1>3, <3>1, NumFacts DEF Stored, IndInv
  <2> QED
    BY <1>2, <1>3, <2>1 DEF SlotInv, Usable
<1>4. CASE seq > dle + WINDOW_TX
  BY <1>4
<1> QED
  BY <1>1, <1>3, <1>4 DEF IndInv, LoadInv

(***************************************************************************)
(* The frame that the DACK handler is about to copy, without a lock, is    *)
(* still there unless vmac_tx has numbered the frame that replaces it or   *)
(* the entry is being freed (CopyIntact).                                  *)
(***************************************************************************)
THEOREM CopyStaysIntact == Spec => []CopyIntact
  BY Inductive, LoadedIntact, PTL
=============================================================================
