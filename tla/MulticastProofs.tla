-------------------------- MODULE MulticastProofs ---------------------------
(***************************************************************************)
(* Proofs about Multicast, for any number of consumers, any sizes that     *)
(* satisfy its assumptions and any stream shorter than the range of seq.   *)
(***************************************************************************)
EXTENDS MulticastNoWrap, RxWindowProofs

\* Sequence numbers are payload indices: the counter does not wrap below U16.
SeqInv ==
    /\ seq = sent
    /\ tx # NoFrame => sent > 0 /\ tx.seq = sent - 1 /\ tx.id = sent - 1

\* The buffer holds the last WINDOW_TX transmitted frames, each in its slot.
BufInv ==
    /\ \A k \in Slots : buf[k] # NoFrame =>
          /\ buf[k].seq = buf[k].id
          /\ buf[k].id % WINDOW_TX = k
          /\ buf[k].id < Transmitted
          /\ Transmitted <= buf[k].id + WINDOW_TX
    /\ \A n \in Nat : n < Transmitted => buf[n % WINDOW_TX] # NoFrame

\* A frame copied for retransmission is at most WINDOW frames behind the newest.
CopyInv ==
    /\ dpc = "send" => skb2 # NoFrame
    /\ skb2 # NoFrame =>
          /\ skb2.seq = skb2.id
          /\ skb2.id < Transmitted
          /\ at <= skb2.id + WINDOW_TX
          /\ Transmitted <= at + LAG

\* Nobody asks for a frame that was not transmitted.
HolesInv ==
    /\ \A c \in Consumers : \A h \in dack[c].holes : h.re < Transmitted
    /\ \A i \in 1 .. Len(dackq) : \A h \in dackq[i].holes : h.re < Transmitted
    /\ \A h \in holes : h.re < Transmitted
    /\ dpc \in {"scan", "send"} => re < Transmitted

(***************************************************************************)
(* No frame on the air is WINDOW or more behind one that travels ahead of  *)
(* it, or behind what its receiver has seen.                               *)
(***************************************************************************)
AirInv ==
    \A c \in Consumers :
        /\ \A i \in 1 .. Len(air[c]) :
              /\ air[c][i].seq = air[c][i].id
              /\ air[c][i].id < Transmitted
              /\ live[c] => latest[c] < air[c][i].id + WINDOW
        /\ \A i, j \in 1 .. Len(air[c]) : i < j => air[c][i].id < air[c][j].id + WINDOW
        /\ live[c] => latest[c] = 0 \/ latest[c] < Transmitted

\* The window is exact for the payloads it covers (but for cell 0 at first).
WindowInv ==
    \A c \in Consumers : live[c] =>
        \A n \in Ids :
            /\ copies[c][n] <= 1
            /\ n > latest[c] => copies[c][n] = 0
            /\ (n <= latest[c] /\ latest[c] < n + WINDOW) =>
                  /\ copies[c][n] = 1 => window[c][Slot(n)] = 1
                  /\ n # 0 /\ window[c][Slot(n)] = 1 => copies[c][n] = 1

\* Nothing that vmalloc left is read from the cell of a payload the window covers.
KnownInv ==
    \A c \in Consumers : live[c] =>
        \A n \in Ids \ {0} :
            (n <= latest[c] /\ latest[c] < n + WINDOW) => window[c][Slot(n)] \in {0, 1}

\* The last accepted frame is marked in the window.
LastInv ==
    \A c \in Consumers :
        live[c] /\ firstFrame[c] # 0 => Duplicate(window[c], latest[c], lastin[c])

IndInv ==
    /\ TypeOK /\ SeqInv /\ BufInv /\ CopyInv /\ HolesInv
    /\ AirInv /\ WindowInv /\ KnownInv /\ LastInv /\ DackEveryBurst

USE WindowAssumption, MulticastAssumption, NoWrapAssumption

-----------------------------------------------------------------------------
(* Type correctness *)

\* Every sequence number has a slot of the retransmission buffer.
LEMMA SlotTx == ASSUME NEW n \in Nat PROVE n % WINDOW_TX \in Slots
  BY DivMod DEF Slots

\* NULL is not a frame.
LEMMA NoFrameType == NoFrame \notin Frames
  BY DEF Frames, NoFrame

\* What is not assigned keeps its type.
LEMMA TxUnchanged == TxType /\ UNCHANGED txVars => TxType'
  BY DEF TxType, txVars

\* The same for the locals of the DACK handler.
LEMMA HandlerUnchanged == HandlerType /\ UNCHANGED dackVars => HandlerType'
  BY DEF HandlerType, dackVars

\* The same for the entries of the consumers.
LEMMA RxUnchanged == RxType /\ UNCHANGED rxVars => RxType'
  BY DEF RxType, rxVars

\* The same for what is pending or on the air.
LEMMA RadioUnchanged == RadioType /\ UNCHANGED <<dack, air, dackq>> => RadioType'
  BY DEF RadioType

\* A queue stays a queue when its head is taken.
LEMMA TailAir ==
    ASSUME RadioType, NEW c \in Consumers, air[c] # << >>
    PROVE  /\ Head(air[c]) \in Frames
           /\ [air EXCEPT ![c] = Tail(air[c])] \in [Consumers -> Seq(Frames)]
<1>1. air[c] \in Seq(Frames)
  BY DEF RadioType
<1>2. Tail(air[c]) \in Seq(Frames) /\ Head(air[c]) \in Frames
  BY <1>1
<1> QED
  BY <1>2 DEF RadioType

\* The initial state is well typed.
LEMMA InitType == Init => TypeOK
<1> SUFFICES ASSUME Init PROVE TypeOK
  OBVIOUS
<1>1. TxType
  BY DEF Init, TxType
<1>2. HandlerType
  BY DEF Init, HandlerType
<1>3. RxType
  BY DEF Init, RxType, Nothing
<1>4. RadioType
  BY DEF Init, RadioType, Dacks, NoDack
<1> QED
  BY <1>1, <1>2, <1>3, <1>4 DEF TypeOK

\* The steps of vmac_tx.
LEMMA TypeTx == ASSUME TypeOK, TxSeq \/ TxStore PROVE TypeOK'
<1>1. CASE TxSeq
  <2>1. TxType'
    BY <1>1, SlotTx DEF TypeOK, TxType, TxSeq, Frames, Ids
  <2> QED
    BY <1>1, <2>1, HandlerUnchanged, RxUnchanged, RadioUnchanged DEF TypeOK, TxSeq
<1>2. CASE TxStore
  <2>1. tx \in Frames /\ tx.seq % WINDOW_TX \in Slots
    BY <1>2, SlotTx DEF TypeOK, TxType, TxStore, Frames
  <2>2. TxType'
    BY <1>2, <2>1 DEF TypeOK, TxType, TxStore, StoreSlot
  <2>3. RadioType'
    BY <1>2, <2>1 DEF TypeOK, RadioType, TxStore
  <2> QED
    BY <1>2, <2>2, <2>3, HandlerUnchanged, RxUnchanged DEF TypeOK, TxStore
<1> QED
  BY <1>1, <1>2

\* The steps of the DACK handler.
LEMMA TypeHandler ==
    ASSUME TypeOK, SeqInv, CopyInv,
           RecvDack \/ NextHole \/ DackDone \/ HoleDone \/ SkipFrame \/ CopyFrame \/ SendFrame
    PROVE  TypeOK'
<1>1. CASE RecvDack
  <2>1. Head(dackq) \in Dacks /\ Tail(dackq) \in Seq(Dacks)
    BY <1>1 DEF TypeOK, RadioType, RecvDack
  <2>2. HandlerType'
    BY <1>1, <2>1 DEF TypeOK, TxType, HandlerType, RecvDack, Dacks
  <2>3. RadioType'
    BY <1>1, <2>1 DEF TypeOK, RadioType, RecvDack
  <2> QED
    BY <1>1, <2>2, <2>3, TxUnchanged, RxUnchanged DEF TypeOK, RecvDack
<1>2. CASE NextHole
  <2>1. HandlerType'
    <3>1. PICK h \in holes : le' = h.le /\ re' = h.re /\ holes' = holes \ {h}
      BY <1>2 DEF NextHole
    <3>2. h \in Hole /\ holes' \in SUBSET Hole
      BY <3>1 DEF TypeOK, HandlerType
    <3>3. le' \in Nat /\ re' \in Nat
      BY <3>1, <3>2 DEF Hole
    <3> QED
      BY <1>2, <3>2, <3>3 DEF TypeOK, HandlerType, NextHole
  <2> QED
    BY <1>2, <2>1, TxUnchanged, RxUnchanged, RadioUnchanged DEF TypeOK, NextHole
<1>3. CASE DackDone
  <2>1. HandlerType'
    BY <1>3 DEF TypeOK, HandlerType, DackDone
  <2> QED
    BY <1>3, <2>1, TxUnchanged, RxUnchanged, RadioUnchanged DEF TypeOK, DackDone
<1>4. CASE HoleDone
  <2>1. HandlerType'
    BY <1>4 DEF TypeOK, HandlerType, HoleDone
  <2> QED
    BY <1>4, <2>1, TxUnchanged, RxUnchanged, RadioUnchanged DEF TypeOK, HoleDone
<1>5. CASE SkipFrame
  <2>1. HandlerType'
    BY <1>5 DEF TypeOK, HandlerType, SkipFrame
  <2> QED
    BY <1>5, <2>1, TxUnchanged, RxUnchanged, RadioUnchanged DEF TypeOK, SkipFrame
<1>6. CASE CopyFrame
  <2>1. le % WINDOW_TX \in Slots
    BY SlotTx DEF TypeOK, HandlerType
  <2>2. timer' \in [Slots -> 0 .. U8 - 1]
    BY <1>6, <2>1, DivMod DEF TypeOK, TxType, HandlerType, CopyFrame, Pace
  <2>3. TxType'
    BY <1>6, <2>2 DEF TypeOK, TxType, CopyFrame
  <2>4. Transmitted \in 0 .. MAXSEND
    BY DEF TypeOK, TxType, Transmitted, SeqInv
  <2>5. skb2' \in Frames \cup {NoFrame}
    BY <1>6, <2>1 DEF TypeOK, TxType, HandlerType, CopyFrame
  <2>6. HandlerType'
    <3>1. counter' \in 0 .. MAXRETX /\ at' \in 0 .. MAXSEND
      BY <1>6, <2>4 DEF TypeOK, HandlerType, CopyFrame
    <3>2. dpc' \in {"scan", "send"} /\ le' \in Nat /\ fresh' \in {0, 1}
      BY <1>6 DEF TypeOK, HandlerType, CopyFrame
    <3> QED
      BY <1>6, <2>5, <3>1, <3>2 DEF TypeOK, HandlerType, CopyFrame
  <2> QED
    BY <1>6, <2>3, <2>6, RxUnchanged, RadioUnchanged DEF TypeOK, CopyFrame
<1>7. CASE SendFrame
  <2>1. HandlerType'
    BY <1>7 DEF TypeOK, HandlerType, SendFrame
  <2>2. RadioType'
    <3>1. skb2 \in Frames
      BY <1>7 DEF TypeOK, HandlerType, SendFrame, CopyInv
    <3>2. CASE air' = [c \in Consumers |-> Append(air[c], skb2)]
      <4>1. \A c \in Consumers : Append(air[c], skb2) \in Seq(Frames)
        BY <3>1 DEF TypeOK, RadioType
      <4> QED
        BY <1>7, <3>2, <4>1 DEF TypeOK, RadioType, SendFrame
    <3>3. CASE air' = air
      BY <1>7, <3>3 DEF TypeOK, RadioType, SendFrame
    <3> QED
      BY <1>7, <3>2, <3>3 DEF SendFrame
  <2> QED
    BY <1>7, <2>1, <2>2, TxUnchanged, RxUnchanged DEF TypeOK, SendFrame
<1> QED
  BY <1>1, <1>2, <1>3, <1>4, <1>5, <1>6, <1>7

\* What a consumer accepts, given that it is at most WINDOW - 1 behind.
LEMMA AcceptHead ==
    ASSUME TypeOK, AirInv, NEW c \in Consumers, live[c], air[c] # << >>
    PROVE  /\ Head(air[c]) \in Frames /\ Head(air[c]) = air[c][1]
           /\ Len(air[c]) \in Nat /\ 1 \in 1 .. Len(air[c])
           /\ Head(air[c]).seq \in Nat /\ Head(air[c]).seq < U16
           /\ Head(air[c]).id \in Ids
           /\ Head(air[c]).seq = Head(air[c]).id
           /\ latest[c] < Head(air[c]).seq + WINDOW
           /\ latest[c] \in Nat /\ latest[c] < U16
           /\ window[c] \in Windows
<1>1. air[c] \in Seq(Frames)
  BY DEF TypeOK, RadioType
<1>2. /\ Head(air[c]) \in Frames /\ Head(air[c]) = air[c][1]
      /\ Len(air[c]) \in Nat /\ 1 \in 1 .. Len(air[c])
  BY <1>1
<1>3. Head(air[c]).seq \in Nat /\ Head(air[c]).seq < U16 /\ Head(air[c]).id \in Ids
  BY <1>2 DEF Frames
<1>4. Head(air[c]).seq = Head(air[c]).id /\ latest[c] < Head(air[c]).id + WINDOW
  BY <1>2 DEF AirInv
<1>5. latest[c] \in Nat /\ latest[c] < U16 /\ window[c] \in Windows
  BY DEF TypeOK, RxType
<1> QED
  BY <1>2, <1>3, <1>4, <1>5

\* The DACK prepDACK builds for frame s names only holes below s.
LEMMA NewDackType ==
    ASSUME NEW c, NEW s \in Nat
    PROVE  /\ NewDack(c, s) \in Dacks
           /\ \A h \in NewDack(c, s).holes : h.re < s
<1> DEFINE r == s \div BURST
<1>1. r \in Nat /\ r * BURST \in Nat /\ r * BURST <= s
  BY BurstFloor
<1> HIDE DEF r
<1>2. \A h \in DackHoles(window'[c], r * BURST) : h \in Hole /\ h.re < r * BURST
  BY <1>1, HolesBelow DEF Hole
<1>3. \A h \in DackHoles(window'[c], r * BURST) : h.re < s
  BY <1>1, <1>2 DEF Hole
<1>4. NewDack(c, s) = [round |-> r, holes |-> DackHoles(window'[c], r * BURST)]
  BY DEF NewDack, r
<1> QED
  BY <1>1, <1>2, <1>3, <1>4 DEF Dacks

\* The steps of a consumer and of the radio.
LEMMA TypeConsumer ==
    ASSUME TypeOK, AirInv, NEW c \in Consumers, Consumer(c) PROVE TypeOK'
<1>1. CASE Interest(c)
  <2>1. RxType'
    BY <1>1 DEF TypeOK, RxType, Interest, Nothing
  <2>2. RadioType'
    BY <1>1 DEF TypeOK, RadioType, Interest, NoDack, Dacks
  <2> QED
    BY <1>1, <2>1, <2>2, TxUnchanged, HandlerUnchanged DEF TypeOK, Interest
<1>2. CASE Expire(c)
  <2>1. RxType'
    BY <1>2 DEF TypeOK, RxType, Expire
  <2> QED
    BY <1>2, <2>1, TxUnchanged, HandlerUnchanged, RadioUnchanged DEF TypeOK, Expire
<1>3. CASE RecvDrop(c) \/ LoseData(c)
  <2>1. RadioType'
    BY <1>3, TailAir DEF TypeOK, RadioType, RecvDrop, LoseData
  <2> QED
    BY <1>3, <2>1, TxUnchanged, HandlerUnchanged, RxUnchanged
       DEF TypeOK, RecvDrop, LoseData
<1>4. CASE RecvAccept(c)
  <2> DEFINE f == Head(air[c])
             s == f.seq
  <2>1. air[c] # << >> /\ live[c]
    BY <1>4 DEF RecvAccept
  <2>2. /\ s \in 0 .. U16 - 1 /\ s \in Nat /\ f.id \in Ids
        /\ latest[c] < s + WINDOW /\ latest[c] \in 0 .. U16 - 1 /\ window[c] \in Windows
    BY <2>1, AcceptHead
  <2>3. Accept(window[c], latest[c], s) \in Windows
        /\ NewLatest(latest[c], s) \in 0 .. U16 - 1
    BY <2>2, AcceptWindow DEF NewLatest
  <2>4. /\ window' = [window EXCEPT ![c] = Accept(window[c], latest[c], s)]
        /\ latest' = [latest EXCEPT ![c] = NewLatest(latest[c], s)]
        /\ lastin' = [lastin EXCEPT ![c] = s]
        /\ copies' = [copies EXCEPT ![c][f.id] = copies[c][f.id] + 1]
        /\ live' = live
    BY <1>4 DEF RecvAccept
  <2>5. NewDack(c, s) \in Dacks
    BY <2>2, NewDackType
  <2>6. /\ round' = [round EXCEPT ![c] = s] \/ round' = round
        /\ dack' = [dack EXCEPT ![c] = NewDack(c, s)] \/ dack' = [dack EXCEPT ![c] = dack[c]]
           \/ dack' = dack
    BY <1>4 DEF RecvAccept
  <2>7. firstFrame' \in [Consumers -> {0, 1}] /\ SecondFrame' \in [Consumers -> {0, 1}]
    BY <1>4 DEF RecvAccept, TypeOK, RxType
  <2>8. air' \in [Consumers -> Seq(Frames)]
    BY <1>4, <2>1, TailAir DEF RecvAccept, TypeOK
  <2> HIDE DEF s, f
  <2>9. dack' \in [Consumers -> Dacks] /\ dackq' = dackq
    BY ZenonT(60), <1>4, <2>5, <2>6 DEF TypeOK, RadioType, RecvAccept
  <2>10. copies' \in [Consumers -> [Ids -> Nat]]
    <3>1. copies[c] \in [Ids -> Nat]
      BY DEF TypeOK, RxType
    <3>2. [copies[c] EXCEPT ![f.id] = copies[c][f.id] + 1] \in [Ids -> Nat]
      BY <2>2, <3>1
    <3> QED
      BY <2>4, <3>2 DEF TypeOK, RxType
  <2>11. RxType'
    BY <2>2, <2>3, <2>4, <2>6, <2>7, <2>10 DEF TypeOK, RxType
  <2>12. RadioType'
    BY <2>8, <2>9 DEF TypeOK, RadioType
  <2> QED
    BY <1>4, <2>11, <2>12, TxUnchanged, HandlerUnchanged DEF TypeOK, RecvAccept
<1>5. CASE SendDack(c)
  <2>1. RadioType'
    BY <1>5 DEF TypeOK, RadioType, SendDack, NoDack, Dacks
  <2> QED
    BY <1>5, <2>1, TxUnchanged, HandlerUnchanged, RxUnchanged DEF TypeOK, SendDack
<1> QED
  BY <1>1, <1>2, <1>3, <1>4, <1>5 DEF Consumer

\* The radio loses a DACK.
LEMMA TypeLoseDack == ASSUME TypeOK, LoseDack PROVE TypeOK'
<1>1. RadioType'
  BY DEF TypeOK, RadioType, LoseDack
<1> QED
  BY <1>1, TxUnchanged, HandlerUnchanged, RxUnchanged DEF TypeOK, LoseDack

-----------------------------------------------------------------------------
(* The invariant is preserved *)

\* The steps one by one.
LEMMA NextCases ==
    ASSUME [Next]_vars
    PROVE  \/ TxSeq \/ TxStore
           \/ RecvDack \/ NextHole \/ DackDone \/ HoleDone \/ SkipFrame \/ CopyFrame
           \/ SendFrame \/ LoseDack
           \/ \E c \in Consumers : Consumer(c)
           \/ UNCHANGED vars
  BY DEF Next, Producer

\* Only vmac_tx numbers, stores or first transmits a frame.
LEMMA TxFrameSame ==
    ASSUME [Next]_vars, ~TxSeq, ~TxStore
    PROVE  UNCHANGED <<seq, tx, sent, buf>>
  BY NextCases DEF RecvDack, NextHole, DackDone, HoleDone, SkipFrame, CopyFrame,
     SendFrame, LoseDack, Consumer, Interest, Expire, RecvDrop, RecvAccept, SendDack,
     LoseData, vars, txVars

\* TxStore transmits frame number Transmitted; no other step changes Transmitted.
LEMMA TransmittedStep ==
    ASSUME TypeOK, SeqInv, [Next]_vars
    PROVE  /\ Transmitted \in Nat /\ Transmitted <= sent
           /\ TxStore => /\ Transmitted' = Transmitted + 1
                         /\ tx \in Frames /\ tx.seq = Transmitted /\ tx.id = Transmitted
           /\ ~TxStore => Transmitted' = Transmitted
<1>1. Transmitted \in Nat /\ Transmitted <= sent
  BY DEF TypeOK, TxType, SeqInv, Transmitted
<1>2. ASSUME TxStore
      PROVE  /\ Transmitted' = Transmitted + 1
             /\ tx \in Frames /\ tx.seq = Transmitted /\ tx.id = Transmitted
  BY <1>2 DEF TypeOK, TxType, SeqInv, Transmitted, TxStore
<1>3. ASSUME ~TxStore PROVE Transmitted' = Transmitted
  <2>1. CASE TxSeq
    <3>1. tx' # NoFrame
      BY <2>1 DEF TxSeq, NoFrame, TypeOK, TxType
    <3> QED
      BY <2>1, <3>1 DEF TxSeq, Transmitted, TypeOK, TxType
  <2>2. CASE ~TxSeq
    BY <1>3, <2>2, TxFrameSame DEF Transmitted
  <2> QED
    BY <2>1, <2>2
<1> QED
  BY <1>1, <1>2, <1>3

\* vmac_tx numbers the payloads in order, and never reaches U16.
LEMMA SeqStep == ASSUME TypeOK, SeqInv, [Next]_vars PROVE SeqInv'
<1>1. CASE TxSeq
  <2>1. sent + 1 <= MAXSEND /\ (seq + 1) % U16 = sent + 1
    BY <1>1 DEF TxSeq, TypeOK, TxType, SeqInv
  <2> QED
    BY <1>1, <2>1 DEF TxSeq, TypeOK, TxType, SeqInv
<1>2. CASE TxStore
  BY <1>2 DEF TxStore, SeqInv
<1>3. CASE ~TxSeq /\ ~TxStore
  BY <1>3, TxFrameSame DEF SeqInv
<1> QED
  BY <1>1, <1>2, <1>3

\* Storing frame n replaces frame n - WINDOW_TX and no other.
LEMMA BufStep == ASSUME TypeOK, SeqInv, BufInv, [Next]_vars PROVE BufInv'
<1>1. CASE TxStore
  <2>1. /\ Transmitted \in Nat /\ Transmitted' = Transmitted + 1
        /\ tx \in Frames /\ tx.seq = Transmitted /\ tx.id = Transmitted
    BY <1>1, TransmittedStep
  <2> DEFINE t == Transmitted
             j == t % WINDOW_TX
  <2>2. j \in Slots
    BY <2>1, SlotTx
  <2>3. buf' = [buf EXCEPT ![j] = tx]
    BY <1>1, <2>1 DEF TxStore, StoreSlot
  <2>4. buf \in [Slots -> Frames \cup {NoFrame}]
    BY DEF TypeOK, TxType
  <2>5. ASSUME NEW k \in Slots, buf'[k] # NoFrame
        PROVE  /\ buf'[k].seq = buf'[k].id
               /\ buf'[k].id % WINDOW_TX = k
               /\ buf'[k].id < Transmitted'
               /\ Transmitted' <= buf'[k].id + WINDOW_TX
    <3>1. CASE k = j
      BY <2>1, <2>2, <2>3, <2>4, <3>1
    <3>2. CASE k # j
      <4>1. buf'[k] = buf[k] /\ buf[k] \in Frames
        BY <2>3, <2>4, <2>5, <3>2
      <4>2. /\ buf[k].seq = buf[k].id /\ buf[k].id % WINDOW_TX = k
            /\ buf[k].id < t /\ t <= buf[k].id + WINDOW_TX /\ buf[k].id \in Nat
        BY <2>5, <4>1 DEF BufInv, Frames, Ids
      <4>3. t # buf[k].id + WINDOW_TX
        BY <3>2, <4>2, ModTurn
      <4> HIDE DEF t
      <4>4. t + 1 <= buf[k].id + WINDOW_TX /\ buf[k].id < t + 1
        BY <2>1, <4>2, <4>3 DEF t
      <4> QED
        BY <2>1, <4>1, <4>2, <4>4 DEF t
    <3> QED
      BY <3>1, <3>2
  <2>6. ASSUME NEW n \in Nat, n < Transmitted' PROVE buf'[n % WINDOW_TX] # NoFrame
    <3>1. n % WINDOW_TX \in Slots
      BY SlotTx
    <3>2. CASE n % WINDOW_TX = j
      BY <2>1, <2>2, <2>3, <2>4, <3>2, NoFrameType
    <3>3. CASE n % WINDOW_TX # j
      <4>1. n < Transmitted
        BY <2>1, <2>6, <3>3
      <4> QED
        BY <2>2, <2>3, <2>4, <3>1, <3>3, <4>1 DEF BufInv
    <3> QED
      BY <3>2, <3>3
  <2> QED
    BY <2>5, <2>6 DEF BufInv
<1>2. CASE ~TxStore
  <2>1. buf' = buf
    BY <1>2, TxFrameSame DEF TxSeq
  <2> QED
    BY <1>2, <2>1, TransmittedStep DEF BufInv
<1> QED
  BY <1>1, <1>2

\* A copy is of a buffered frame, and at most LAG frames overtake it.
LEMMA CopyStep ==
    ASSUME TypeOK, SeqInv, BufInv, CopyInv, [Next]_vars PROVE CopyInv'
<1>0. Transmitted \in Nat /\ at \in Nat /\ skb2 \in Frames \cup {NoFrame}
  BY TransmittedStep DEF TypeOK, HandlerType
<1>1. CASE TxStore
  <2>1. Transmitted' = Transmitted + 1 /\ UNCHANGED <<dpc, skb2, at>>
    BY <1>1, TransmittedStep DEF TxStore, dackVars
  <2>2. skb2 # NoFrame => Transmitted < at + LAG /\ skb2.id \in Nat
    BY <1>0, <1>1 DEF TxStore, Frames, Ids
  <2> QED
    BY <1>0, <2>1, <2>2 DEF CopyInv
<1>2. CASE CopyFrame
  <2>1. Transmitted' = Transmitted
    BY <1>2, TransmittedStep DEF CopyFrame, TxStore
  <2>2. dpc' = "send" => skb2' # NoFrame
    BY <1>2 DEF CopyFrame
  <2>3. CASE skb2' = buf[le % WINDOW_TX] /\ skb2' # NoFrame /\ at' = Transmitted
    <3>1. le % WINDOW_TX \in Slots
      BY SlotTx DEF TypeOK, HandlerType
    <3>2. skb2' \in Frames
      BY <2>3, <3>1 DEF TypeOK, TxType
    <3> QED
      BY <1>0, <2>1, <2>2, <2>3, <3>1, <3>2 DEF BufInv, CopyInv
  <2>4. CASE skb2' = NoFrame
    BY <2>2, <2>4 DEF CopyInv
  <2>5. CASE skb2' = skb2 /\ at' = at
    BY <2>1, <2>2, <2>5 DEF CopyInv
  <2> QED
    BY <1>2, <2>3, <2>4, <2>5 DEF CopyFrame
<1>3. CASE RecvDack \/ DackDone
  BY <1>3 DEF RecvDack, DackDone, CopyInv
<1>4. CASE ~TxStore /\ ~CopyFrame /\ ~RecvDack /\ ~DackDone
  <2>1. Transmitted' = Transmitted
    BY <1>4, TransmittedStep
  <2>2. UNCHANGED <<skb2, at>> /\ (dpc' = dpc \/ dpc' # "send")
    BY <1>4, NextCases DEF TxSeq, NextHole, HoleDone, SkipFrame, SendFrame, LoseDack,
       Consumer, Interest, Expire, RecvDrop, RecvAccept, SendDack, LoseData, vars, dackVars
  <2> QED
    BY <2>1, <2>2 DEF CopyInv
<1> QED
  BY <1>1, <1>2, <1>3, <1>4

\* What a receiving consumer takes from the air was transmitted.
LEMMA HolesStep ==
    ASSUME TypeOK, SeqInv, AirInv, HolesInv, [Next]_vars PROVE HolesInv'
<1> DEFINE t == Transmitted
<1>0. t \in Nat /\ t' \in Nat /\ t <= t'
  BY TransmittedStep
<1>1. ASSUME NEW h \in Hole, h.re < t PROVE h.re < t'
  BY <1>0, <1>1 DEF Hole
<1>2. /\ \A c \in Consumers : \A h \in dack[c].holes : h \in Hole /\ h.re < t'
      /\ \A i \in 1 .. Len(dackq) : \A h \in dackq[i].holes : h \in Hole /\ h.re < t'
      /\ \A h \in holes : h \in Hole /\ h.re < t'
      /\ dpc \in {"scan", "send"} => re < t'
  <2>1. ASSUME NEW c \in Consumers, NEW h \in dack[c].holes PROVE h \in Hole
    BY DEF TypeOK, RadioType, Dacks
  <2>2. ASSUME NEW i \in 1 .. Len(dackq), NEW h \in dackq[i].holes PROVE h \in Hole
    <3>1. dackq \in Seq(Dacks)
      BY DEF TypeOK, RadioType
    <3>2. dackq[i] \in Dacks
      BY <3>1
    <3> QED
      BY <3>2 DEF Dacks
  <2>3. ASSUME NEW h \in holes PROVE h \in Hole
    BY DEF TypeOK, HandlerType
  <2>4. dpc \in {"scan", "send"} => re < t'
    BY <1>0 DEF HolesInv, TypeOK, HandlerType
  <2> QED
    BY <1>1, <2>1, <2>2, <2>3, <2>4 DEF HolesInv
<1> HIDE DEF t
<1>3. CASE RecvDack
  <2>1. dackq \in Seq(Dacks) /\ dackq # << >>
    BY <1>3 DEF TypeOK, RadioType, RecvDack
  <2>2. Head(dackq) = dackq[1] /\ 1 \in 1 .. Len(dackq)
    BY <2>1
  <2>3. /\ Len(Tail(dackq)) = Len(dackq) - 1
        /\ \A i \in 1 .. Len(Tail(dackq)) : Tail(dackq)[i] = dackq[i + 1] /\ i + 1 \in 1 .. Len(dackq)
    BY <2>1
  <2> QED
    BY <1>2, <1>3, <2>2, <2>3 DEF HolesInv, RecvDack, t
<1>4. CASE NextHole
  <2>1. PICK h \in holes : re' = h.re /\ holes' = holes \ {h}
    BY <1>4 DEF NextHole
  <2> QED
    BY <1>2, <1>4, <2>1 DEF HolesInv, NextHole, t
<1>5. CASE DackDone \/ HoleDone \/ SkipFrame \/ CopyFrame \/ SendFrame \/ TxSeq \/ TxStore
  <2>1. /\ UNCHANGED <<holes, dack, dackq>>
        /\ dpc' \in {"scan", "send"} => dpc \in {"scan", "send"} /\ re' = re
    BY <1>5 DEF DackDone, HoleDone, SkipFrame, CopyFrame, SendFrame, TxSeq, TxStore,
       dackVars
  <2> QED
    BY <1>2, <2>1 DEF HolesInv, t
<1>6. CASE LoseDack
  <2>1. dackq \in Seq(Dacks) /\ dackq # << >>
    BY <1>6 DEF TypeOK, RadioType, LoseDack
  <2>2. /\ Len(Tail(dackq)) = Len(dackq) - 1
        /\ \A i \in 1 .. Len(Tail(dackq)) : Tail(dackq)[i] = dackq[i + 1] /\ i + 1 \in 1 .. Len(dackq)
    BY <2>1
  <2> QED
    BY <1>2, <1>6, <2>2 DEF HolesInv, LoseDack, dackVars, t
<1>7. ASSUME NEW c \in Consumers, Consumer(c) PROVE HolesInv'
  <2>0. dack \in [Consumers -> Dacks]
    BY DEF TypeOK, RadioType
  <2>1. CASE Interest(c)
    BY <1>2, <2>0, <2>1 DEF HolesInv, Interest, dackVars, NoDack, t
  <2>2. CASE Expire(c) \/ RecvDrop(c) \/ LoseData(c)
    BY <1>2, <2>2 DEF HolesInv, Expire, RecvDrop, LoseData, dackVars, t
  <2>3. CASE RecvAccept(c)
    <3> DEFINE f == Head(air[c])
               n == f.seq
    <3>1. air[c] # << >> /\ live[c]
      BY <2>3 DEF RecvAccept
    <3>2. n \in Nat /\ n < t'
      <4>1. n \in Nat /\ f = air[c][1] /\ 1 \in 1 .. Len(air[c]) /\ n = f.id
        BY <3>1, AcceptHead
      <4>2. f.id < t
        BY <4>1 DEF AirInv, t
      <4> HIDE DEF f, n
      <4> QED
        BY <1>0, <4>1, <4>2
    <3>3. NewDack(c, n) \in Dacks /\ \A h \in NewDack(c, n).holes : h.re < n
      BY <3>2, NewDackType
    <3>4. \/ dack' = [dack EXCEPT ![c] = NewDack(c, n)]
          \/ dack' = [dack EXCEPT ![c] = dack[c]]
          \/ dack' = dack
      BY <2>3 DEF RecvAccept
    <3>5. UNCHANGED <<dackVars, dackq>>
      BY <2>3 DEF RecvAccept
    <3> HIDE DEF n, f
    <3>6. \A h \in NewDack(c, n).holes : h.re < t'
      <4> SUFFICES ASSUME NEW h \in NewDack(c, n).holes PROVE h.re < t'
        OBVIOUS
      <4>1. h \in Hole
        BY <3>3 DEF Dacks
      <4> QED
        BY <1>0, <3>2, <3>3, <4>1 DEF Hole
    <3>7. \A b \in Consumers : dack'[b] = dack[b] \/ dack'[b] = NewDack(c, n)
      BY <2>0, <3>4
    <3> QED
      BY <1>2, <3>5, <3>6, <3>7 DEF HolesInv, dackVars, t
  <2>4. CASE SendDack(c)
    <3>1. dackq \in Seq(Dacks) /\ dack[c] \in Dacks
      BY DEF TypeOK, RadioType
    <3>2. dackq' = Append(dackq, dack[c]) /\ UNCHANGED dackVars
      BY <2>4 DEF SendDack
    <3>3. \A i \in 1 .. Len(dackq') : dackq'[i] = dack[c] \/ (i \in 1 .. Len(dackq) /\ dackq'[i] = dackq[i])
      BY <3>1, <3>2
    <3>4. \A b \in Consumers : dack'[b] = dack[b] \/ dack'[b].holes = {}
      BY <2>0, <2>4 DEF SendDack, NoDack
    <3> QED
      BY <1>2, <3>2, <3>3, <3>4 DEF HolesInv, dackVars, t
  <2> QED
    BY <1>7, <2>1, <2>2, <2>3, <2>4 DEF Consumer
<1>8. CASE UNCHANGED vars
  BY <1>2, <1>8 DEF HolesInv, vars, dackVars, t
<1> QED
  BY <1>3, <1>4, <1>5, <1>6, <1>7, <1>8, NextCases

\* The frames on the air are frames.
LEMMA AirFrame ==
    ASSUME TypeOK, NEW c \in Consumers, NEW i \in 1 .. Len(air[c])
    PROVE  air[c][i] \in Frames /\ air[c][i].id \in Nat
<1>1. air[c] \in Seq(Frames)
  BY DEF TypeOK, RadioType
<1>2. air[c][i] \in Frames
  BY <1>1
<1> QED
  BY <1>2 DEF Frames, Ids

(***************************************************************************)
(* A frame may be put on the air if no frame there, and nothing a consumer *)
(* has seen, is WINDOW or more ahead of it.                                *)
(***************************************************************************)
LEMMA AirAppend ==
    ASSUME TypeOK, SeqInv, AirInv, [Next]_vars, UNCHANGED <<live, latest>>,
           NEW f \in Frames, f.seq = f.id, f.id < Transmitted',
           Transmitted <= f.id + WINDOW,
           \A c \in Consumers : air'[c] = Append(air[c], f)
    PROVE  AirInv'
<1> DEFINE t == Transmitted
<1>0. t \in Nat /\ t' \in Nat /\ t <= t' /\ f.id \in Nat
  BY TransmittedStep DEF Frames, Ids
<1> HIDE DEF t
<1> SUFFICES ASSUME NEW c \in Consumers
             PROVE  /\ \A i \in 1 .. Len(air'[c]) :
                          /\ air'[c][i].seq = air'[c][i].id
                          /\ air'[c][i].id < t'
                          /\ live[c] => latest[c] < air'[c][i].id + WINDOW
                    /\ \A i, j \in 1 .. Len(air'[c]) :
                          i < j => air'[c][i].id < air'[c][j].id + WINDOW
                    /\ live[c] => latest[c] = 0 \/ latest[c] < t'
  BY DEF AirInv, t
<1> DEFINE q == air[c]
<1>1. /\ q \in Seq(Frames)
      /\ latest[c] \in Nat
      /\ \A i \in 1 .. Len(q) : /\ q[i].seq = q[i].id /\ q[i].id < t
                                /\ live[c] => latest[c] < q[i].id + WINDOW
      /\ \A i, j \in 1 .. Len(q) : i < j => q[i].id < q[j].id + WINDOW
      /\ live[c] => latest[c] = 0 \/ latest[c] < t
  BY DEF AirInv, TypeOK, RadioType, RxType, t
<1>2. air'[c] = Append(q, f)
  OBVIOUS
<1> HIDE DEF q
<1>3. Len(q) \in Nat /\ \A i \in 1 .. Len(q) : q[i] \in Frames /\ q[i].id \in Nat
  BY AirFrame, <1>1 DEF q
<1>4. Len(Append(q, f)) = Len(q) + 1 /\ Append(q, f)[Len(q) + 1] = f
      /\ \A i \in 1 .. Len(q) : Append(q, f)[i] = q[i]
  BY <1>1
<1>5. \A i \in 1 .. Len(q) : q[i].id < f.id + WINDOW /\ q[i].id < t'
  BY <1>0, <1>1, <1>3 DEF t
<1>6. live[c] => latest[c] < f.id + WINDOW /\ (latest[c] = 0 \/ latest[c] < t')
  BY <1>0, <1>1 DEF t
<1>7. ASSUME NEW i \in 1 .. Len(q) + 1
      PROVE  /\ Append(q, f)[i].seq = Append(q, f)[i].id
             /\ Append(q, f)[i].id < t'
             /\ live[c] => latest[c] < Append(q, f)[i].id + WINDOW
  <2>1. CASE i = Len(q) + 1
    BY <1>4, <1>6, <2>1 DEF t
  <2>2. CASE i \in 1 .. Len(q)
    BY <1>1, <1>4, <1>5, <2>2
  <2> QED
    BY <1>3, <2>1, <2>2
<1>8. ASSUME NEW i \in 1 .. Len(q) + 1, NEW j \in 1 .. Len(q) + 1, i < j
      PROVE  Append(q, f)[i].id < Append(q, f)[j].id + WINDOW
  <2>0. i \in 1 .. Len(q)
    BY <1>3, <1>8
  <2>1. CASE j = Len(q) + 1
    BY <1>4, <1>5, <2>0, <2>1
  <2>2. CASE j \in 1 .. Len(q)
    BY <1>1, <1>4, <1>8, <2>0, <2>2
  <2> QED
    BY <1>3, <2>1, <2>2
<1> DEFINE z == Append(q, f)
<1>9. air'[c] = z /\ Len(z) = Len(q) + 1
  BY <1>2, <1>4
<1>10. /\ \A i \in 1 .. Len(z) : /\ z[i].seq = z[i].id /\ z[i].id < t'
                                 /\ live[c] => latest[c] < z[i].id + WINDOW
       /\ \A i, j \in 1 .. Len(z) : i < j => z[i].id < z[j].id + WINDOW
  BY <1>7, <1>8, <1>9
<1> HIDE DEF z
<1> QED
  BY <1>6, <1>9, <1>10

(***************************************************************************)
(* A consumer that takes the first frame off the air, and moves latest to  *)
(* it or leaves it, keeps the invariant.                                   *)
(***************************************************************************)
LEMMA AirTail ==
    ASSUME TypeOK, SeqInv, AirInv, NEW c \in Consumers, air[c] # << >>,
           Transmitted' = Transmitted, live' = live,
           air' = [air EXCEPT ![c] = Tail(air[c])],
           \/ latest' = latest
           \/ latest' = [latest EXCEPT ![c] = NewLatest(latest[c], Head(air[c]).seq)]
    PROVE  AirInv'
<1> DEFINE t == Transmitted
<1> SUFFICES ASSUME NEW b \in Consumers
             PROVE  /\ \A i \in 1 .. Len(air'[b]) :
                          /\ air'[b][i].seq = air'[b][i].id
                          /\ air'[b][i].id < t
                          /\ live[b] => latest'[b] < air'[b][i].id + WINDOW
                    /\ \A i, j \in 1 .. Len(air'[b]) :
                          i < j => air'[b][i].id < air'[b][j].id + WINDOW
                    /\ live[b] => latest'[b] = 0 \/ latest'[b] < t
  BY ZenonT(60) DEF AirInv
<1> HIDE DEF t
<1> DEFINE q == air[b]
<1>1. /\ q \in Seq(Frames)
      /\ \A i \in 1 .. Len(q) : /\ q[i].seq = q[i].id /\ q[i].id < t
                                /\ live[b] => latest[b] < q[i].id + WINDOW
      /\ \A i, j \in 1 .. Len(q) : i < j => q[i].id < q[j].id + WINDOW
      /\ live[b] => latest[b] = 0 \/ latest[b] < t
  BY DEF AirInv, TypeOK, RadioType, t
<1>2. CASE b # c
  <2>1. air'[b] = air[b] /\ latest'[b] = latest[b]
    BY <1>2 DEF TypeOK, RadioType, RxType
  <2> QED
    BY <1>1, <2>1
<1>3. CASE b = c
  <2>0. q # << >> /\ air'[b] = Tail(q)
    BY <1>3 DEF TypeOK, RadioType
  <2>1. latest'[b] = latest[b] \/ latest'[b] = Head(q).seq
    BY <1>3 DEF TypeOK, RxType, NewLatest
  <2> HIDE DEF q
  <2>2. Len(q) \in Nat /\ Len(q) > 0 /\ Head(q) = q[1] /\ Len(Tail(q)) = Len(q) - 1
    BY <1>1, <2>0
  <2>3. \A i \in 1 .. Len(Tail(q)) : i + 1 \in 1 .. Len(q) /\ 1 < i + 1 /\ Tail(q)[i] = q[i + 1]
    BY <1>1, <2>0
  <2>4. 1 \in 1 .. Len(q) /\ q[1].seq = q[1].id /\ q[1].id < t
    BY <1>1, <2>2
  <2>5. ASSUME NEW i \in 1 .. Len(Tail(q))
        PROVE  /\ Tail(q)[i].seq = Tail(q)[i].id
               /\ Tail(q)[i].id < t
               /\ live[b] => latest'[b] < Tail(q)[i].id + WINDOW
    BY <1>1, <2>1, <2>2, <2>3, <2>4
  <2>6. ASSUME NEW i \in 1 .. Len(Tail(q)), NEW j \in 1 .. Len(Tail(q)), i < j
        PROVE  Tail(q)[i].id < Tail(q)[j].id + WINDOW
    <3>1. i + 1 < j + 1
      BY <2>6
    <3> QED
      BY <1>1, <2>3, <3>1
  <2>7. live[b] => latest'[b] = 0 \/ latest'[b] < t
    BY <1>1, <2>1, <2>2, <2>4
  <2> QED
    BY <2>0, <2>5, <2>6, <2>7
<1> QED
  BY <1>2, <1>3

\* No step puts a frame on the air that is WINDOW or more behind.
LEMMA AirStep ==
    ASSUME TypeOK, SeqInv, CopyInv, AirInv, [Next]_vars PROVE AirInv'
<1>0. Transmitted \in Nat
  BY TransmittedStep
<1>1. CASE TxStore
  <2>1. /\ Transmitted' = Transmitted + 1
        /\ tx \in Frames /\ tx.seq = Transmitted /\ tx.id = Transmitted
    BY <1>1, TransmittedStep
  <2>2. UNCHANGED <<live, latest>> /\ \A c \in Consumers : air'[c] = Append(air[c], tx)
    BY <1>1 DEF TxStore, rxVars
  <2>3. tx.seq = tx.id /\ tx.id < Transmitted' /\ Transmitted <= tx.id + WINDOW
    BY <1>0, <2>1
  <2> QED
    BY <2>1, <2>2, <2>3, AirAppend
<1>2. CASE SendFrame
  <2>1. Transmitted' = Transmitted /\ UNCHANGED <<live, latest>>
    <3>1. UNCHANGED <<tx, sent, live, latest>>
      BY <1>2 DEF SendFrame, txVars, rxVars
    <3> QED
      BY <3>1 DEF Transmitted
  <2>2. /\ skb2 \in Frames /\ skb2.seq = skb2.id /\ skb2.id < Transmitted
        /\ at <= skb2.id + WINDOW_TX /\ Transmitted <= at + LAG
        /\ at \in Nat /\ skb2.id \in Nat
    BY <1>2 DEF SendFrame, CopyInv, TypeOK, HandlerType, Frames, Ids
  <2>3. Transmitted <= skb2.id + WINDOW
    BY <1>0, <2>2
  <2>4. CASE air' = [c \in Consumers |-> Append(air[c], skb2)]
    <3>1. \A c \in Consumers : air'[c] = Append(air[c], skb2)
      BY <2>4
    <3> QED
      BY <2>1, <2>2, <2>3, <3>1, AirAppend
  <2>5. CASE air' = air
    BY <2>1, <2>5 DEF AirInv
  <2> QED
    BY <1>2, <2>4, <2>5 DEF SendFrame
<1>3. ASSUME NEW c \in Consumers, Consumer(c) PROVE AirInv'
  <2>1. Transmitted' = Transmitted
    <3>1. UNCHANGED <<tx, sent>>
      BY <1>3 DEF Consumer, Interest, Expire, RecvDrop, RecvAccept, SendDack, LoseData, txVars
    <3> QED
      BY <3>1 DEF Transmitted
  <2>2. CASE Interest(c)
    <3>1. \A b \in Consumers : b = c => latest'[b] = 0
      BY <2>2 DEF Interest, TypeOK, RxType
    <3>2. \A b \in Consumers : b # c => latest'[b] = latest[b] /\ live'[b] = live[b]
      BY <2>2 DEF Interest, TypeOK, RxType
    <3>3. \A b \in Consumers : \A i \in 1 .. Len(air[b]) : 0 < air[b][i].id + WINDOW
      BY AirFrame
    <3>4. air' = air
      BY <2>2 DEF Interest
    <3> QED
      BY <2>1, <3>1, <3>2, <3>3, <3>4 DEF AirInv
  <2>3. CASE Expire(c)
    <3>1. \A b \in Consumers : live'[b] => live[b]
      BY <2>3 DEF Expire, TypeOK, RxType
    <3> QED
      BY <2>1, <2>3, <3>1 DEF AirInv, Expire
  <2>4. CASE RecvDrop(c) \/ LoseData(c)
    BY <2>1, <2>4, AirTail DEF RecvDrop, LoseData, rxVars
  <2>5. CASE RecvAccept(c)
    BY <2>1, <2>5, AirTail DEF RecvAccept
  <2>6. CASE SendDack(c)
    BY <2>1, <2>6 DEF AirInv, SendDack, rxVars
  <2> QED
    BY <1>3, <2>2, <2>3, <2>4, <2>5, <2>6 DEF Consumer
<1>4. CASE TxSeq \/ RecvDack \/ NextHole \/ DackDone \/ HoleDone \/ SkipFrame \/ CopyFrame
           \/ LoseDack \/ UNCHANGED vars
  <2>1. UNCHANGED <<live, latest, air>>
    BY <1>4 DEF TxSeq, RecvDack, NextHole, DackDone, HoleDone, SkipFrame, CopyFrame,
       LoseDack, vars, rxVars
  <2>2. Transmitted' = Transmitted
    <3>1. CASE TxStore
      BY <1>4, <3>1, <1>1, <2>1 DEF TxStore, TxSeq, RecvDack, NextHole, DackDone,
         HoleDone, SkipFrame, CopyFrame, LoseDack, vars, txVars
    <3> QED
      BY <3>1, TransmittedStep
  <2> QED
    BY <2>1, <2>2 DEF AirInv
<1> QED
  BY <1>1, <1>2, <1>3, <1>4, NextCases

\* Only three steps touch the state of a consumer, and only its own.
LEMMA RxCases ==
    ASSUME TypeOK, [Next]_vars
    PROVE  \/ UNCHANGED rxVars
           \/ \E c \in Consumers : Interest(c) \/ Expire(c) \/ RecvAccept(c)
  BY NextCases DEF Consumer, TxSeq, TxStore, RecvDack, NextHole, DackDone, HoleDone,
     SkipFrame, CopyFrame, SendFrame, LoseDack, RecvDrop, SendDack, LoseData, vars

\* The number of the frame c receives next.
HeadSeq(c) == Head(air[c]).seq

\* Receiving a frame changes nothing at the other consumers.
LEMMA AcceptOthers ==
    ASSUME TypeOK, NEW c \in Consumers, RecvAccept(c), NEW b \in Consumers, b # c
    PROVE  /\ latest'[b] = latest[b] /\ window'[b] = window[b]
           /\ lastin'[b] = lastin[b] /\ round'[b] = round[b]
           /\ copies'[b] = copies[b] /\ firstFrame'[b] = firstFrame[b]
  BY DEF RecvAccept, TypeOK, RxType

\* An accepted frame, and the state of its consumer before and after.
LEMMA AcceptStep ==
    ASSUME TypeOK, AirInv, NEW c \in Consumers, RecvAccept(c)
    PROVE  /\ HeadSeq(c) \in Ids /\ HeadSeq(c) \in Nat /\ Head(air[c]).id = HeadSeq(c)
           /\ latest[c] \in Nat /\ latest[c] < HeadSeq(c) + WINDOW
           /\ latest[c] >= HeadSeq(c) => window[c][Slot(HeadSeq(c))] # 1
           /\ latest'[c] = NewLatest(latest[c], HeadSeq(c))
           /\ lastin'[c] = HeadSeq(c)
           /\ window'[c][Slot(HeadSeq(c))] = 1
           /\ \A n \in Ids : (n # HeadSeq(c) /\ n <= latest'[c] /\ latest'[c] < n + WINDOW) =>
                 window'[c][Slot(n)] = IF n > latest[c] THEN 0 ELSE window[c][Slot(n)]
           /\ copies'[c] = [copies[c] EXCEPT ![HeadSeq(c)] = copies[c][HeadSeq(c)] + 1]
           /\ copies[c] \in [Ids -> Nat]
           /\ live' = live
           /\ round'[c] = IF EndsRound(c, HeadSeq(c)) THEN HeadSeq(c) ELSE round[c]
<1> DEFINE f == Head(air[c])
           s == f.seq
<1>1. air[c] # << >> /\ live[c]
  BY DEF RecvAccept
<1>2. /\ s \in Nat /\ s \in Ids /\ f.id = s
      /\ latest[c] \in Nat /\ latest[c] < s + WINDOW /\ window[c] \in Windows
  BY <1>1, AcceptHead
<1>3. /\ window' = [window EXCEPT ![c] = Accept(window[c], latest[c], s)]
      /\ latest' = [latest EXCEPT ![c] = NewLatest(latest[c], s)]
      /\ lastin' = [lastin EXCEPT ![c] = s]
      /\ copies' = [copies EXCEPT ![c][f.id] = copies[c][f.id] + 1]
      /\ live' = live
      /\ ~Duplicate(window[c], latest[c], s)
  BY DEF RecvAccept
<1>4. \/ EndsRound(c, s) /\ round' = [round EXCEPT ![c] = s]
      \/ ~EndsRound(c, s) /\ round' = round
  BY DEF RecvAccept
<1> HIDE DEF f, s
<1>5. /\ window'[c] = Accept(window[c], latest[c], s)
      /\ latest'[c] = NewLatest(latest[c], s)
      /\ lastin'[c] = s
  BY <1>3 DEF TypeOK, RxType
<1>6. copies'[c] = [copies[c] EXCEPT ![s] = copies[c][s] + 1] /\ copies[c] \in [Ids -> Nat]
  BY <1>2, <1>3 DEF TypeOK, RxType
<1>7. round'[c] = IF EndsRound(c, s) THEN s ELSE round[c]
  BY <1>4 DEF TypeOK, RxType
<1>8. /\ window'[c][Slot(s)] = 1
       /\ \A n \in Ids : (n # s /\ n <= latest'[c] /\ latest'[c] < n + WINDOW) =>
             window'[c][Slot(n)] = IF n > latest[c] THEN 0 ELSE window[c][Slot(n)]
  <2> DEFINE moved == Accept(window[c], latest[c], s)
             top == NewLatest(latest[c], s)
  <2>1. /\ moved[Slot(s)] = 1
        /\ \A n \in Nat : (n # s /\ n <= top /\ top < n + WINDOW) =>
              moved[Slot(n)] = IF n > latest[c] THEN 0 ELSE window[c][Slot(n)]
    <3>1. /\ window[c] \in Windows /\ latest[c] \in Nat
          /\ s \in Nat /\ latest[c] < s + WINDOW
      BY <1>2
    <3> HIDE DEF s
    <3> QED
      BY <3>1, AcceptCells
  <2>2. window'[c] = moved /\ latest'[c] = top
    BY <1>5
  <2>3. \A n \in Ids : n \in Nat
    BY DEF Ids
  <2> HIDE DEF moved, top
  <2> QED
    BY <2>1, <2>2, <2>3
<1>9. latest[c] >= s => window[c][Slot(s)] # 1
  BY <1>3 DEF Duplicate
<1>10. live' = live
  BY <1>3
<1> QED
  BY <1>2, <1>5, <1>6, <1>7, <1>8, <1>9, <1>10, Zenon DEF HeadSeq, f, s

\* Marking a frame, and losing the ones it passed, keeps the window exact.
LEMMA WindowStep ==
    ASSUME TypeOK, AirInv, WindowInv, [Next]_vars PROVE WindowInv'
<1>1. CASE UNCHANGED rxVars
  BY <1>1 DEF WindowInv, rxVars
<1>2. ASSUME NEW c \in Consumers, Interest(c) PROVE WindowInv'
  <2>1. /\ latest'[c] = 0 /\ copies'[c] = Nothing
        /\ \A b \in Consumers : b # c =>
              /\ live'[b] = live[b] /\ latest'[b] = latest[b] /\ window'[b] = window[b]
              /\ copies'[b] = copies[b]
    BY <1>2 DEF Interest, TypeOK, RxType
  <2>2. ASSUME NEW n \in Ids
        PROVE  copies'[c][n] = 0 /\ (n <= latest'[c] => n = 0)
    BY <2>1 DEF Nothing, Ids
  <2> QED
    BY <2>1, <2>2 DEF WindowInv
<1>3. ASSUME NEW c \in Consumers, Expire(c) PROVE WindowInv'
  <2>1. \A b \in Consumers : live'[b] => live[b]
    BY <1>3 DEF Expire, TypeOK, RxType
  <2> QED
    BY <1>3, <2>1 DEF WindowInv, Expire
<1>4. ASSUME NEW c \in Consumers, RecvAccept(c) PROVE WindowInv'
  <2> DEFINE s == HeadSeq(c)
             top == NewLatest(latest[c], s)
  <2>1. /\ s \in Ids /\ s \in Nat
        /\ latest[c] \in Nat /\ latest[c] < s + WINDOW
        /\ latest[c] >= s => window[c][Slot(s)] # 1
        /\ latest'[c] = top
        /\ window'[c][Slot(s)] = 1
        /\ \A n \in Ids : (n # s /\ n <= top /\ top < n + WINDOW) =>
              window'[c][Slot(n)] = IF n > latest[c] THEN 0 ELSE window[c][Slot(n)]
        /\ copies'[c] = [copies[c] EXCEPT ![s] = copies[c][s] + 1]
        /\ copies[c] \in [Ids -> Nat]
        /\ live' = live
    BY <1>4, AcceptStep
  <2>2. top \in Nat /\ latest[c] <= top /\ s <= top /\ (top = latest[c] \/ top = s)
    BY <2>1 DEF NewLatest
  <2>3. live[c]
    BY <1>4 DEF RecvAccept
  <2> HIDE DEF s, top
  <2>4. \A n \in Ids : /\ copies[c][n] <= 1 /\ copies[c][n] \in Nat /\ n \in Nat
                       /\ n > latest[c] => copies[c][n] = 0
                       /\ (n <= latest[c] /\ latest[c] < n + WINDOW) =>
                             /\ copies[c][n] = 1 => window[c][Slot(n)] = 1
                             /\ n # 0 /\ window[c][Slot(n)] = 1 => copies[c][n] = 1
    <3> SUFFICES ASSUME NEW n \in Ids
                 PROVE  /\ copies[c][n] <= 1 /\ copies[c][n] \in Nat /\ n \in Nat
                        /\ n > latest[c] => copies[c][n] = 0
                        /\ (n <= latest[c] /\ latest[c] < n + WINDOW) =>
                              /\ copies[c][n] = 1 => window[c][Slot(n)] = 1
                              /\ n # 0 /\ window[c][Slot(n)] = 1 => copies[c][n] = 1
      OBVIOUS
    <3>1. copies[c][n] \in Nat /\ n \in Nat
      <4>1. copies[c] \in [Ids -> Nat]
        BY <2>1, Zenon
      <4>2. n \in Nat
        BY DEF Ids
      <4> QED
        BY <4>1, <4>2
    <3>2. /\ copies[c][n] <= 1
          /\ n > latest[c] => copies[c][n] = 0
          /\ (n <= latest[c] /\ latest[c] < n + WINDOW) =>
                /\ copies[c][n] = 1 => window[c][Slot(n)] = 1
                /\ n # 0 /\ window[c][Slot(n)] = 1 => copies[c][n] = 1
      BY <2>3, Zenon DEF WindowInv
    <3> QED
      BY <3>1, <3>2, Zenon
  <2>5. copies[c][s] = 0
    BY <2>1, <2>4
  <2>6. ASSUME NEW n \in Ids
        PROVE  /\ copies'[c][n] <= 1
               /\ n > top => copies'[c][n] = 0
               /\ (n <= top /\ top < n + WINDOW) =>
                     /\ copies'[c][n] = 1 => window'[c][Slot(n)] = 1
                     /\ n # 0 /\ window'[c][Slot(n)] = 1 => copies'[c][n] = 1
    <3>1. CASE n = s
      <4>1. copies'[c][n] = 1 /\ window'[c][Slot(n)] = 1
        BY <2>1, <2>5, <3>1
      <4> QED
        BY <2>1, <2>2, <3>1, <4>1
    <3>2. CASE n # s
      <4>1. copies'[c][n] = copies[c][n] /\ n \in Nat
        BY <2>1, <2>4, <3>2
      <4>2. CASE n > latest[c]
        BY <2>1, <2>4, <3>2, <4>1, <4>2
      <4>3. CASE ~(n > latest[c])
        BY <2>1, <2>2, <2>4, <3>2, <4>1, <4>3
      <4> QED
        BY <4>2, <4>3
    <3> QED
      BY <3>1, <3>2
  <2>7. \A b \in Consumers : live'[b] = live[b]
    BY <2>1, Zenon
  <2>8. ASSUME NEW b \in Consumers, b # c
        PROVE  latest'[b] = latest[b] /\ window'[b] = window[b] /\ copies'[b] = copies[b]
    BY <1>4, <2>8, AcceptOthers
  <2>9. latest'[c] = top
    BY <2>1
  <2> QED
    BY <2>6, <2>7, <2>8, <2>9 DEF WindowInv
<1> QED
  BY <1>1, <1>2, <1>3, <1>4, RxCases

\* A cell is written before latest reaches the frame it is for.
LEMMA KnownStep ==
    ASSUME TypeOK, AirInv, KnownInv, [Next]_vars PROVE KnownInv'
<1>1. CASE UNCHANGED rxVars
  BY <1>1 DEF KnownInv, rxVars
<1>2. ASSUME NEW c \in Consumers, Interest(c) PROVE KnownInv'
  <2>1. /\ latest'[c] = 0
        /\ \A b \in Consumers : b # c =>
              live'[b] = live[b] /\ latest'[b] = latest[b] /\ window'[b] = window[b]
    BY <1>2 DEF Interest, TypeOK, RxType
  <2>2. \A n \in Ids \ {0} : ~(n <= latest'[c])
    BY <2>1 DEF Ids
  <2> QED
    BY <2>1, <2>2 DEF KnownInv
<1>3. ASSUME NEW c \in Consumers, Expire(c) PROVE KnownInv'
  <2>1. \A b \in Consumers : live'[b] => live[b]
    BY <1>3 DEF Expire, TypeOK, RxType
  <2> QED
    BY <1>3, <2>1 DEF KnownInv, Expire
<1>4. ASSUME NEW c \in Consumers, RecvAccept(c) PROVE KnownInv'
  <2> DEFINE s == HeadSeq(c)
  <2>1. /\ s \in Nat /\ latest[c] \in Nat /\ live' = live
        /\ latest'[c] = NewLatest(latest[c], s)
        /\ window'[c][Slot(s)] = 1
        /\ \A n \in Ids : (n # s /\ n <= latest'[c] /\ latest'[c] < n + WINDOW) =>
              window'[c][Slot(n)] = IF n > latest[c] THEN 0 ELSE window[c][Slot(n)]
    BY <1>4, AcceptStep
  <2>2. live[c]
    BY <1>4 DEF RecvAccept
  <2>3. latest'[c] \in Nat /\ latest[c] <= latest'[c]
    BY <2>1 DEF NewLatest
  <2> HIDE DEF s
  <2>4. ASSUME NEW n \in Ids \ {0}, n <= latest'[c], latest'[c] < n + WINDOW
        PROVE  window'[c][Slot(n)] \in {0, 1}
    <3>1. CASE n = s
      BY <2>1, <3>1
    <3>2. CASE n # s /\ n > latest[c]
      BY <2>1, <2>4, <3>2
    <3>3. CASE n # s /\ ~(n > latest[c])
      <4>1. n <= latest[c] /\ latest[c] < n + WINDOW
        BY <2>1, <2>3, <2>4, <3>3 DEF Ids
      <4>2. window[c][Slot(n)] \in {0, 1}
        BY <2>2, <4>1 DEF KnownInv
      <4> QED
        BY <2>1, <2>4, <3>3, <4>2
    <3> QED
      BY <3>1, <3>2, <3>3
  <2>5. ASSUME NEW b \in Consumers, b # c
        PROVE  latest'[b] = latest[b] /\ window'[b] = window[b]
    BY <1>4, <2>5, AcceptOthers
  <2>6. \A b \in Consumers : live'[b] = live[b]
    BY <2>1, Zenon
  <2> QED
    BY <2>4, <2>5, <2>6 DEF KnownInv
<1> QED
  BY <1>1, <1>2, <1>3, <1>4, RxCases

\* The frame accepted last is marked, and nothing unmarks it before the next.
LEMMA LastStep == ASSUME TypeOK, AirInv, LastInv, [Next]_vars PROVE LastInv'
<1>1. CASE UNCHANGED rxVars
  BY <1>1 DEF LastInv, rxVars
<1>2. ASSUME NEW c \in Consumers, Interest(c) PROVE LastInv'
  <2>1. /\ firstFrame'[c] = 0
        /\ \A b \in Consumers : b # c =>
              /\ live'[b] = live[b] /\ latest'[b] = latest[b] /\ window'[b] = window[b]
              /\ firstFrame'[b] = firstFrame[b] /\ lastin'[b] = lastin[b]
    BY <1>2 DEF Interest, TypeOK, RxType
  <2> QED
    BY <2>1 DEF LastInv
<1>3. ASSUME NEW c \in Consumers, Expire(c) PROVE LastInv'
  <2>1. \A b \in Consumers : live'[b] => live[b]
    BY <1>3 DEF Expire, TypeOK, RxType
  <2> QED
    BY <1>3, <2>1 DEF LastInv, Expire
<1>4. ASSUME NEW c \in Consumers, RecvAccept(c) PROVE LastInv'
  <2> DEFINE s == HeadSeq(c)
  <2>1. /\ s \in Nat /\ latest[c] \in Nat /\ lastin'[c] = s /\ window'[c][Slot(s)] = 1
        /\ latest'[c] = NewLatest(latest[c], s) /\ live' = live
    BY <1>4, AcceptStep
  <2> HIDE DEF s
  <2>2. latest'[c] >= lastin'[c]
    BY <2>1 DEF NewLatest
  <2>3. Duplicate(window'[c], latest'[c], lastin'[c])
    BY <2>1, <2>2 DEF Duplicate
  <2>4. \A b \in Consumers : live'[b] = live[b]
    BY <2>1, Zenon
  <2>5. ASSUME NEW b \in Consumers, b # c
        PROVE  /\ latest'[b] = latest[b] /\ window'[b] = window[b]
               /\ lastin'[b] = lastin[b] /\ firstFrame'[b] = firstFrame[b]
    BY <1>4, <2>5, AcceptOthers
  <2> QED
    BY <2>3, <2>4, <2>5 DEF LastInv
<1> QED
  BY <1>1, <1>2, <1>3, <1>4, RxCases

\* A frame that would be BURST ahead of the round opens the next.
LEMMA RoundStep ==
    ASSUME TypeOK, AirInv, DackEveryBurst, [Next]_vars PROVE DackEveryBurst'
<1>1. CASE UNCHANGED rxVars
  BY <1>1 DEF DackEveryBurst, rxVars
<1>2. ASSUME NEW c \in Consumers, Interest(c) PROVE DackEveryBurst'
  <2>1. /\ latest'[c] = 0 /\ round'[c] = 0
        /\ \A b \in Consumers : b # c =>
              live'[b] = live[b] /\ latest'[b] = latest[b] /\ round'[b] = round[b]
    BY <1>2 DEF Interest, TypeOK, RxType
  <2> QED
    BY <2>1 DEF DackEveryBurst
<1>3. ASSUME NEW c \in Consumers, Expire(c) PROVE DackEveryBurst'
  <2>1. \A b \in Consumers : live'[b] => live[b]
    BY <1>3 DEF Expire, TypeOK, RxType
  <2> QED
    BY <1>3, <2>1 DEF DackEveryBurst, Expire
<1>4. ASSUME NEW c \in Consumers, RecvAccept(c) PROVE DackEveryBurst'
  <2> DEFINE s == HeadSeq(c)
  <2>1. /\ s \in Nat /\ latest[c] \in Nat
        /\ latest'[c] = NewLatest(latest[c], s) /\ live' = live
        /\ round'[c] = IF EndsRound(c, s) THEN s ELSE round[c]
    BY <1>4, AcceptStep
  <2>2. round[c] \in Nat /\ round[c] <= latest[c] /\ latest[c] < round[c] + BURST
    BY <1>4 DEF RecvAccept, DackEveryBurst, TypeOK, RxType
  <2> HIDE DEF s
  <2>3. round'[c] <= latest'[c] /\ latest'[c] < round'[c] + BURST
    BY <2>1, <2>2 DEF EndsRound, NewLatest
  <2>4. \A b \in Consumers : live'[b] = live[b]
    BY <2>1, Zenon
  <2>5. ASSUME NEW b \in Consumers, b # c
        PROVE  latest'[b] = latest[b] /\ round'[b] = round[b]
    BY <1>4, <2>5, AcceptOthers
  <2> QED
    BY <2>3, <2>4, <2>5 DEF DackEveryBurst
<1> QED
  BY <1>1, <1>2, <1>3, <1>4, RxCases

-----------------------------------------------------------------------------
(* The inductive invariant *)

\* Before the first step nothing was sent and nobody subscribes.
LEMMA InitIndInv == Init => IndInv
<1> SUFFICES ASSUME Init PROVE IndInv
  OBVIOUS
<1>1. TypeOK
  BY InitType
<1>2. SeqInv /\ CopyInv
  BY DEF Init, SeqInv, CopyInv
<1>3. BufInv
  BY DEF Init, BufInv, Transmitted
<1>4. HolesInv
  BY DEF Init, HolesInv, NoDack
<1>5. AirInv
  BY DEF Init, AirInv
<1>6. WindowInv /\ KnownInv /\ LastInv /\ DackEveryBurst
  BY DEF Init, WindowInv, KnownInv, LastInv, DackEveryBurst
<1> QED
  BY <1>1, <1>2, <1>3, <1>4, <1>5, <1>6 DEF IndInv

\* Every step of either side, and of the radio, keeps it.
LEMMA NextIndInv == IndInv /\ [Next]_vars => IndInv'
<1> SUFFICES ASSUME IndInv, [Next]_vars PROVE IndInv'
  OBVIOUS
<1>1. /\ TypeOK /\ SeqInv /\ BufInv /\ CopyInv /\ HolesInv
      /\ AirInv /\ WindowInv /\ KnownInv /\ LastInv /\ DackEveryBurst
  BY DEF IndInv
<1>2. TypeOK'
  <2>1. CASE Producer
    BY <1>1, <2>1, TypeTx, TypeHandler DEF Producer
  <2>2. CASE LoseDack
    BY <1>1, <2>2, TypeLoseDack
  <2>3. CASE \E c \in Consumers : Consumer(c)
    BY <1>1, <2>3, TypeConsumer
  <2>4. CASE UNCHANGED vars
    BY <1>1, <2>4, TxUnchanged, HandlerUnchanged, RxUnchanged, RadioUnchanged
       DEF TypeOK, vars
  <2> QED
    BY <2>1, <2>2, <2>3, <2>4 DEF Next
<1>3. SeqInv' /\ BufInv' /\ CopyInv'
  BY <1>1, <1>2, SeqStep, BufStep, CopyStep
<1>4. HolesInv' /\ AirInv'
  BY <1>1, <1>2, HolesStep, AirStep
<1>5. WindowInv' /\ KnownInv' /\ LastInv' /\ DackEveryBurst'
  BY <1>1, WindowStep, KnownStep, LastStep, RoundStep
<1> QED
  BY <1>2, <1>3, <1>4, <1>5 DEF IndInv

\* All of it holds in every reachable state.
THEOREM IndInvHolds == Spec => []IndInv
  BY InitIndInv, NextIndInv, PTL DEF Spec

-----------------------------------------------------------------------------
(* What follows *)

(***************************************************************************)
(* All variables stay in their ranges: latest, round and lastin in a u16,  *)
(* the pacing in a u8, frames and DACKs well formed.                       *)
(***************************************************************************)
THEOREM TypeCorrect == Spec => []TypeOK
<1>1. IndInv => TypeOK
  BY DEF IndInv
<1> QED
  BY <1>1, IndInvHolds, PTL

(***************************************************************************)
(* vmac_rx hands no payload to the application twice in one subscription.  *)
(***************************************************************************)
THEOREM AtMostOnce == Spec => []NoDuplicateDelivery
<1>1. IndInv => NoDuplicateDelivery
  BY DEF IndInv, WindowInv, NoDuplicateDelivery
<1> QED
  BY <1>1, IndInvHolds, PTL

(***************************************************************************)
(* vmac_rx takes for a duplicate only what the application has had.        *)
(***************************************************************************)
THEOREM FreshKept == Spec => []NoFreshDrop
<1>1. IndInv => NoFreshDrop
  <2> SUFFICES ASSUME IndInv, NEW c \in Consumers, live[c], air[c] # << >>,
                      Head(air[c]).id # 0,
                      Duplicate(window[c], latest[c], Head(air[c]).seq)
               PROVE  copies[c][Head(air[c]).id] > 0
    BY DEF NoFreshDrop
  <2> DEFINE n == Head(air[c]).id
  <2>1. n \in Ids /\ Head(air[c]).seq = n /\ latest[c] < n + WINDOW
    BY AcceptHead DEF IndInv
  <2>2. latest[c] >= n /\ window[c][Slot(n)] = 1
    BY <2>1 DEF Duplicate
  <2>3. latest[c] \in Nat /\ n \in Nat
    BY <2>1 DEF IndInv, TypeOK, RxType, Ids
  <2> HIDE DEF n
  <2>4. n <= latest[c] /\ n # 0
    BY <2>2, <2>3 DEF n
  <2>5. copies[c][n] = 1
    BY <2>1, <2>2, <2>4, Zenon DEF IndInv, WindowInv
  <2> QED
    BY <2>5 DEF n
<1> QED
  BY <1>1, IndInvHolds, PTL

(***************************************************************************)
(* A subscription requests a DACK at least every BURST frames.             *)
(***************************************************************************)
THEOREM BurstBound == Spec => []DackEveryBurst
<1>1. IndInv => DackEveryBurst
  BY DEF IndInv
<1> QED
  BY <1>1, IndInvHolds, PTL

(***************************************************************************)
(* vmac_rx does not divide by zero in its inter-arrival estimate.          *)
(***************************************************************************)
THEOREM DivisorNonzero == Spec => []AlphaDivisorNonzero
<1>1. IndInv => AlphaDivisorNonzero
  BY DEF IndInv, LastInv, AlphaDivisorNonzero
<1> QED
  BY <1>1, IndInvHolds, PTL

(***************************************************************************)
(* The DACK handler finds in the buffer frame le, or one that replaced it. *)
(***************************************************************************)
THEOREM SlotFilled == Spec => []RetxSlotFilled
<1>1. IndInv => RetxSlotFilled
  <2> SUFFICES ASSUME IndInv, dpc = "scan", InHole, Eligible
               PROVE  buf[le % WINDOW_TX] # NoFrame /\ buf[le % WINDOW_TX].id >= le
    BY DEF RetxSlotFilled
  <2> DEFINE n == buf[le % WINDOW_TX].id
  <2>1. le \in Nat /\ re \in Nat /\ Transmitted \in Nat
    BY DEF IndInv, TypeOK, HandlerType, TxType, Transmitted, SeqInv
  <2>2. le < Transmitted
    <3>1. re < Transmitted /\ le < re
      BY DEF IndInv, HolesInv, InHole
    <3> QED
      BY <2>1, <3>1
  <2>3. le % WINDOW_TX \in Slots
    BY <2>1, SlotTx
  <2>4. buf[le % WINDOW_TX] # NoFrame
    BY <2>1, <2>2 DEF IndInv, BufInv
  <2>5. n \in Nat
    BY <2>3, <2>4 DEF IndInv, TypeOK, TxType, Frames, Ids
  <2>6. n % WINDOW_TX = le % WINDOW_TX /\ Transmitted <= n + WINDOW_TX
    BY <2>3, <2>4 DEF IndInv, BufInv
  <2> HIDE DEF n
  <2>7. n >= le
    <3> SUFFICES ASSUME n < le PROVE FALSE
      BY <2>1, <2>5
    <3>1. le - n < WINDOW_TX
      BY <2>1, <2>2, <2>5, <2>6
    <3> QED
      BY <2>1, <2>5, <2>6, <3>1, ModDistinct
  <2> QED
    BY <2>4, <2>7 DEF n
<1> QED
  BY <1>1, IndInvHolds, PTL

-----------------------------------------------------------------------------
(* The data path implements the service *)

\* The initial state of the data path is that of the service.
LEMMA ServiceInit == Init => Service!Init
  BY DEF Init, Service!Init, Nothing, Ids, Service!Nothing, Service!Frames

(***************************************************************************)
(* Numbering a frame publishes it, an interest joins, the timeout leaves,  *)
(* accepting a frame delivers it for the first time; no other step is seen *)
(* by an application.                                                      *)
(***************************************************************************)
LEMMA ServiceStep ==
    ASSUME IndInv, [Next]_vars PROVE [Service!Next]_(Service!vars)
<1>1. ASSUME UNCHANGED <<sent, live, copies>> PROVE UNCHANGED Service!vars
  BY <1>1 DEF Service!vars
<1>2. CASE TxSeq
  <2>1. Service!Publish
    BY <1>2 DEF TxSeq, Service!Publish, rxVars
  <2> QED
    BY <2>1 DEF Service!Next
<1>3. CASE UNCHANGED <<sent, live, copies>>
  BY <1>1, <1>3
<1>4. ASSUME NEW c \in Consumers, Interest(c) PROVE Service!Next
  <2>1. Service!Join(c)
    BY <1>4 DEF Interest, Service!Join, Nothing, Ids, Service!Nothing, Service!Frames, txVars
  <2> QED
    BY <2>1 DEF Service!Next
<1>5. ASSUME NEW c \in Consumers, Expire(c) PROVE Service!Next
  <2>1. Service!Leave(c)
    BY <1>5 DEF Expire, Service!Leave, txVars
  <2> QED
    BY <2>1 DEF Service!Next
<1>6. ASSUME NEW c \in Consumers, RecvAccept(c) PROVE Service!Next
  <2> DEFINE n == Head(air[c]).id
  <2>1. /\ live[c] /\ air[c] # << >> /\ live' = live /\ sent' = sent
        /\ copies' = [copies EXCEPT ![c][n] = copies[c][n] + 1]
    BY <1>6 DEF RecvAccept, txVars
  <2>2. n \in Ids /\ n < Transmitted
    <3>1. /\ Head(air[c]) = air[c][1] /\ 1 \in 1 .. Len(air[c])
          /\ Head(air[c]).id \in Ids
      BY <2>1, AcceptHead DEF IndInv
    <3> QED
      BY <3>1 DEF IndInv, AirInv
  <2>3. n < sent
    BY <2>2 DEF IndInv, TypeOK, TxType, Transmitted, Ids
  <2>4. copies[c][n] = 0
    <3>1. /\ HeadSeq(c) = n /\ n \in Nat /\ latest[c] \in Nat /\ latest[c] < n + WINDOW
          /\ latest[c] >= n => window[c][Slot(n)] # 1
          /\ copies[c] \in [Ids -> Nat]
      <4>1. TypeOK /\ AirInv
        BY DEF IndInv
      <4>2. HeadSeq(c) = n /\ HeadSeq(c) \in Nat
        BY <1>6, <4>1, AcceptStep
      <4> HIDE DEF n
      <4>3. /\ latest[c] \in Nat /\ latest[c] < HeadSeq(c) + WINDOW
            /\ latest[c] >= HeadSeq(c) => window[c][Slot(HeadSeq(c))] # 1
            /\ copies[c] \in [Ids -> Nat]
        BY <1>6, <4>1, AcceptStep
      <4> QED
        BY <4>2, <4>3
    <3> HIDE DEF n
    <3>2. /\ copies[c][n] <= 1
          /\ n > latest[c] => copies[c][n] = 0
          /\ (n <= latest[c] /\ latest[c] < n + WINDOW) =>
                (copies[c][n] = 1 => window[c][Slot(n)] = 1)
      BY <2>1, <2>2, Zenon DEF IndInv, WindowInv
    <3>3. copies[c][n] \in Nat
      BY <2>2, <3>1
    <3> QED
      BY <3>1, <3>2, <3>3
  <2> HIDE DEF n
  <2>5. copies' = [copies EXCEPT ![c][n] = 1]
    BY <2>1, <2>4
  <2>6. Service!Deliver(c, n)
    BY <2>1, <2>3, <2>4, <2>5 DEF Service!Deliver
  <2>7. n \in Service!Frames
    BY <2>2 DEF Ids, Service!Frames
  <2> QED
    BY <2>6, <2>7 DEF Service!Next
<1>7. TxSeq \/ UNCHANGED sent
  BY NextCases DEF Consumer, TxStore, RecvDack, NextHole, DackDone, HoleDone, SkipFrame,
     CopyFrame, SendFrame, LoseDack, Interest, Expire, RecvDrop, RecvAccept, SendDack,
     LoseData, vars, txVars, IndInv
<1>8. \/ UNCHANGED rxVars
      \/ \E c \in Consumers : Interest(c) \/ Expire(c) \/ RecvAccept(c)
  BY RxCases DEF IndInv
<1> QED
  BY <1>2, <1>3, <1>4, <1>5, <1>6, <1>7, <1>8 DEF rxVars

(***************************************************************************)
(* Every behaviour of the data path is one of the service it offers:       *)
(* whatever is lost, repeated or overtaken on the air, an application sees *)
(* each published payload at most once per subscription, and no other.     *)
(***************************************************************************)
THEOREM ImplementsService == Spec => ServiceSpec
<1>1. IndInv /\ [Next]_vars => [Service!Next]_(Service!vars)
  BY ServiceStep
<1> QED
  BY <1>1, ServiceInit, IndInvHolds, PTL DEF Spec, ServiceSpec, Service!Spec

-----------------------------------------------------------------------------
(* What a DACK asks for *)

\* Only prepDACK makes a new DACK.
LEMMA DackCases ==
    ASSUME TypeOK, [Next]_vars, NEW c \in Consumers, dack'[c] # NoDack, dack'[c] # dack[c]
    PROVE  RecvAccept(c) /\ EndsRound(c, HeadSeq(c)) /\ dack'[c] = NewDack(c, HeadSeq(c))
<1>1. dack \in [Consumers -> Dacks]
  BY DEF TypeOK, RadioType
<1>2. PICK b \in Consumers : Interest(b) \/ RecvAccept(b) \/ SendDack(b)
  BY NextCases DEF Consumer, TxSeq, TxStore, RecvDack, NextHole, DackDone, HoleDone,
     SkipFrame, CopyFrame, SendFrame, LoseDack, RecvDrop, Expire, LoseData, vars
<1>3. ~Interest(b) /\ ~SendDack(b)
  BY <1>1 DEF Interest, SendDack
<1>4. RecvAccept(b)
  BY <1>2, <1>3
<1>5. \/ EndsRound(b, HeadSeq(b)) /\ \E d \in {NewDack(b, HeadSeq(b)), dack[b]} :
             dack' = [dack EXCEPT ![b] = d]
      \/ dack' = dack
  BY <1>4 DEF RecvAccept, HeadSeq
<1>6. PICK d \in {NewDack(b, HeadSeq(b)), dack[b]} :
          dack' = [dack EXCEPT ![b] = d] /\ EndsRound(b, HeadSeq(b))
  BY <1>5
<1>7. b = c /\ d = dack'[c]
  BY <1>1, <1>6
<1> QED
  BY <1>4, <1>6, <1>7

\* What the window does not show as received, the new DACK asks for.
LEMMA DackStep ==
    ASSUME IndInv, IndInv', [Next]_vars, NEW c \in Consumers,
           dack'[c] # NoDack, dack'[c] # dack[c], Cardinality(dack'[c].holes) < HOLES_MAX,
           NEW n \in Ids \ {0}, n <= dack'[c].round * BURST - 2,
           n + WINDOW > latest'[c], copies'[c][n] = 0
    PROVE  n \in Requested(dack'[c].holes)
<1> DEFINE s == HeadSeq(c)
           r == s \div BURST
           lat == r * BURST
<1>1. RecvAccept(c) /\ dack'[c] = NewDack(c, s)
  BY DackCases DEF IndInv
<1>2. s \in Nat /\ latest[c] \in Nat /\ latest'[c] = NewLatest(latest[c], s) /\ live' = live
  BY <1>1, AcceptStep DEF IndInv
<1>3. live'[c] /\ n \in Nat
  BY <1>1, <1>2 DEF RecvAccept, Ids
<1>4. lat \in Nat /\ lat <= s
  BY <1>2, BurstFloor
<1>5. dack'[c].round = r /\ dack'[c].holes = DackHoles(window'[c], lat)
  BY <1>1 DEF NewDack
<1>6. n <= lat - 2
  BY <1>5
<1> HIDE DEF s, r, lat
<1>7. latest'[c] \in Nat /\ s <= latest'[c]
  BY <1>2 DEF NewLatest
<1>8. n <= latest'[c] /\ latest'[c] < n + WINDOW /\ n \in ScanBase(lat) .. lat - 2
  <2> DEFINE top == latest'[c]
  <2>1. top \in Nat /\ s <= top /\ n + WINDOW > top
    BY <1>7
  <2> HIDE DEF top
  <2>2. n <= top /\ top < n + WINDOW
    BY ONLY <1>2, <1>3, <1>4, <1>6, <2>1, WindowAssumption
  <2>3. n \in ScanBase(lat) .. lat - 2
    BY ONLY <1>2, <1>3, <1>4, <1>6, <2>1, WindowAssumption DEF ScanBase
  <2> QED
    BY <2>2, <2>3 DEF top
<1>9. window'[c][Slot(n)] \in {0, 1}
  BY <1>3, <1>8 DEF IndInv, KnownInv
<1>10. window'[c][Slot(n)] # 1
  BY <1>3, <1>8 DEF IndInv, WindowInv
<1>11. Lost(window'[c], n)
  BY <1>9, <1>10 DEF Lost
<1> QED
  BY <1>4, <1>5, <1>8, <1>11, LossHasHole

(***************************************************************************)
(* A new DACK asks for every payload the subscription misses within the    *)
(* window, but for frame 0, the last frame of the round and what exceeds   *)
(* HOLES_MAX holes (DackAsksForMissing): vmac_rx keeps the window and      *)
(* prepDACK reads it without leaving a loss out.                           *)
(***************************************************************************)
THEOREM MissingAskedFor == Spec => DackAsksForMissing
<1>1. IndInv /\ IndInv' /\ [Next]_vars =>
          [\A c \in Consumers :
              LET d == dack'[c]
              IN  (d # NoDack /\ d # dack[c] /\ Cardinality(d.holes) < HOLES_MAX) =>
                     \A n \in Ids \ {0} :
                        (/\ n <= d.round * BURST - 2
                         /\ n + WINDOW > latest'[c]
                         /\ copies'[c][n] = 0) => n \in Requested(d.holes)]_vars
  BY DackStep
<1> QED
  BY <1>1, IndInvHolds, PTL DEF Spec, DackAsksForMissing
=============================================================================
