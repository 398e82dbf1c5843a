----------------------------- MODULE Multicast ------------------------------
(***************************************************************************)
(* The V-MAC data path of one encoding: the producer's vmac_tx (tx.c) and  *)
(* its DACK handler in vmac_rx (rx.c), the consumers' vmac_tx (interest),  *)
(* vmac_rx (data), prepDACK and __sendDACK (dack.c), and the radio between *)
(* them, which is first-in first-out and loses frames.                     *)
(*                                                                         *)
(* A frame is its u16 sequence number and, as a ghost, the index id of the *)
(* payload in the order the application published it.                      *)
(*                                                                         *)
(* Taken from the environment: one application thread publishes on the     *)
(* encoding, at least once in 30 s (the entry does not expire), and the    *)
(* skb_copy of vmac_tx finds memory.                                       *)
(***************************************************************************)
EXTENDS RxWindow, Sequences

CONSTANTS
    Consumers,      \* the radios that may subscribe
    WINDOW_TX,      \* length of retransmission_buffer[], 500 in vmac.h
    PACE,           \* rounds between retransmissions of a frame, literal 6
    MAXRETX,        \* retransmissions one DACK may cause, maxretx = 20
    PTR_BYTES,      \* timer[] bytes that overlay retransmission_buffer[WINDOW_TX]
    U8, U16,        \* 2^8 and 2^16, the ranges of timer[] and of seq
    LAG,            \* data frames sent between the copy and the send of a retransmission
    StaleWindows,   \* what vmalloc may leave in window[]
    MAXSEND,        \* bound: frames published in a behaviour
    CHANMAX         \* bound: frames, or DACKs, on the air

(***************************************************************************)
(* LAG is what the gap between WINDOW and WINDOW_TX (200 frames) allows.   *)
(***************************************************************************)
ASSUME MulticastAssumption ==
    /\ WINDOW_TX \in Nat \ {0}
    /\ LAG \in Nat \ {0}
    /\ WINDOW_TX + LAG <= WINDOW
    /\ PACE \in Nat /\ MAXRETX \in Nat
    /\ PTR_BYTES \in 1 .. WINDOW_TX
    /\ U8 \in Nat \ {0} /\ U16 \in Nat \ {0}
    /\ StaleWindows \subseteq Windows
    /\ MAXSEND \in Nat
    /\ CHANMAX \in Nat \ {0}

VARIABLES
    \* producer: struct encoding_tx, the vmac_tx and the DACK handler in progress
    seq,            \* vmact->seq
    buf,            \* vmact->retransmission_buffer
    timer,          \* vmact->timer, the pacing of retransmissions
    tx,             \* the frame numbered but not yet stored and sent, or NoFrame
    sent,           \* ghost: payloads numbered so far
    dpc,            \* DACK handler: "idle", or the loop it is in
    dseq,           \* DACK handler: the snapshot of vmact->seq
    dround, holes,  \* DACK handler: the round, and the holes still to serve
    le, re,         \* DACK handler: the hole being served
    counter,        \* DACK handler: frames retransmitted
    skb2, fresh,    \* DACK handler: the last copy, and whether it is still its own
    at,             \* ghost: frames transmitted when skb2 was copied
    \* consumers: struct encoding_rx
    live,           \* live[c]: c has an entry
    latest, window, lastin, round, firstFrame, SecondFrame,
    dack,           \* dac_info.dack while send = 1, or NoDack
    copies,         \* ghost: copies[c][n], times payload n went to c's application
    \* radio
    air,            \* air[c]: data frames on their way to c
    dackq           \* DACKs on their way to the producer

txVars == <<seq, buf, timer, tx, sent>>
dackVars == <<dpc, dseq, dround, holes, le, re, counter, skb2, fresh, at>>
rxVars == <<live, latest, window, lastin, round, firstFrame, SecondFrame, copies>>
vars == <<txVars, dackVars, rxVars, dack, air, dackq>>

Ids == 0 .. MAXSEND - 1
Frames == [seq : 0 .. U16 - 1, id : Ids]
NoFrame == [seq |-> -1, id |-> -1]
Slots == 0 .. WINDOW_TX - 1
Hole == [le : Nat, re : Nat]
Dacks == [round : Nat, holes : SUBSET Hole]
NoDack == [round |-> 0, holes |-> {}]
Nothing == [n \in Ids |-> 0]

\* Frames handed to the radio at least once.
Transmitted == IF tx = NoFrame THEN sent ELSE sent - 1

TxType ==
    /\ seq \in 0 .. U16 - 1
    /\ sent \in 0 .. MAXSEND
    /\ tx \in Frames \cup {NoFrame}
    /\ buf \in [Slots -> Frames \cup {NoFrame}]
    /\ timer \in [Slots -> 0 .. U8 - 1]

HandlerType ==
    /\ dpc \in {"idle", "hole", "scan", "send"}
    /\ dseq \in 0 .. U16 - 1
    /\ dround \in Nat
    /\ holes \in SUBSET Hole
    /\ le \in Nat /\ re \in Nat
    /\ counter \in 0 .. MAXRETX
    /\ skb2 \in Frames \cup {NoFrame}
    /\ fresh \in {0, 1}
    /\ at \in 0 .. MAXSEND

RxType ==
    /\ live \in [Consumers -> BOOLEAN]
    /\ latest \in [Consumers -> 0 .. U16 - 1]
    /\ window \in [Consumers -> Windows]
    /\ lastin \in [Consumers -> 0 .. U16 - 1]
    /\ round \in [Consumers -> 0 .. U16 - 1]
    /\ firstFrame \in [Consumers -> {0, 1}]
    /\ SecondFrame \in [Consumers -> {0, 1}]
    /\ copies \in [Consumers -> [Ids -> Nat]]

RadioType ==
    /\ dack \in [Consumers -> Dacks]
    /\ air \in [Consumers -> Seq(Frames)]
    /\ dackq \in Seq(Dacks)

TypeOK == TxType /\ HandlerType /\ RxType /\ RadioType

Init ==
    /\ seq = 0 /\ sent = 0 /\ tx = NoFrame
    /\ buf = [k \in Slots |-> NoFrame]    \* in the code: not initialised, and
    /\ timer = [k \in Slots |-> 0]        \* not read before vmac_tx wrote the slot
    /\ dpc = "idle" /\ dseq = 0 /\ dround = 0 /\ holes = {} /\ le = 0 /\ re = 0
    /\ counter = 0 /\ skb2 = NoFrame /\ fresh = 0 /\ at = 0
    /\ live = [c \in Consumers |-> FALSE]
    /\ latest = [c \in Consumers |-> 0]
    /\ window \in [Consumers -> StaleWindows]
    /\ lastin = [c \in Consumers |-> 0]
    /\ round = [c \in Consumers |-> 0]
    /\ firstFrame = [c \in Consumers |-> 0]
    /\ SecondFrame = [c \in Consumers |-> 0]
    /\ copies = [c \in Consumers |-> Nothing]
    /\ dack = [c \in Consumers |-> NoDack]
    /\ air = [c \in Consumers |-> << >>]
    /\ dackq = << >>

-----------------------------------------------------------------------------
(* Producer: vmac_tx with a data frame *)

(***************************************************************************)
(* The frame takes its number under seqlock and then clears the pacing of  *)
(* its slot.  The two are one step: a DACK handler with the new seq leaves *)
(* that slot alone, since the frame in it is no longer within WINDOW_TX.   *)
(***************************************************************************)
TxSeq ==
    /\ tx = NoFrame
    /\ sent < MAXSEND
    /\ tx' = [seq |-> seq, id |-> sent]
    /\ sent' = sent + 1
    /\ seq' = (seq + 1) % U16
    /\ timer' = [timer EXCEPT ![seq % WINDOW_TX] = 0]
    /\ UNCHANGED <<buf, dackVars, rxVars, dack, air, dackq>>

\* Seeded fault: the copy goes to the next slot.
StoreSlotOff(s) == (s + 1) % WINDOW_TX

StoreSlot(s) == s % WINDOW_TX

\* It is copied into the retransmission buffer, and broadcast.
TxStore ==
    /\ tx # NoFrame
    /\ skb2 # NoFrame => Transmitted < at + LAG
    /\ \A c \in Consumers : Len(air[c]) < CHANMAX
    /\ buf' = [buf EXCEPT ![StoreSlot(tx.seq)] = tx]
    /\ air' = [c \in Consumers |-> Append(air[c], tx)]
    /\ tx' = NoFrame
    /\ UNCHANGED <<seq, timer, sent, dackVars, rxVars, dack, dackq>>

-----------------------------------------------------------------------------
(* Producer: vmac_rx with a DACK *)

\* The handler snapshots seq under seqlock; vmac_tx goes on while it runs.
RecvDack ==
    /\ dpc = "idle"
    /\ dackq # << >>
    /\ dpc' = "hole"
    /\ dseq' = seq
    /\ dround' = Head(dackq).round
    /\ holes' = Head(dackq).holes
    /\ counter' = 0
    /\ skb2' = NoFrame
    /\ dackq' = Tail(dackq)
    /\ UNCHANGED <<txVars, le, re, fresh, at, rxVars, dack, air>>

\* The outer loop: the next hole, in the order prepDACK wrote them.
NextHole ==
    /\ dpc = "hole"
    /\ \E h \in holes :
          /\ \A g \in holes : h.re <= g.re
          /\ le' = h.le
          /\ re' = h.re
          /\ holes' = holes \ {h}
    /\ dpc' = "scan"
    /\ UNCHANGED <<txVars, dseq, dround, counter, skb2, fresh, at, rxVars, dack, air, dackq>>

\* The handler returns; its locals are gone.
DackDone ==
    /\ dpc = "hole"
    /\ holes = {}
    /\ dpc' = "idle"
    /\ dseq' = 0 /\ dround' = 0 /\ le' = 0 /\ re' = 0
    /\ counter' = 0 /\ skb2' = NoFrame /\ fresh' = 0 /\ at' = 0
    /\ UNCHANGED <<txVars, holes, rxVars, dack, air, dackq>>

InHole == le < re /\ le < dseq

\* Frame le may be retransmitted: it was not in the last rounds, and is still buffered.
Eligible ==
    /\ dround >= timer[le % WINDOW_TX]
    /\ le >= (IF dseq < WINDOW_TX THEN 0 ELSE dseq - WINDOW_TX)

(***************************************************************************)
(* The test retransmission_buffer[le > WINDOW_TX ? le % WINDOW_TX : le]:   *)
(* for le = WINDOW_TX it reads past the array, where timer[] begins.       *)
(***************************************************************************)
SlotTest ==
    IF le = WINDOW_TX THEN \E k \in 0 .. PTR_BYTES - 1 : timer[k] # 0
                      ELSE buf[le % WINDOW_TX] # NoFrame

\* The inner loop is over, or broken off because the handler sent its share.
HoleDone ==
    /\ dpc = "scan"
    /\ ~InHole \/ (Eligible /\ counter >= MAXRETX)
    /\ dpc' = "hole"
    /\ UNCHANGED <<txVars, dseq, dround, holes, le, re, counter, skb2, fresh, at,
                   rxVars, dack, air, dackq>>

SkipFrame ==
    /\ dpc = "scan"
    /\ InHole /\ ~Eligible
    /\ le' = le + 1
    /\ UNCHANGED <<txVars, dpc, dseq, dround, holes, re, counter, skb2, fresh, at,
                   rxVars, dack, air, dackq>>

\* Seeded fault: the pacing is not truncated to a byte.
PaceWide(r) == r + PACE

\* The first round that may ask for the frame again, in the u8 timer[].
Pace(r) == (r + PACE) % U8

(***************************************************************************)
(* skb2 becomes a copy of the buffered frame, or NULL if skb_copy finds no *)
(* memory.  When the slot test fails skb2 keeps its value from an earlier  *)
(* iteration.  The pacing is set in either case, and skb2 is sent if it is *)
(* not NULL.                                                               *)
(***************************************************************************)
CopyFrame ==
    /\ dpc = "scan"
    /\ InHole /\ Eligible /\ counter < MAXRETX
    /\ timer' = [timer EXCEPT ![le % WINDOW_TX] = Pace(dround)]
    /\ \/ /\ SlotTest
          /\ skb2' \in {buf[le % WINDOW_TX], NoFrame}
          /\ counter' = counter + 1
          /\ fresh' = 1
          /\ at' = Transmitted
       \/ /\ ~SlotTest
          /\ fresh' = 0
          /\ UNCHANGED <<skb2, counter, at>>
    /\ \/ skb2' # NoFrame /\ dpc' = "send" /\ le' = le
       \/ skb2' = NoFrame /\ dpc' = "scan" /\ le' = le + 1
    /\ UNCHANGED <<seq, buf, tx, sent, dseq, dround, holes, re, rxVars, dack, air, dackq>>

(***************************************************************************)
(* vmac_send_hack(skb2).  A skb2 left over from an earlier iteration was   *)
(* freed when it was sent: what goes out then is that frame once more, or  *)
(* nothing a consumer recognises.                                          *)
(***************************************************************************)
SendFrame ==
    /\ dpc = "send"
    /\ \A c \in Consumers : Len(air[c]) < CHANMAX
    /\ \/ air' = [c \in Consumers |-> Append(air[c], skb2)]
       \/ fresh = 0 /\ UNCHANGED air
    /\ dpc' = "scan"
    /\ le' = le + 1
    /\ UNCHANGED <<txVars, dseq, dround, holes, re, counter, skb2, fresh, at,
                   rxVars, dack, dackq>>

-----------------------------------------------------------------------------
(* Consumer *)

\* vmac_tx with an interest for an encoding without entry.
Interest(c) ==
    /\ ~live[c]
    /\ live' = [live EXCEPT ![c] = TRUE]
    /\ \E w \in StaleWindows : window' = [window EXCEPT ![c] = w]
    /\ latest' = [latest EXCEPT ![c] = 0]
    /\ lastin' = [lastin EXCEPT ![c] = 0]
    /\ round' = [round EXCEPT ![c] = 0]
    /\ firstFrame' = [firstFrame EXCEPT ![c] = 0]
    /\ SecondFrame' = [SecondFrame EXCEPT ![c] = 0]
    /\ dack' = [dack EXCEPT ![c] = NoDack]
    /\ copies' = [copies EXCEPT ![c] = Nothing]
    /\ UNCHANGED <<txVars, dackVars, air, dackq>>

(***************************************************************************)
(* __cleanup_rx, 30 s after the last data frame or interest.  prepDACK     *)
(* arms dack_timer at most 100 jiffies ahead, so no DACK is pending.       *)
(***************************************************************************)
Expire(c) ==
    /\ live[c]
    /\ dack[c] = NoDack
    /\ live' = [live EXCEPT ![c] = FALSE]
    /\ UNCHANGED <<txVars, dackVars, latest, window, lastin, round, firstFrame,
                   SecondFrame, copies, dack, air, dackq>>

\* vmac_rx with a data frame that is dropped: no entry, or received before.
RecvDrop(c) ==
    /\ air[c] # << >>
    /\ live[c] => Duplicate(window[c], latest[c], Head(air[c]).seq)
    /\ air' = [air EXCEPT ![c] = Tail(air[c])]
    /\ UNCHANGED <<txVars, dackVars, rxVars, dack, dackq>>

\* Seeded fault: the round one frame too long.
EndsRoundLate(c, s) == round[c] < s - BURST

\* The round a frame ends, if any: round <= seq - 5.
EndsRound(c, s) == round[c] <= s - BURST

\* prepDACK called for the frame s just accepted.
NewDack(c, s) ==
    LET r == s \div BURST IN [round |-> r, holes |-> DackHoles(window'[c], r * BURST)]

(***************************************************************************)
(* vmac_rx with a data frame that is accepted: window, inter-arrival       *)
(* estimate, DACK if the frame ends a round, nl_send to the application.   *)
(* The DACK is given up when there is no memory or dacklok is held, and    *)
(* takes the place of one that is still waiting for dack_timer.            *)
(***************************************************************************)
RecvAccept(c) ==
    /\ air[c] # << >>
    /\ live[c]
    /\ LET f == Head(air[c])
           s == f.seq
       IN  /\ ~Duplicate(window[c], latest[c], s)
           /\ window' = [window EXCEPT ![c] = Accept(window[c], latest[c], s)]
           /\ latest' = [latest EXCEPT ![c] = NewLatest(latest[c], s)]
           /\ lastin' = [lastin EXCEPT ![c] = s]
           /\ \E jiffies \in {0, 1} :
                 /\ firstFrame' = [firstFrame EXCEPT ![c] =
                       IF firstFrame[c] = 0 THEN jiffies
                       ELSE IF SecondFrame[c] = 0 THEN 0 ELSE firstFrame[c]]
                 /\ SecondFrame' = [SecondFrame EXCEPT ![c] =
                       IF firstFrame[c] # 0 /\ SecondFrame[c] = 0 THEN jiffies
                       ELSE SecondFrame[c]]
           /\ \/ /\ EndsRound(c, s)
                 /\ round' = [round EXCEPT ![c] = s]
                 /\ \E d \in {NewDack(c, s), dack[c]} : dack' = [dack EXCEPT ![c] = d]
              \/ /\ ~EndsRound(c, s)
                 /\ UNCHANGED <<round, dack>>
           /\ copies' = [copies EXCEPT ![c][f.id] = copies[c][f.id] + 1]
    /\ air' = [air EXCEPT ![c] = Tail(air[c])]
    /\ UNCHANGED <<txVars, dackVars, live, dackq>>

\* __sendDACK: dack_timer expires.
SendDack(c) ==
    /\ dack[c] # NoDack
    /\ Len(dackq) < CHANMAX
    /\ dackq' = Append(dackq, dack[c])
    /\ dack' = [dack EXCEPT ![c] = NoDack]
    /\ UNCHANGED <<txVars, dackVars, rxVars, air>>

-----------------------------------------------------------------------------
(* Radio *)

LoseData(c) ==
    /\ air[c] # << >>
    /\ air' = [air EXCEPT ![c] = Tail(air[c])]
    /\ UNCHANGED <<txVars, dackVars, rxVars, dack, dackq>>

LoseDack ==
    /\ dackq # << >>
    /\ dackq' = Tail(dackq)
    /\ UNCHANGED <<txVars, dackVars, rxVars, dack, air>>

Producer == TxSeq \/ TxStore \/ RecvDack \/ NextHole \/ DackDone
            \/ HoleDone \/ SkipFrame \/ CopyFrame \/ SendFrame

Consumer(c) == Interest(c) \/ Expire(c) \/ RecvDrop(c) \/ RecvAccept(c)
               \/ SendDack(c) \/ LoseData(c)

Next == Producer \/ LoseDack \/ \E c \in Consumers : Consumer(c)

Spec == Init /\ [][Next]_vars

-----------------------------------------------------------------------------
(***************************************************************************)
(* vmac_rx hands no payload to the application twice in one subscription,  *)
(* however often the producer retransmits it and however late the copies   *)
(* arrive: the duplicate test compares only s % WINDOW, and is right only  *)
(* if no frame older than the window ever reaches it.                      *)
(***************************************************************************)
NoDuplicateDelivery ==
    \A c \in Consumers, n \in Ids : live[c] => copies[c][n] <= 1

(***************************************************************************)
(* vmac_rx takes for a duplicate only a payload the application has had.   *)
(* Frame 0 is left out: its cell of window[] is read before it is written, *)
(* and if the memory held a 1 the frame is lost.                           *)
(***************************************************************************)
NoFreshDrop ==
    \A c \in Consumers :
        LET f == Head(air[c])
        IN  (live[c] /\ air[c] # << >> /\ f.id # 0
             /\ Duplicate(window[c], latest[c], f.seq)) => copies[c][f.id] > 0

(***************************************************************************)
(* A DACK is requested at least every BURST frames: the frame that opened  *)
(* the current round is never BURST or more behind the newest frame, in    *)
(* whatever order losses, jumps and retransmissions arrive.                *)
(***************************************************************************)
DackEveryBurst ==
    \A c \in Consumers :
        live[c] => round[c] <= latest[c] /\ latest[c] < round[c] + BURST

(***************************************************************************)
(* vmac_rx divides by seq - lastin when it meets the second frame: a frame *)
(* with the number of the one before it would be a division by zero, and   *)
(* must have been dropped as a duplicate before it gets there.             *)
(***************************************************************************)
AlphaDivisorNonzero ==
    \A c \in Consumers :
        (live[c] /\ firstFrame[c] # 0 /\ SecondFrame[c] = 0)
            => Duplicate(window[c], latest[c], lastin[c])

(***************************************************************************)
(* The DACK handler follows a pointer of retransmission_buffer[] only      *)
(* after vmac_tx has stored it, though it checks le against seq, which     *)
(* vmac_tx advances first; and what it finds there is frame le, or the     *)
(* newer one that replaced it meanwhile, never an older one.               *)
(***************************************************************************)
RetxSlotFilled ==
    (dpc = "scan" /\ InHole /\ Eligible)
        => LET f == buf[le % WINDOW_TX] IN f # NoFrame /\ f.id >= le

(***************************************************************************)
(* A new DACK asks for every payload the subscription misses that is still *)
(* within the window, except frame 0, the last frame of the round, and     *)
(* what did not fit into HOLES_MAX holes.                                  *)
(***************************************************************************)
DackAsksForMissing ==
    [][\A c \in Consumers :
          LET d == dack'[c]
          IN  (d # NoDack /\ d # dack[c] /\ Cardinality(d.holes) < HOLES_MAX) =>
                 \A n \in Ids \ {0} :
                    (/\ n <= d.round * BURST - 2
                     /\ n + WINDOW > latest'[c]
                     /\ copies'[c][n] = 0) => n \in Requested(d.holes)]_vars

(***************************************************************************)
(* The data path implements the service it offers the applications: a      *)
(* frame is published when it gets its number, subscriptions are the       *)
(* entries of the receive table, deliveries the calls of nl_send.          *)
(***************************************************************************)
Service == INSTANCE MulticastService
              WITH published <- sent, member <- live, delivered <- copies

ServiceSpec == Service!Spec
=============================================================================
