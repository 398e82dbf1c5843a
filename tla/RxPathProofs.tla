---------------------------- MODULE RxPathProofs ----------------------------
(***************************************************************************)
(* Proofs of the safety properties of RxPath, for any number of recv_bufs, *)
(* skbs, transfers and starts of the driver.                               *)
(***************************************************************************)
EXTENDS RxPath, FiniteSetTheorems, TLAPS

USE RxPathAssumption

\* A process in one of these steps uses the recv_buf in cur.
Busy == {"port", "alloc", "park", "submit", "wake", "detach"}

\* No recv_buf has two users: what ~Clash says, without counting.
Exclusive ==
    /\ \A p, q \in Procs : (pc[p] \in Busy /\ pc[q] \in Busy /\ cur[p] = cur[q]) => p = q
    /\ \A p \in Procs : pc[p] \in Busy => cur[p] \notin inflight

\* A recv_buf that waits has no user, and inirp_init finds the next ones unused.
UserInv ==
    ~mixed =>
        /\ Exclusive
        /\ \A p \in Procs : pc[p] \in Busy => cur[p] \notin pend
        /\ inflight \cap pend = {}
        /\ pc["open"] \in Busy =>
              \A b \in RecvBufs : b > cur["open"] =>
                  /\ b \notin inflight /\ b \notin pend
                  /\ \A p \in Procs : pc[p] \in Busy => cur[p] # b

\* A URB in flight, or about to be, has an skb; the tasklet starts without one.
PskbInv ==
    Exclusive =>
        /\ \A b \in inflight : pskb[b] # None
        /\ \A p \in Procs : pc[p] = "submit" => pskb[cur[p]] # None
        /\ pc["tasklet"] = "port" => pskb[cur["tasklet"]] = None

\* The skbs of the recv_bufs, without the pointer that the completion has yet to clear.
own == [b \in RecvBufs |-> IF Stale(b) THEN None ELSE pskb[b]]

\* SkbInOnePlace by places instead of by skbs; and the tasklet has an skb while it handles one.
PlaceInv ==
    /\ \A i, j \in 1 .. Len(rxq) : rxq[i] = rxq[j] => i = j
    /\ \A b, c \in RecvBufs : (own[b] = own[c] /\ own[b] # None) => b = c
    /\ \A i \in 1 .. Len(rxq) : rxq[i] \notin freeq /\ rxq[i] # tskb
    /\ \A b \in RecvBufs : own[b] \notin freeq /\ (own[b] # None => own[b] # tskb)
    /\ \A i \in 1 .. Len(rxq) : \A b \in RecvBufs : own[b] # rxq[i]
    /\ tskb \notin freeq
    /\ pc["tasklet"] \in {"handle", "release"} => tskb \in Skbs

\* The transfers handled, the one in the tasklet and those in the queue are in order.
OrderInv ==
    /\ \A i, j \in 1 .. Len(handled) : i < j => handled[i] < handled[j]
    /\ \A i \in 1 .. Len(handled) : handled[i] <= received
    /\ \A i, j \in 1 .. Len(rxq) : i < j => data[rxq[i]] < data[rxq[j]]
    /\ \A i \in 1 .. Len(rxq) : 0 < data[rxq[i]] /\ data[rxq[i]] <= received
    /\ \A i \in 1 .. Len(rxq) : \A j \in 1 .. Len(handled) : handled[j] < data[rxq[i]]
    /\ pc["tasklet"] = "handle" =>
          /\ 0 < data[tskb] /\ data[tskb] <= received
          /\ \A i \in 1 .. Len(handled) : handled[i] < data[tskb]
          /\ \A i \in 1 .. Len(rxq) : data[tskb] < data[rxq[i]]

\* Transfers given to recvbuf2recvframe, and the one about to be.
Taken == Len(handled) + (IF pc["tasklet"] = "handle" THEN 1 ELSE 0)

\* Nothing happens before the first start, and nothing is lost before the driver stops.
FirstInv ==
    /\ starts = 0 =>
          /\ stopped /\ ~sched /\ rxq = <<>> /\ handled = <<>> /\ received = 0 /\ inflight = {}
          /\ freeq = Prealloc /\ \A p \in Procs : pc[p] = "idle"
    /\ (starts = 1 /\ ~stopped) =>
          /\ \A i \in 1 .. Len(handled) : handled[i] = i
          /\ pc["tasklet"] = "handle" => data[tskb] = Taken
          /\ \A i \in 1 .. Len(rxq) : data[rxq[i]] = Taken + i
          /\ received = Taken + Len(rxq)

\* While the tasklet is not to run, only the completion that will wake it has queued an skb.
WakeInv ==
    (~stopped /\ ~leftover /\ ~Running) =>
        IF pc["irq"] = "wake" THEN Len(rxq) <= 1 ELSE rxq = <<>>

\* The driver runs, and nothing has happened that NeverDeaf excepts.
Good == ~stopped /\ ~dropped /\ ~missed /\ ~mixed

\* Some recv_buf and some skb are around, and no recv_buf waits for an skb that is free.
AliveInv ==
    (Prealloc # {} /\ Good) =>
        /\ inflight # {} \/ pend # {} \/ \E p \in Procs : pc[p] \in Busy
        /\ \/ freeq # {} \/ rxq # <<>> \/ inflight # {}
           \/ pc["tasklet"] \in {"handle", "release"}
           \/ \E p \in Procs : pc[p] = "submit" \/ (pc[p] = "port" /\ pskb[cur[p]] # None)
           \/ starts > 1 /\ pc["open"] \in {"port", "alloc", "park"}
        /\ pend # {} =>
              /\ \A s, t \in freeq : s = t
              /\ freeq # {} => pc["tasklet"] \in {"repost", "port"}

IndInv ==
    /\ TypeOK /\ UserInv /\ PskbInv /\ PlaceInv /\ OrderInv /\ FirstInv /\ WakeInv /\ AliveInv

-----------------------------------------------------------------------------
(* Sequences *)

\* The queue after skb_queue_tail.
LEMMA AppendFacts ==
    ASSUME NEW S, NEW q \in Seq(S), NEW x \in S
    PROVE  /\ Append(q, x) \in Seq(S) /\ Len(Append(q, x)) = Len(q) + 1
           /\ \A i \in 1 .. Len(q) : Append(q, x)[i] = q[i]
           /\ Append(q, x)[Len(q) + 1] = x
  OBVIOUS

\* The queue after skb_dequeue.
LEMMA TailFacts ==
    ASSUME NEW S, NEW q \in Seq(S), q # <<>>
    PROVE  /\ Tail(q) \in Seq(S) /\ Len(Tail(q)) = Len(q) - 1 /\ Len(q) \in Nat /\ Len(q) >= 1
           /\ Head(q) = q[1] /\ Head(q) \in S
           /\ \A i \in 1 .. Len(q) - 1 : Tail(q)[i] = q[i + 1]
  OBVIOUS

-----------------------------------------------------------------------------
(* The operators of the specification *)

\* Numbers at the ends of their ranges.
LEMMA NumFacts == /\ 1 \in RecvBufs /\ 0 \in 0 .. MAXRX
                  /\ \A n \in 0 .. MAXSTART : n < MAXSTART => n + 1 \in 0 .. MAXSTART
                  /\ \A n \in 0 .. MAXRX : n < MAXRX => n + 1 \in 0 .. MAXRX
  BY DEF RecvBufs

\* Recv_bufs that wait are recv_bufs.
LEMMA PendFacts == ASSUME TypeOK PROVE \A b \in pend : b \in RecvBufs
  BY DEF TypeOK

\* A free skb is one of the free ones.
LEMMA AnyOfFacts == ASSUME NEW S, S # {} PROVE AnyOf(S) \in S
  BY DEF AnyOf

\* What rtw_skb_alloc returns is nowhere else.
LEMMA HeapFacts ==
    ASSUME TypeOK, NEW s \in Heap
    PROVE  /\ s \in Skbs /\ s # None /\ s \notin freeq /\ s # tskb
           /\ \A i \in 1 .. Len(rxq) : rxq[i] # s
           /\ \A b \in RecvBufs : own[b] # s
<1>1. DOMAIN rxq = 1 .. Len(rxq)
  BY DEF TypeOK
<1> QED
  BY <1>1 DEF Heap, Holders, own

Steps == {"idle", "port", "alloc", "park", "submit", "wake", "detach", "dequeue", "handle",
          "release", "repost"}

\* Process p is done with its recv_buf, or inirp_init turns to the next one.
Returned(p, ok) ==
    /\ pc' \in [Procs -> Steps] /\ cur' \in [Procs -> RecvBufs]
    /\ \A q \in Procs : q # p => pc'[q] = pc[q] /\ cur'[q] = cur[q]
    /\ \/ pc'[p] = (IF p = "tasklet" THEN "dequeue" ELSE "idle") /\ cur'[p] = cur[p]
       \/ p = "open" /\ ok /\ pc'[p] = "port" /\ cur'[p] = cur[p] + 1

\* Return does what Returned says.
LEMMA ReturnFacts ==
    ASSUME TypeOK, NEW p \in Procs, NEW ok \in BOOLEAN, Return(p, ok) PROVE Returned(p, ok)
<1> USE DEF TypeOK, Steps, Procs, Step
<1>1. CASE pc' = [pc EXCEPT ![p] = IF p = "tasklet" THEN "dequeue" ELSE "idle"] /\ UNCHANGED cur
  BY <1>1 DEF Returned
<1>2. CASE /\ p = "open" /\ ok /\ cur[p] < NR_RECVBUFF
           /\ cur' = [cur EXCEPT ![p] = cur[p] + 1] /\ pc' = [pc EXCEPT ![p] = "port"]
  <2>1. cur[p] + 1 \in RecvBufs
    BY <1>2 DEF RecvBufs
  <2> QED
    BY <1>2, <2>1 DEF Returned
<1> QED
  BY <1>1, <1>2 DEF Return, More

\* While no completion is between queueing and clearing, own is what the pointers say.
LEMMA OwnAll == ASSUME TypeOK, pc["irq"] \notin {"wake", "detach"} PROVE own = pskb
  BY DEF TypeOK, own, Stale

\* A completion between queueing and clearing is left alone with its recv_buf.
LEMMA OwnSame ==
    ASSUME UNCHANGED pskb, cur'["irq"] = cur["irq"],
           pc'["irq"] \in {"wake", "detach"} <=> pc["irq"] \in {"wake", "detach"}
    PROVE  own' = own
<1>1. \A b \in RecvBufs : Stale(b)' <=> Stale(b)
  BY DEF Stale
<1> QED
  BY <1>1 DEF own

\* The recv_buf of a process in usb_read_port is not the one of such a completion.
LEMMA OwnCur ==
    ASSUME TypeOK, Exclusive, NEW p \in Procs, pc[p] \in Busy \ {"wake", "detach"}
    PROVE  /\ own \in [RecvBufs -> Skbs \cup {None}]
           /\ own[cur[p]] = pskb[cur[p]]
           /\ \A s : (/\ pskb' = [pskb EXCEPT ![cur[p]] = s] /\ UNCHANGED cur
                      /\ pc'["irq"] \in {"wake", "detach"} <=> pc["irq"] \in {"wake", "detach"})
                         => own' = [own EXCEPT ![cur[p]] = s]
<1>1. ~Stale(cur[p]) /\ cur[p] \in RecvBufs
  BY DEF TypeOK, Exclusive, Stale, Busy, Procs
<1>2. own \in [RecvBufs -> Skbs \cup {None}] /\ own[cur[p]] = pskb[cur[p]]
  BY <1>1 DEF own, TypeOK
<1>3. ASSUME NEW s, pskb' = [pskb EXCEPT ![cur[p]] = s], UNCHANGED cur,
             pc'["irq"] \in {"wake", "detach"} <=> pc["irq"] \in {"wake", "detach"}
      PROVE  own' = [own EXCEPT ![cur[p]] = s]
  <2>1. \A b \in RecvBufs : Stale(b)' <=> Stale(b)
    BY <1>3 DEF Stale
  <2>2. \A b \in RecvBufs : pskb'[b] = IF b = cur[p] THEN s ELSE pskb[b]
    BY <1>3 DEF TypeOK
  <2> QED
    BY <1>1, <2>1, <2>2 DEF own
<1> QED
  BY <1>2, <1>3

\* A process that does something does it after the first start.
LEMMA Started == ASSUME IndInv, NEW p \in Procs, pc[p] # "idle" PROVE starts # 0
  BY DEF IndInv, FirstInv

\* A process that goes on with its recv_buf does not disturb the others.
LEMMA SameUsers ==
    ASSUME UserInv, UNCHANGED <<cur, pend, inflight, mixed>>,
           \A q \in Procs : pc'[q] \in Busy <=> pc[q] \in Busy
    PROVE  UserInv'
<1>1. Exclusive' <=> Exclusive
  BY DEF Exclusive
<1>2. "open" \in Procs
  BY DEF Procs
<1> QED
  BY <1>1, <1>2 DEF UserInv

\* Steps that leave queue, tasklet and transfers alone, after the first start.
LEMMA SameTransfers ==
    ASSUME FirstInv, UNCHANGED <<rxq, tskb, handled, data, received, starts>>,
           stopped' \/ ~stopped, starts # 0,
           pc'["tasklet"] = "handle" <=> pc["tasklet"] = "handle"
    PROVE  FirstInv'
<1>1. Taken' = Taken
  BY DEF Taken
<1> QED
  BY <1>1 DEF FirstInv

-----------------------------------------------------------------------------
(* Steps *)

\* usb_read_port finds an skb for the recv_buf.
LEMMA ReadPortKeeps ==
    ASSUME IndInv, Exclusive, NEW p \in Procs, ReadPort(p) PROVE IndInv'
<1> USE DEF IndInv, TypeOK, counters, ghostVars
<1> DEFINE b == cur[p]
           Ended == stopped /\ Returned(p, FALSE) /\ UNCHANGED <<pskb, freeq>>
           Has == pskb[b] # None /\ Step(p, "submit") /\ UNCHANGED <<pskb, freeq, cur>>
           Takes == /\ pskb[b] = None /\ Step(p, "submit") /\ UNCHANGED cur
                    /\ \E s \in freeq : /\ pskb' = [pskb EXCEPT ![b] = s]
                                        /\ freeq' = freeq \ {s}
           Lacks == /\ pskb[b] = None /\ freeq = {} /\ Step(p, "alloc")
                    /\ UNCHANGED <<pskb, freeq, cur>>
<1>1. /\ pc[p] = "port" /\ b \in RecvBufs
      /\ UNCHANGED <<rxq, pend, tskb, counters, ghostVars, inflight, sched, stopped, starts>>
  BY DEF ReadPort
<1>2. Ended \/ Has \/ Takes \/ Lacks
  BY ReturnFacts, AnyOfFacts DEF ReadPort
<1>3. FlagsOK' /\ starts # 0
  <2>1. FlagsOK'
    BY <1>1, Zenon DEF FlagsOK
  <2> QED
    BY <1>1, <2>1, Started
<1> HIDE DEF b, Ended, Has, Takes, Lacks
<1> USE <1>1, <1>3 DEF Procs
<1>4. CASE Ended
  <2>1. stopped /\ Returned(p, FALSE) /\ UNCHANGED <<pskb, freeq>>
    BY <1>4 DEF Ended
  <2> USE <2>1 DEF Returned, Steps, Busy
  <2>2. TypeOK'
    OBVIOUS
  <2>3. UserInv' /\ PskbInv'
    BY DEF UserInv, PskbInv, Exclusive
  <2>4. PlaceInv' /\ OrderInv'
    <3>1. own' = own
      BY OwnSame
    <3> QED
      BY <3>1 DEF PlaceInv, OrderInv
  <2>5. FirstInv' /\ WakeInv' /\ AliveInv'
    BY DEF FirstInv, WakeInv, AliveInv, Good
  <2> QED
    BY <2>2, <2>3, <2>4, <2>5
<1>5. ASSUME NEW x \in {"submit", "alloc"}, pc' = [pc EXCEPT ![p] = x], UNCHANGED cur
      PROVE  UserInv' /\ FirstInv' /\ WakeInv'
  <2>1. \A q \in Procs : /\ pc'[q] \in Busy <=> pc[q] \in Busy
                         /\ pc'[q] = "handle" <=> pc[q] = "handle"
    BY <1>5 DEF Busy
  <2>2. UserInv'
    BY <1>5, <2>1, SameUsers
  <2>3. FirstInv'
    BY <2>1, SameTransfers
  <2>4. WakeInv'
    BY <1>5 DEF WakeInv, Running
  <2> QED
    BY <2>2, <2>3, <2>4
<1>6. CASE Has \/ Lacks
  <2>1. PICK x \in {"submit", "alloc"} :
           /\ pc' = [pc EXCEPT ![p] = x] /\ UNCHANGED <<pskb, freeq, cur>>
           /\ x = "submit" => pskb[b] # None
           /\ x = "alloc" => pskb[b] = None /\ freeq = {}
    BY <1>6 DEF Has, Lacks, Step
  <2> USE <2>1 DEF Busy
  <2>2. TypeOK'
    OBVIOUS
  <2>3. UserInv' /\ FirstInv' /\ WakeInv'
    BY <1>5
  <2>4. PskbInv'
    BY DEF PskbInv, Exclusive, b
  <2>5. PlaceInv' /\ OrderInv'
    <3>1. own' = own
      BY OwnSame
    <3> QED
      BY <3>1 DEF PlaceInv, OrderInv
  <2>6. AliveInv'
    <3> SUFFICES ASSUME Prealloc # {}, Good PROVE AliveInv'
      BY DEF AliveInv, Good
    <3>1. CASE x = "submit"
      BY <3>1 DEF AliveInv, PskbInv, b
    <3>2. CASE x = "alloc"
      BY <3>2 DEF AliveInv, b
    <3> QED
      BY <3>1, <3>2
  <2> QED
    BY <2>2, <2>3, <2>4, <2>5, <2>6
<1>7. CASE Takes
  <2>1. /\ pc' = [pc EXCEPT ![p] = "submit"] /\ UNCHANGED cur /\ pskb[b] = None
        /\ \E s \in freeq : pskb' = [pskb EXCEPT ![b] = s] /\ freeq' = freeq \ {s}
    BY <1>7 DEF Takes, Step
  <2>2. PICK s \in freeq : pskb' = [pskb EXCEPT ![b] = s] /\ freeq' = freeq \ {s}
    BY <2>1
  <2> USE <2>1, <2>2 DEF Busy
  <2>3. TypeOK' /\ s \in Skbs
    OBVIOUS
  <2>4. UserInv' /\ FirstInv' /\ WakeInv'
    BY <1>5
  <2>5. PskbInv'
    BY <2>3 DEF PskbInv, Exclusive, b
  <2>6. PlaceInv'
    <3>1. /\ own' = [own EXCEPT ![b] = s] /\ own[b] = None
          /\ own \in [RecvBufs -> Skbs \cup {None}]
      BY OwnCur DEF b
    <3> QED
      BY <2>3, <3>1 DEF PlaceInv
  <2>7. OrderInv'
    BY DEF OrderInv
  <2>8. AliveInv'
    BY DEF AliveInv, Good, PskbInv
  <2> QED
    BY <2>3, <2>4, <2>5, <2>6, <2>7, <2>8
<1> QED
  BY <1>2, <1>4, <1>6, <1>7

\* usb_read_port allocates an skb.
LEMMA AllocKeeps ==
    ASSUME IndInv, Exclusive, NEW p \in Procs, Alloc(p) PROVE IndInv'
<1> USE DEF IndInv, TypeOK, Step, Procs, Busy, skbVars, counters, ghostVars
<1>1. FlagsOK'
  BY Zenon DEF FlagsOK, Alloc
<1>2. CASE pskb' = pskb
  <2> USE <1>2 DEF Alloc
  <2>0. pc' = [pc EXCEPT ![p] = "park"] \/ pc' = [pc EXCEPT ![p] = "submit"]
    OBVIOUS
  <2>1. pc' = [pc EXCEPT ![p] = "park"] \/ pskb'[cur[p]] # None
    BY AnyOfFacts, HeapFacts
  <2>2. TypeOK'
    BY <1>1
  <2>3. UserInv'
    BY DEF UserInv, Exclusive
  <2>4. PskbInv'
    BY <2>1 DEF PskbInv, Exclusive
  <2>5. PlaceInv' /\ OrderInv'
    <3>1. own' = own
      BY OwnSame
    <3> QED
      BY <3>1 DEF PlaceInv, OrderInv
  <2>6. FirstInv' /\ WakeInv'
    BY DEF FirstInv, Taken, WakeInv, Running
  <2>7. AliveInv'
    BY DEF AliveInv, Good, PskbInv
  <2> QED
    BY <2>2, <2>3, <2>4, <2>5, <2>6, <2>7
<1>3. CASE pskb' # pskb
  <2> DEFINE s == AnyOf(Heap)
  <2>1. /\ pskb' = [pskb EXCEPT ![cur[p]] = s] /\ s \in Heap
        /\ pc[p] = "alloc" /\ pc' = [pc EXCEPT ![p] = "submit"]
        /\ UNCHANGED <<rxq, freeq, pend, tskb, counters, ghostVars, inflight, sched, stopped,
                       cur, starts>>
    BY <1>3, AnyOfFacts DEF Alloc
  <2> HIDE DEF s
  <2>2. /\ s \in Skbs /\ s # None /\ s \notin freeq /\ s # tskb
        /\ \A i \in 1 .. Len(rxq) : rxq[i] # s
        /\ \A b \in RecvBufs : own[b] # s
    BY <2>1, HeapFacts
  <2> USE <2>1, <2>2
  <2>3. TypeOK'
    BY <1>1
  <2>4. UserInv'
    BY DEF UserInv, Exclusive
  <2>5. PskbInv'
    BY DEF PskbInv, Exclusive
  <2>6. PlaceInv'
    <3>1. own' = [own EXCEPT ![cur[p]] = s] /\ own \in [RecvBufs -> Skbs \cup {None}]
      BY OwnCur
    <3> QED
      BY <3>1 DEF PlaceInv
  <2>7. OrderInv'
    BY DEF OrderInv
  <2>8. FirstInv' /\ WakeInv'
    BY DEF FirstInv, Taken, WakeInv, Running
  <2>9. AliveInv'
    BY DEF AliveInv, Good, PskbInv
  <2> QED
    BY <2>3, <2>4, <2>5, <2>6, <2>7, <2>8, <2>9
<1> QED
  BY <1>2, <1>3

\* The recv_buf waits for an skb.
LEMMA ParkKeeps ==
    ASSUME IndInv, Exclusive, NEW p \in Procs, Park(p) PROVE IndInv'
<1> USE DEF IndInv, TypeOK, Procs, Busy, counters
<1>1. /\ pc[p] = "park" /\ pend' = pend \cup {cur[p]} /\ Returned(p, FALSE)
      /\ UNCHANGED <<rxq, freeq, pskb, tskb, counters, dropped, leftover, mixed, inflight,
                     sched, stopped, starts>>
      /\ ~missed' => ~missed /\ freeq = {} /\ ~(p = "open" /\ starts > 1)
  BY ReturnFacts DEF Park
<1>2. FlagsOK'
  BY Zenon DEF FlagsOK, Park
<1> USE <1>1 DEF Returned, Steps
<1>3. TypeOK'
  BY <1>2
<1>4. UserInv'
  BY DEF UserInv, Exclusive
<1>5. PskbInv'
  BY DEF PskbInv, Exclusive
<1>6. PlaceInv' /\ OrderInv'
  <2>1. own' = own
    BY OwnSame
  <2> QED
    BY <2>1 DEF PlaceInv, OrderInv
<1>7. FirstInv' /\ WakeInv'
  BY DEF FirstInv, Taken, WakeInv, Running
<1>8. AliveInv'
  BY DEF AliveInv, Good, PskbInv
<1> QED
  BY <1>3, <1>4, <1>5, <1>6, <1>7, <1>8

\* The URB is submitted, or refused.
LEMMA SubmitKeeps ==
    ASSUME IndInv, Exclusive, NEW p \in Procs, Submit(p) PROVE IndInv'
<1> USE DEF IndInv, TypeOK, Procs, Busy, skbVars, counters
<1>1. /\ pc[p] = "submit" /\ \E ok \in BOOLEAN : Returned(p, ok)
      /\ \/ inflight' = inflight \cup {cur[p]} /\ UNCHANGED dropped
         \/ UNCHANGED inflight /\ dropped'
      /\ UNCHANGED <<skbVars, counters, missed, leftover, mixed, sched, stopped, starts>>
  BY ReturnFacts DEF Submit
<1>2. FlagsOK'
  BY Zenon DEF FlagsOK, Submit
<1>3. PICK ok \in BOOLEAN : Returned(p, ok)
  BY <1>1
<1> USE <1>1, <1>3 DEF Returned, Steps
<1>4. TypeOK'
  BY <1>2
<1>5. UserInv'
  <2> SUFFICES ASSUME ~mixed PROVE UserInv'
    BY DEF UserInv
  <2>1. /\ UserInv /\ Exclusive' /\ \A q \in Procs : pc[q] \in Busy => cur[q] \in RecvBufs
        /\ \A n \in RecvBufs : n + 1 > n /\ \A b \in RecvBufs : b > n + 1 => b > n
    BY SMTT(60) DEF UserInv, Exclusive, RecvBufs
  <2>2. CASE pc'[p] \notin Busy /\ cur'[p] = cur[p]
    BY <2>1, <2>2 DEF UserInv
  <2>3. CASE p = "open" /\ pc'[p] = "port" /\ cur'[p] = cur[p] + 1
    <3>1. /\ cur'["open"] \in RecvBufs /\ cur'["open"] > cur["open"]
          /\ \A b \in RecvBufs : b > cur'["open"] => b > cur["open"] /\ b # cur["open"]
      BY <2>3 DEF RecvBufs
    <3>2. /\ cur["open"] \notin pend /\ cur'["open"] \notin pend
          /\ inflight' \cap pend = {}
      BY <2>1, <2>3, <3>1 DEF UserInv
    <3>3. \A q \in Procs : q # "open" => pc'[q] = pc[q] /\ cur'[q] = cur[q]
      BY <2>3
    <3>4. \A b \in RecvBufs : b > cur'["open"] =>
              /\ b \notin inflight' /\ b \notin pend
              /\ \A q \in Procs : pc'[q] \in Busy => cur'[q] # b
      <4>1. /\ \A b \in inflight' : b \in inflight \/ b = cur["open"]
            /\ pc["open"] \in Busy /\ ~mixed
        BY <2>3
      <4>2. cur'["open"] \in Nat
        BY <3>1 DEF RecvBufs
      <4>3. \A b \in RecvBufs : b > cur'["open"] => b # cur'["open"]
        BY ONLY <4>2 DEF RecvBufs
      <4> QED
        BY ONLY <2>1, <3>1, <3>3, <4>1, <4>3 DEF UserInv
    <3>5. \A q \in Procs : pc'[q] \in Busy => cur'[q] \notin pend
      BY <2>1, <3>2, <3>3 DEF UserInv
    <3> QED
      BY <2>1, <3>2, <3>4, <3>5 DEF UserInv
  <2> QED
    BY <2>2, <2>3
<1>6. PskbInv'
  BY DEF PskbInv, Exclusive
<1>7. PlaceInv' /\ OrderInv'
  <2>1. own' = own
    BY OwnSame
  <2> QED
    BY <2>1 DEF PlaceInv, OrderInv
<1>8. FirstInv' /\ WakeInv'
  BY DEF FirstInv, Taken, WakeInv, Running
<1>9. AliveInv'
  <2> SUFFICES ASSUME Good' PROVE AliveInv'
    BY DEF AliveInv
  <2>1. Good /\ cur[p] \in inflight'
    BY DEF Good
  <2> QED
    BY <2>1 DEF AliveInv
<1> QED
  BY <1>4, <1>5, <1>6, <1>7, <1>8, <1>9

\* A transfer is received.
LEMMA CompleteDataKeeps ==
    ASSUME IndInv, Exclusive, NEW b \in RecvBufs, CompleteData(b) PROVE IndInv'
<1> USE DEF IndInv, TypeOK, Procs, Busy
<1> DEFINE s == pskb[b]
           n == received + 1
<1>1. /\ pc["irq"] = "idle" /\ b \in inflight /\ inflight' = inflight \ {b}
      /\ cur' = [cur EXCEPT !["irq"] = b] /\ pc' = [pc EXCEPT !["irq"] = "wake"]
      /\ ~stopped /\ received < MAXRX /\ received' = n
      /\ data' = [data EXCEPT ![s] = n]
      /\ UNCHANGED <<freeq, pend, pskb, tskb, handled, ghostVars, sched, stopped, starts>>
  BY DEF CompleteData, Ends, Step
<1>2. s \in Skbs /\ s # None
  BY <1>1 DEF PskbInv
<1>0. own = pskb /\ own' = [own EXCEPT ![b] = None]
  <2>1. own = pskb
    BY <1>1, OwnAll
  <2>2. \A c \in RecvBufs : Stale(c)' <=> c = b
    BY <1>1 DEF Stale
  <2> QED
    BY <1>1, <2>1, <2>2 DEF own
<1>3. /\ rxq' \in Seq(Skbs) /\ Len(rxq') = Len(rxq) + 1 /\ Len(rxq) \in Nat
      /\ \A i \in 1 .. Len(rxq) : rxq'[i] = rxq[i]
      /\ rxq'[Len(rxq) + 1] = s
  BY <1>2, AppendFacts DEF CompleteData, Queued
<1>4. \A i \in 1 .. Len(rxq') :
          \/ i \in 1 .. Len(rxq) /\ rxq'[i] = rxq[i]
          \/ i = Len(rxq) + 1 /\ rxq'[i] = s
  BY ONLY <1>3
<1>5. rxq' # <<>>
  BY <1>3
<1>6. /\ \A i \in 1 .. Len(rxq) : rxq[i] # s
      /\ pc["tasklet"] \in {"handle", "release"} => tskb # s
      /\ \A i \in 1 .. Len(rxq) : data'[rxq[i]] = data[rxq[i]]
      /\ data'[s] = n /\ n \in 1 .. MAXRX
      /\ pc["tasklet"] \in {"handle", "release"} => data'[tskb] = data[tskb]
  BY SMTT(60), <1>0, <1>1, <1>2 DEF PlaceInv
<1> HIDE DEF s, n
<1>7. FlagsOK'
  BY <1>1, Zenon DEF FlagsOK, ghostVars
<1> USE <1>1, <1>2, <1>3, <1>5, <1>6 DEF ghostVars
<1>8. TypeOK'
  BY <1>7 DEF n
<1>9. UserInv'
  BY DEF UserInv, Exclusive
<1>10. PskbInv'
  BY DEF PskbInv, Exclusive
<1>11. PlaceInv'
  <2>0. PlaceInv
    OBVIOUS
  <2>1. \A i, j \in 1 .. Len(rxq') : rxq'[i] = rxq'[j] => i = j
    BY ONLY SMTT(60), <1>6, <1>4, <2>0 DEF PlaceInv
  <2>2. \A i \in 1 .. Len(rxq') : rxq'[i] \notin freeq /\ rxq'[i] # tskb
    <3>1. s \notin freeq /\ s # tskb
      BY <1>0 DEF PlaceInv, s
    <3>2. \A i \in 1 .. Len(rxq) : rxq[i] \notin freeq /\ rxq[i] # tskb
      BY ONLY <2>0 DEF PlaceInv
    <3> QED
      BY ONLY <1>4, <3>1, <3>2
  <2>3. \A c, d \in RecvBufs : (own'[c] = own'[d] /\ own'[c] # None) => c = d
    BY <1>0 DEF PlaceInv
  <2>4. \A c \in RecvBufs : own'[c] \notin freeq /\ (own'[c] # None => own'[c] # tskb)
    BY <1>0 DEF PlaceInv
  <2>5. \A c \in RecvBufs : own'[c] # s /\ \A i \in 1 .. Len(rxq) : own'[c] # rxq[i]
    BY SMTT(60), <1>0 DEF PlaceInv, s
  <2>6. \A i \in 1 .. Len(rxq') : \A c \in RecvBufs : own'[c] # rxq'[i]
    BY <1>4, <2>5
  <2> QED
    BY <2>1, <2>2, <2>3, <2>4, <2>6 DEF PlaceInv
<1>12. OrderInv'
  <2>1. \A i \in 1 .. Len(rxq') : \/ i \in 1 .. Len(rxq) /\ data'[rxq'[i]] = data[rxq[i]]
                                  \/ i = Len(rxq) + 1 /\ data'[rxq'[i]] = n
    BY <1>4
  <2>2. /\ \A i \in 1 .. Len(handled) : handled[i] < n /\ handled[i] <= n
        /\ \A i \in 1 .. Len(rxq) : data[rxq[i]] < n /\ data[rxq[i]] <= n
        /\ pc["tasklet"] = "handle" => data[tskb] < n /\ data[tskb] <= n
    BY SMTT(60) DEF OrderInv, PlaceInv, n
  <2>3. \A i, j \in 1 .. Len(rxq') : i < j => data'[rxq'[i]] < data'[rxq'[j]]
    <3>1. \A i, j \in 1 .. Len(rxq) : i < j => data[rxq[i]] < data[rxq[j]]
      BY DEF OrderInv
    <3>2. Len(rxq) \in Nat
      OBVIOUS
    <3> QED
      BY ONLY <2>1, <2>2, <3>1, <3>2
  <2>4. /\ \A i \in 1 .. Len(rxq') : 0 < data'[rxq'[i]] /\ data'[rxq'[i]] <= n
        /\ \A i \in 1 .. Len(rxq') : \A j \in 1 .. Len(handled) : handled[j] < data'[rxq'[i]]
        /\ pc["tasklet"] = "handle" => \A i \in 1 .. Len(rxq') : data[tskb] < data'[rxq'[i]]
    <3>1. OrderInv /\ n \in 1 .. MAXRX
      OBVIOUS
    <3> QED
      BY ONLY <2>1, <2>2, <3>1 DEF OrderInv
  <2>5. pc'["tasklet"] = pc["tasklet"]
    OBVIOUS
  <2> QED
    BY <2>2, <2>3, <2>4, <2>5 DEF OrderInv
<1>13. FirstInv'
  <2>1. Taken' = Taken /\ starts # 0
    BY DEF Taken, FirstInv
  <2> QED
    <3> SUFFICES ASSUME starts = 1 PROVE FirstInv'
      BY <2>1 DEF FirstInv
    <3>1. received = Taken + Len(rxq) /\ Taken \in Nat
      BY DEF FirstInv, Taken
    <3>2. \A i \in 1 .. Len(rxq') : data'[rxq'[i]] = Taken + i
      <4>1. /\ \A i \in 1 .. Len(rxq) : data[rxq[i]] = Taken + i
            /\ \A i \in 1 .. Len(rxq) : data'[rxq[i]] = data[rxq[i]]
            /\ data'[s] = Taken + (Len(rxq) + 1) /\ Len(rxq) \in Nat
        BY <3>1 DEF FirstInv, n
      <4> QED
        BY ONLY <1>4, <4>1
    <3> QED
      BY <2>1, <3>1, <3>2 DEF FirstInv, n
<1>14. WakeInv'
  BY DEF WakeInv, Running
<1>15. AliveInv'
  BY DEF AliveInv, Good
<1> QED
  BY <1>8, <1>9, <1>10, <1>11, <1>12, <1>13, <1>14, <1>15

\* A transfer is repeated.
LEMMA CompleteAgainKeeps ==
    ASSUME IndInv, Exclusive, NEW b \in RecvBufs, CompleteAgain(b) PROVE IndInv'
<1> USE DEF IndInv, TypeOK, CompleteAgain, Ends, Step, Procs, Busy, skbVars, counters, ghostVars
<1>1. FlagsOK'
  BY Zenon DEF FlagsOK
<1>2. TypeOK'
  BY <1>1
<1>3. UserInv'
  BY DEF UserInv, Exclusive
<1>4. PskbInv'
  BY DEF PskbInv, Exclusive
<1>5. PlaceInv'
  <2>1. \A c \in RecvBufs : ~Stale(c) /\ ~Stale(c)'
    BY DEF Stale
  <2>2. own' = own
    BY <2>1 DEF own
  <2> QED
    BY <2>2 DEF PlaceInv
<1>6. OrderInv'
  BY DEF OrderInv, PlaceInv
<1>7. FirstInv'
  BY DEF FirstInv, Taken
<1>8. WakeInv'
  BY DEF WakeInv, Running
<1>9. AliveInv'
  BY DEF AliveInv, Good, UserInv, PskbInv
<1> QED
  BY <1>1, <1>2, <1>3, <1>4, <1>5, <1>6, <1>7, <1>8, <1>9

\* A transfer ends in an error.
LEMMA CompleteErrorKeeps ==
    ASSUME IndInv, Exclusive, NEW b \in RecvBufs, CompleteError(b) PROVE IndInv'
<1> USE DEF IndInv, TypeOK, CompleteError, Ends, Step, Procs, Busy, skbVars, counters, ghostVars
<1>1. FlagsOK'
  BY Zenon DEF FlagsOK
<1>2. TypeOK'
  BY <1>1
<1>3. UserInv'
  BY DEF UserInv, Exclusive
<1>4. PskbInv'
  BY DEF PskbInv, Exclusive
<1>5. PlaceInv'
  <2>1. \A c \in RecvBufs : ~Stale(c) /\ ~Stale(c)'
    BY DEF Stale
  <2>2. own' = own
    BY <2>1 DEF own
  <2> QED
    BY <2>2 DEF PlaceInv
<1>6. OrderInv'
  BY DEF OrderInv, PlaceInv
<1>7. FirstInv'
  BY DEF FirstInv, Taken
<1>8. WakeInv'
  BY DEF WakeInv, Running
<1>9. AliveInv'
  BY DEF AliveInv, Good, UserInv, PskbInv
<1> QED
  BY <1>1, <1>2, <1>3, <1>4, <1>5, <1>6, <1>7, <1>8, <1>9

\* A transfer ends in a stopped driver.
LEMMA CompleteStoppedKeeps ==
    ASSUME IndInv, Exclusive, NEW b \in RecvBufs, CompleteStopped(b) PROVE IndInv'
<1> USE DEF IndInv, TypeOK, CompleteStopped, Ends, Step, Procs, Busy, skbVars, counters, ghostVars
<1>1. FlagsOK'
  BY Zenon DEF FlagsOK
<1>2. TypeOK'
  BY <1>1
<1>3. UserInv'
  BY DEF UserInv, Exclusive
<1>4. PskbInv'
  BY DEF PskbInv, Exclusive
<1>5. PlaceInv'
  <2>1. \A c \in RecvBufs : ~Stale(c) /\ ~Stale(c)'
    BY DEF Stale
  <2>2. own' = own
    BY <2>1 DEF own
  <2> QED
    BY <2>2 DEF PlaceInv
<1>6. OrderInv'
  BY DEF OrderInv, PlaceInv
<1>7. FirstInv'
  BY DEF FirstInv, Taken
<1>8. WakeInv'
  BY DEF WakeInv, Running
<1>9. AliveInv'
  BY DEF AliveInv, Good, UserInv, PskbInv
<1> QED
  BY <1>1, <1>2, <1>3, <1>4, <1>5, <1>6, <1>7, <1>8, <1>9

\* The completion wakes the tasklet.
LEMMA WakeKeeps ==
    ASSUME IndInv, Exclusive, Wake PROVE IndInv'
<1> USE DEF IndInv, TypeOK, Wake, Wakes, Step, Procs, Busy, skbVars, counters, ghostVars
<1>1. FlagsOK'
  BY Zenon DEF FlagsOK
<1>2. TypeOK'
  BY <1>1
<1>3. UserInv'
  BY DEF UserInv, Exclusive
<1>4. PskbInv'
  BY DEF PskbInv, Exclusive
<1>5. PlaceInv'
  <2>1. own' = own
    BY OwnSame
  <2> QED
    BY <2>1 DEF PlaceInv
<1>6. OrderInv'
  BY DEF OrderInv, PlaceInv
<1>7. FirstInv'
  BY DEF FirstInv, Taken
<1>8. WakeInv'
  BY DEF WakeInv, Running
<1>9. AliveInv'
  BY DEF AliveInv, Good, UserInv, PskbInv
<1> QED
  BY <1>1, <1>2, <1>3, <1>4, <1>5, <1>6, <1>7, <1>8, <1>9

\* The completion clears the pointer.
LEMMA DetachKeeps ==
    ASSUME IndInv, Exclusive, Detach PROVE IndInv'
<1> USE DEF IndInv, TypeOK, Detach, Detached, Step, Procs, Busy, skbVars, counters, ghostVars
<1>1. FlagsOK'
  BY Zenon DEF FlagsOK
<1>2. TypeOK'
  BY <1>1
<1>3. UserInv'
  BY DEF UserInv, Exclusive
<1>4. PskbInv'
  BY DEF PskbInv, Exclusive
<1>5. PlaceInv'
  <2>1. \A c \in RecvBufs : /\ Stale(c) <=> c = cur["irq"]
                            /\ ~Stale(c)'
                            /\ pskb'[c] = IF c = cur["irq"] THEN None ELSE pskb[c]
    BY DEF Stale
  <2>2. own' = own
    BY <2>1 DEF own
  <2> QED
    BY <2>2 DEF PlaceInv
<1>6. OrderInv'
  BY DEF OrderInv, PlaceInv
<1>7. FirstInv'
  BY DEF FirstInv, Taken
<1>8. WakeInv'
  BY DEF WakeInv, Running
<1>9. AliveInv'
  BY DEF AliveInv, Good, Exclusive
<1> QED
  BY <1>1, <1>2, <1>3, <1>4, <1>5, <1>6, <1>7, <1>8, <1>9

\* The tasklet starts.
LEMMA RunKeeps ==
    ASSUME IndInv, Exclusive, Run PROVE IndInv'
<1> USE DEF IndInv, TypeOK, Run, Step, Procs, Busy, skbVars, counters, ghostVars
<1>1. FlagsOK'
  BY Zenon DEF FlagsOK
<1>2. TypeOK'
  BY <1>1
<1>3. UserInv'
  BY DEF UserInv, Exclusive
<1>4. PskbInv'
  BY DEF PskbInv, Exclusive
<1>5. PlaceInv'
  <2>1. own' = own
    BY OwnSame
  <2> QED
    BY <2>1 DEF PlaceInv
<1>6. OrderInv'
  BY DEF OrderInv, PlaceInv
<1>7. FirstInv'
  <2>1. starts # 0
    BY DEF FirstInv
  <2> QED
    BY <2>1, SameTransfers
<1>8. WakeInv'
  BY DEF WakeInv, Running
<1>9. AliveInv'
  BY DEF AliveInv, Good, UserInv, PskbInv
<1> QED
  BY <1>1, <1>2, <1>3, <1>4, <1>5, <1>6, <1>7, <1>8, <1>9

\* The tasklet takes an skb from the queue.
LEMMA DequeueKeeps == ASSUME IndInv, Exclusive, Dequeue PROVE IndInv'
<1> USE DEF IndInv, TypeOK, Step, Procs, Busy, counters, ghostVars
<1>1. /\ pc["tasklet"] = "dequeue" /\ starts # 0
      /\ UNCHANGED <<freeq, pend, pskb, counters, ghostVars, inflight, sched, stopped, cur,
                     starts>>
  BY DEF Dequeue, FirstInv
<1>2. FlagsOK'
  BY <1>1, Zenon DEF FlagsOK
<1> USE <1>1
<1>3. CASE rxq = <<>>
  <2>1. pc' = [pc EXCEPT !["tasklet"] = "idle"] /\ UNCHANGED <<rxq, tskb>>
    BY <1>3 DEF Dequeue
  <2> USE <1>3, <2>1
  <2>2. TypeOK'
    BY <1>2
  <2>3. UserInv'
    BY SameUsers
  <2>4. PskbInv' /\ PlaceInv' /\ OrderInv'
    <3>1. own' = own
      BY OwnSame
    <3> QED
      BY <3>1 DEF PskbInv, PlaceInv, OrderInv, Exclusive
  <2>5. FirstInv' /\ WakeInv'
    BY SameTransfers DEF WakeInv
  <2>6. AliveInv'
    BY DEF AliveInv, Good
  <2> QED
    BY <2>2, <2>3, <2>4, <2>5, <2>6
<1>4. CASE rxq # <<>>
  <2>1. pc' = [pc EXCEPT !["tasklet"] = "handle"] /\ tskb' = Head(rxq) /\ rxq' = Tail(rxq)
    BY <1>4 DEF Dequeue
  <2>2. /\ rxq' \in Seq(Skbs) /\ Len(rxq') = Len(rxq) - 1 /\ Len(rxq) \in Nat /\ Len(rxq) >= 1
        /\ tskb' = rxq[1] /\ tskb' \in Skbs
        /\ \A i \in 1 .. Len(rxq) - 1 : rxq'[i] = rxq[i + 1]
    BY <1>4, <2>1, TailFacts
  <2>3. pc' = [pc EXCEPT !["tasklet"] = "handle"]
    BY <2>1
  <2> USE <1>4, <2>2, <2>3
  <2>4. TypeOK'
    BY <1>2
  <2>5. UserInv'
    BY SameUsers
  <2>6. PskbInv'
    BY DEF PskbInv, Exclusive
  <2>7. /\ 1 \in 1 .. Len(rxq)
        /\ \A i \in 1 .. Len(rxq') : /\ i + 1 \in 1 .. Len(rxq) /\ rxq'[i] = rxq[i + 1]
                                     /\ 1 < i + 1 /\ 1 # i + 1
        /\ \A i, j \in 1 .. Len(rxq') : (i < j <=> i + 1 < j + 1) /\ (i + 1 = j + 1 => i = j)
    OBVIOUS
  <2>8. PlaceInv'
    <3>0. own' = own
      BY OwnSame
    <3>1. PlaceInv /\ UNCHANGED freeq /\ own' = own
      BY <3>0
    <3>2. \A i, j \in 1 .. Len(rxq') : rxq'[i] = rxq'[j] => i = j
      BY ONLY <2>2, <2>7, <3>1 DEF PlaceInv
    <3>3. \A i \in 1 .. Len(rxq') : rxq'[i] \notin freeq' /\ rxq'[i] # tskb'
      BY ONLY <2>2, <2>7, <3>1 DEF PlaceInv
    <3>4. /\ \A i \in 1 .. Len(rxq') : \A b \in RecvBufs : own'[b] # rxq'[i]
          /\ \A b \in RecvBufs : own'[b] # tskb' /\ own'[b] \notin freeq'
          /\ tskb' \notin freeq'
      BY ONLY <2>2, <2>7, <3>1 DEF PlaceInv
    <3>5. /\ \A b, c \in RecvBufs : own'[b] = own'[c] /\ own'[b] # None => b = c
          /\ pc'["tasklet"] \in {"handle", "release"} => tskb' \in Skbs
      BY <2>2, <2>7, <3>0 DEF PlaceInv
    <3> QED
      BY ONLY <3>2, <3>3, <3>4, <3>5 DEF PlaceInv
  <2>9. OrderInv'
    <3>0. OrderInv
      OBVIOUS
    <3>1. ASSUME NEW i \in 1 .. Len(rxq'), NEW j \in 1 .. Len(rxq'), i < j
          PROVE  data[rxq'[i]] < data[rxq'[j]]
      <4>1. i + 1 \in 1 .. Len(rxq) /\ j + 1 \in 1 .. Len(rxq) /\ i + 1 < j + 1
        BY ONLY <2>7, <3>1
      <4>2. rxq'[i] = rxq[i + 1] /\ rxq'[j] = rxq[j + 1]
        BY ONLY <2>7
      <4> QED
        BY ONLY Zenon, <3>0, <4>1, <4>2 DEF OrderInv
    <3>2. \A i \in 1 .. Len(rxq') : data[tskb'] < data[rxq'[i]]
      BY ONLY <2>2, <2>7, <3>0 DEF OrderInv
    <3>3. /\ \A i \in 1 .. Len(rxq') : 0 < data[rxq'[i]] /\ data[rxq'[i]] <= received
          /\ \A i \in 1 .. Len(rxq') : \A j \in 1 .. Len(handled) : handled[j] < data[rxq'[i]]
      BY <2>7 DEF OrderInv
    <3>4. /\ 0 < data[tskb'] /\ data[tskb'] <= received
          /\ \A i \in 1 .. Len(handled) : handled[i] < data[tskb']
      BY <2>7 DEF OrderInv
    <3> QED
      BY <3>1, <3>2, <3>3, <3>4 DEF OrderInv
  <2>10. FirstInv'
    <3> SUFFICES ASSUME starts = 1, ~stopped PROVE FirstInv'
      BY DEF FirstInv
    <3>1. Taken' = Taken + 1 /\ Taken \in Nat
      BY DEF Taken
    <3>2. /\ \A i \in 1 .. Len(handled) : handled[i] = i
          /\ \A i \in 1 .. Len(rxq) : data[rxq[i]] = Taken + i
          /\ received = Taken + Len(rxq)
      BY DEF FirstInv
    <3>3. \A i \in 1 .. Len(rxq') : data[rxq'[i]] = Taken' + i
      BY ONLY <2>7, <3>1, <3>2
    <3>4. data[tskb'] = Taken'
      BY <2>7, <3>1, <3>2
    <3> QED
      BY <3>1, <3>2, <3>3, <3>4 DEF FirstInv
  <2>11. WakeInv' /\ AliveInv'
    BY DEF WakeInv, Running, AliveInv, Good
  <2> QED
    BY <2>4, <2>5, <2>6, <2>8, <2>9, <2>10, <2>11
<1> QED
  BY <1>3, <1>4

\* The tasklet handles an skb.
LEMMA HandleKeeps ==
    ASSUME IndInv, Exclusive, Handle PROVE IndInv'
<1> USE DEF IndInv, TypeOK, Handle, Step, Procs, Busy, skbVars, counters, ghostVars
<1>1. FlagsOK'
  BY Zenon DEF FlagsOK
<1>2. TypeOK'
  <2>1. handled' \in Seq(1 .. MAXRX)
    <3>1. data[tskb] \in 1 .. MAXRX
      BY DEF PlaceInv, OrderInv
    <3> QED
      BY <3>1, AppendFacts
  <2> QED
    BY <1>1, <2>1
<1>3. UserInv'
  BY DEF UserInv, Exclusive
<1>4. PskbInv'
  BY DEF PskbInv, Exclusive
<1>5. PlaceInv'
  <2>1. own' = own
    BY OwnSame
  <2> QED
    BY <2>1 DEF PlaceInv
<1>6. OrderInv'
  BY DEF OrderInv, PlaceInv
<1>7. FirstInv'
  BY DEF FirstInv, Taken
<1>8. WakeInv'
  BY DEF WakeInv, Running
<1>9. AliveInv'
  BY DEF AliveInv, Good, UserInv, PskbInv
<1> QED
  BY <1>1, <1>2, <1>3, <1>4, <1>5, <1>6, <1>7, <1>8, <1>9

\* The tasklet finds the driver stopped.
LEMMA BreakKeeps ==
    ASSUME IndInv, Exclusive, Break PROVE IndInv'
<1> USE DEF IndInv, TypeOK, Break, Step, Procs, Busy, skbVars, counters, ghostVars
<1>1. FlagsOK'
  BY Zenon DEF FlagsOK
<1>2. TypeOK'
  BY <1>1 DEF PlaceInv
<1>3. UserInv'
  BY DEF UserInv, Exclusive
<1>4. PskbInv'
  BY DEF PskbInv, Exclusive
<1>5. PlaceInv'
  <2>1. own' = own
    BY OwnSame
  <2> QED
    BY <2>1 DEF PlaceInv
<1>6. OrderInv'
  BY SMTT(60) DEF OrderInv, PlaceInv
<1>7. FirstInv'
  BY DEF FirstInv, Taken
<1>8. WakeInv'
  BY DEF WakeInv, Running
<1>9. AliveInv'
  BY DEF AliveInv, Good, UserInv, PskbInv
<1> QED
  BY <1>1, <1>2, <1>3, <1>4, <1>5, <1>6, <1>7, <1>8, <1>9

\* The tasklet returns the skb.
LEMMA ReleaseKeeps ==
    ASSUME IndInv, Exclusive, Release PROVE IndInv'
<1> USE DEF IndInv, TypeOK, Release, Step, Procs, Busy, skbVars, counters, ghostVars
<1>1. FlagsOK'
  BY Zenon DEF FlagsOK
<1>2. TypeOK'
  BY <1>1 DEF PlaceInv
<1>3. UserInv'
  BY DEF UserInv, Exclusive
<1>4. PskbInv'
  BY DEF PskbInv, Exclusive
<1>5. PlaceInv'
  <2>1. own' = own
    BY OwnSame
  <2> QED
    BY <2>1 DEF PlaceInv
<1>6. OrderInv'
  BY SMTT(60) DEF OrderInv, PlaceInv
<1>7. FirstInv'
  <2>1. starts # 0 /\ Taken' = Taken /\ \A i \in 1 .. Len(rxq) : data'[rxq[i]] = data[rxq[i]]
    BY DEF FirstInv, Taken, PlaceInv
  <2> QED
    BY <2>1 DEF FirstInv
<1>8. WakeInv'
  BY DEF WakeInv, Running
<1>9. AliveInv'
  BY DEF AliveInv, Good, UserInv, PskbInv
<1> QED
  BY <1>1, <1>2, <1>3, <1>4, <1>5, <1>6, <1>7, <1>8, <1>9

\* The tasklet looks for a recv_buf that waits.
LEMMA RepostKeeps ==
    ASSUME IndInv, Exclusive, Repost PROVE IndInv'
<1> USE DEF IndInv, TypeOK, Repost, Waiting, Unpended, Step, Procs, Busy, skbVars, counters,
        ghostVars
<1>1. FlagsOK'
  BY Zenon DEF FlagsOK
<1>2. TypeOK'
  BY SMTT(60), <1>1, PendFacts
<1>3. UserInv'
  BY DEF UserInv, Exclusive
<1>4. PskbInv'
  BY DEF PskbInv, Exclusive
<1>5. PlaceInv'
  <2>1. (\A c \in RecvBufs : own'[c] \in {own[c], None}) /\ UNCHANGED <<rxq, freeq, tskb>>
    <3>1. \A c \in RecvBufs : pskb'[c] \in {pskb[c], None} /\ (Stale(c)' <=> Stale(c))
      BY DEF Stale
    <3> QED
      BY <3>1 DEF own
  <2>2. PlaceInv /\ pc'["tasklet"] \notin {"handle", "release"} /\ freeq \subseteq Skbs
    OBVIOUS
  <2>3. \A c \in RecvBufs : \A i \in 1 .. Len(rxq) : own'[c] # rxq[i]
    <3>1. \A i \in 1 .. Len(rxq) : rxq[i] # None
      OBVIOUS
    <3> QED
      BY ONLY <2>1, <2>2, <3>1 DEF PlaceInv
  <2>4. /\ \A c, d \in RecvBufs : (own'[c] = own'[d] /\ own'[c] # None) => c = d
        /\ \A c \in RecvBufs : own'[c] \notin freeq /\ (own'[c] # None => own'[c] # tskb)
    BY ONLY <2>1, <2>2, RxPathAssumption DEF PlaceInv
  <2> QED
    BY ONLY <2>1, <2>2, <2>3, <2>4 DEF PlaceInv
<1>6. OrderInv'
  BY DEF OrderInv, PlaceInv
<1>7. FirstInv'
  BY DEF FirstInv, Taken
<1>8. WakeInv'
  BY DEF WakeInv, Running
<1>9. AliveInv'
  BY DEF AliveInv, Good, UserInv, PskbInv
<1> QED
  BY <1>1, <1>2, <1>3, <1>4, <1>5, <1>6, <1>7, <1>8, <1>9

\* The driver stops.
LEMMA StopKeeps ==
    ASSUME IndInv, Exclusive, Stop PROVE IndInv'
<1> USE DEF IndInv, TypeOK, Stop, Step, Procs, Busy, skbVars, counters, ghostVars
<1>1. FlagsOK'
  BY Zenon DEF FlagsOK
<1>2. TypeOK'
  BY <1>1
<1>3. UserInv'
  BY DEF UserInv, Exclusive
<1>4. PskbInv'
  BY DEF PskbInv, Exclusive
<1>5. PlaceInv'
  <2>1. own' = own
    BY OwnSame
  <2> QED
    BY <2>1 DEF PlaceInv
<1>6. OrderInv'
  BY DEF OrderInv, PlaceInv
<1>7. FirstInv'
  BY DEF FirstInv, Taken
<1>8. WakeInv'
  BY DEF WakeInv, Running
<1>9. AliveInv'
  BY DEF AliveInv, Good, UserInv, PskbInv
<1> QED
  BY <1>1, <1>2, <1>3, <1>4, <1>5, <1>6, <1>7, <1>8, <1>9

\* The driver starts.
LEMMA StartKeeps ==
    ASSUME IndInv, Exclusive, Start PROVE IndInv'
<1> USE DEF IndInv, TypeOK, Start, Step, Procs, Busy, skbVars, counters, ghostVars
<1>1. FlagsOK'
  BY Zenon DEF FlagsOK
<1>2. TypeOK'
  BY <1>1, NumFacts
<1>3. UserInv'
  <2>1. ~mixed' => pend = {}
    BY Zenon
  <2>2. \A q \in Procs : pc'[q] \in Busy <=> q = "open"
    BY DEF Running
  <2> QED
    BY <2>1, <2>2 DEF UserInv, Exclusive
<1>4. PskbInv'
  BY DEF PskbInv, Exclusive
<1>5. PlaceInv'
  <2>1. own' = own
    BY OwnSame
  <2> QED
    BY <2>1 DEF PlaceInv
<1>6. OrderInv'
  BY DEF OrderInv, PlaceInv
<1>7. FirstInv'
  BY DEF FirstInv, Taken
<1>8. WakeInv'
  BY DEF WakeInv, Running
<1>9. AliveInv'
  <2>1. ~mixed' => pend = {}
    BY Zenon
  <2>2. starts' > 1 \/ freeq = Prealloc
    BY DEF FirstInv
  <2>3. pc'["open"] = "port"
    OBVIOUS
  <2> QED
    BY <2>1, <2>2, <2>3 DEF AliveInv, Good
<1> QED
  BY <1>1, <1>2, <1>3, <1>4, <1>5, <1>6, <1>7, <1>8, <1>9


-----------------------------------------------------------------------------
(* The inductive invariant *)

\* A set with exactly one member has cardinality 1.
LEMMA OneElement == ASSUME NEW S, NEW x \in S, \A y \in S : y = x PROVE Cardinality(S) = 1
<1>1. S = {x}
  OBVIOUS
<1> QED
  BY <1>1, FS_Singleton

\* A recv_buf has finitely many users.
LEMMA UsersFinite == ASSUME NEW b \in RecvBufs PROVE IsFiniteSet(Users(b))
<1>1. /\ IsFiniteSet({"open"}) /\ IsFiniteSet({"irq"})
      /\ IsFiniteSet({"tasklet"}) /\ IsFiniteSet({"usb"})
  BY FS_Singleton
<1>2. IsFiniteSet({"open"} \cup {"irq"})
  BY <1>1, FS_Union
<1>3. IsFiniteSet({"tasklet"} \cup {"usb"})
  BY <1>1, FS_Union
<1>4. IsFiniteSet(({"open"} \cup {"irq"}) \cup ({"tasklet"} \cup {"usb"}))
  BY <1>2, <1>3, FS_Union
<1>5. Users(b) \subseteq ({"open"} \cup {"irq"}) \cup ({"tasklet"} \cup {"usb"})
  BY DEF Users, Procs
<1> QED
  BY <1>4, <1>5, FS_Subset

\* A set with two members counts more than one.
LEMMA TwoElements ==
    ASSUME NEW S, IsFiniteSet(S), NEW x \in S, NEW y \in S, x # y PROVE Cardinality(S) > 1
<1>1. Cardinality(S \ {x}) = Cardinality(S) - 1 /\ IsFiniteSet(S \ {x})
  BY FS_RemoveElement
<1>2. S \ {x} # {}
  OBVIOUS
<1>3. Cardinality(S \ {x}) # 0 /\ Cardinality(S \ {x}) \in Nat /\ Cardinality(S) \in Nat
  BY <1>1, <1>2, FS_EmptySet, FS_CardinalityType
<1> QED
  BY <1>1, <1>3

\* Without a clash no recv_buf has two users.
LEMMA NoClash == ASSUME TypeOK, ~Clash PROVE Exclusive
<1> USE DEF TypeOK, Busy
<1>1. ASSUME NEW b \in RecvBufs, NEW u \in Users(b), NEW v \in Users(b) PROVE u = v
  <2> SUFFICES ASSUME u # v PROVE FALSE
    OBVIOUS
  <2>1. Cardinality(Users(b)) > 1
    BY UsersFinite, TwoElements
  <2> QED
    BY <2>1 DEF Clash
<1>2. ASSUME NEW p \in Procs, NEW q \in Procs, pc[p] \in Busy, pc[q] \in Busy, cur[p] = cur[q]
      PROVE  p = q
  BY <1>1, <1>2 DEF Users
<1>3. ASSUME NEW p \in Procs, pc[p] \in Busy PROVE cur[p] \notin inflight
  <2> SUFFICES ASSUME cur[p] \in inflight PROVE FALSE
    OBVIOUS
  <2>1. p \in Users(cur[p]) /\ "usb" \in Users(cur[p]) /\ cur[p] \in RecvBufs
    BY <1>3 DEF Users
  <2>2. p # "usb"
    BY DEF Procs
  <2> QED
    BY <1>1, <2>1, <2>2
<1> QED
  BY <1>2, <1>3 DEF Exclusive

\* Where no recv_buf has two users there is no clash.
LEMMA ExclusiveNoClash == ASSUME Exclusive PROVE ~Clash
<1> SUFFICES ASSUME NEW b \in RecvBufs PROVE ~(Cardinality(Users(b)) > 1)
  BY DEF Clash
<1>1. \A u, v \in Users(b) : u = v
  BY DEF Users, Exclusive, Busy
<1>2. CASE Users(b) = {}
  BY <1>2, FS_EmptySet
<1>3. CASE Users(b) # {}
  <2>1. PICK u : u \in Users(b)
    BY <1>3
  <2>2. Cardinality(Users(b)) = 1
    BY <1>1, <2>1, OneElement
  <2> QED
    BY <2>2
<1> QED
  BY <1>2, <1>3

\* The invariant holds when usb_init_recv_priv is done.
LEMMA InitIndInv == Init => IndInv
<1> SUFFICES ASSUME Init PROVE IndInv
  OBVIOUS
<1>1. FlagsOK
  BY Zenon DEF Init, FlagsOK
<1>2. TypeOK
  BY <1>1, NumFacts DEF Init, TypeOK
<1>3. UserInv /\ PskbInv
  BY DEF Init, UserInv, Exclusive, PskbInv, Busy, Procs
<1>4. PlaceInv /\ OrderInv /\ FirstInv
  <2>1. own = pskb
    BY <1>2, OwnAll DEF Init, Procs
  <2> QED
    BY <2>1 DEF Init, PlaceInv, OrderInv, FirstInv, Procs
<1>5. WakeInv /\ AliveInv
  BY DEF Init, WakeInv, AliveInv, Good
<1> QED
  BY <1>2, <1>3, <1>4, <1>5 DEF IndInv

\* Every step of the receive path keeps the invariant.
LEMMA NextIndInv == IndInv /\ [Next]_vars => IndInv'
<1> SUFFICES ASSUME IndInv, [Next]_vars PROVE IndInv'
  OBVIOUS
<1>1. CASE Next
  <2>1. Exclusive
    BY <1>1, NoClash DEF Next, IndInv
  <2>2. "open" \in Procs /\ "irq" \in Procs /\ "tasklet" \in Procs
    BY DEF Procs
  <2>3. ASSUME NEW p \in Procs, ReadPortStep(p) PROVE IndInv'
    BY <2>1, <2>3, ReadPortKeeps, AllocKeeps, ParkKeeps, SubmitKeeps DEF ReadPortStep
  <2>4. CASE Tasklet
    BY <2>1, <2>2, <2>3, <2>4, RunKeeps, DequeueKeeps, HandleKeeps, BreakKeeps, ReleaseKeeps,
       RepostKeeps DEF Tasklet
  <2>5. CASE Irq
    BY <2>1, <2>2, <2>3, <2>5, WakeKeeps, DetachKeeps DEF Irq
  <2>6. CASE Usb
    BY <2>1, <2>6, CompleteDataKeeps, CompleteAgainKeeps, CompleteErrorKeeps,
       CompleteStoppedKeeps DEF Usb
  <2>7. CASE Stop \/ Start
    BY <2>1, <2>7, StopKeeps, StartKeeps
  <2> QED
    BY <1>1, <2>2, <2>3, <2>4, <2>5, <2>6, <2>7 DEF Next
<1>2. CASE UNCHANGED vars
  <2> USE <1>2 DEF vars, skbVars, counters, ghostVars, IndInv
  <2>1. TypeOK'
    <3>1. FlagsOK'
      BY Zenon DEF FlagsOK, TypeOK
    <3> QED
      BY <3>1 DEF TypeOK
  <2>2. Exclusive' <=> Exclusive
    BY DEF Exclusive
  <2>3. UserInv' /\ PskbInv'
    BY <2>2 DEF UserInv, PskbInv
  <2>4. PlaceInv' /\ OrderInv'
    <3>1. own' = own
      BY OwnSame
    <3> QED
      BY <3>1 DEF PlaceInv, OrderInv
  <2>5. FirstInv' /\ WakeInv' /\ AliveInv'
    BY DEF FirstInv, Taken, WakeInv, Running, AliveInv, Good
  <2> QED
    BY <2>1, <2>3, <2>4, <2>5
<1> QED
  BY <1>1, <1>2

\* The conjuncts of IndInv hold in every reachable state.
THEOREM Inductive == Spec => []IndInv
  BY InitIndInv, NextIndInv, PTL DEF Spec

-----------------------------------------------------------------------------
(* The properties *)

(***************************************************************************)
(* Every variable of the receive path keeps its type (TypeOK): among       *)
(* others, the queue holds skbs and what is handled is a transfer.         *)
(***************************************************************************)
THEOREM TypeCorrect == Spec => []TypeOK
  BY Inductive, PTL DEF IndInv

(***************************************************************************)
(* Whatever fails, an skb is in the free queue, in the queue of received   *)
(* ones, with the tasklet or with one recv_buf, and in one of these only,  *)
(* whoever runs between the queueing of an skb and the clearing of the     *)
(* pointer to it (SkbInOnePlace).                                          *)
(***************************************************************************)
THEOREM SkbsInOnePlace == Spec => []SkbInOnePlace
<1>1. IndInv => SkbInOnePlace
  <2> SUFFICES ASSUME IndInv PROVE SkbInOnePlace
    OBVIOUS
  <2>1. DOMAIN rxq = 1 .. Len(rxq) /\ PlaceInv
    BY DEF IndInv, TypeOK
  <2> QED
    <3>1. \A s \in Skbs : \A b \in Holders(s) : b \in RecvBufs /\ own[b] = s /\ s # None
      BY DEF Holders, own
    <3> QED
      BY <2>1, <3>1 DEF PlaceInv, SkbInOnePlace, InQueue
<1> QED
  BY <1>1, Inductive, PTL

(***************************************************************************)
(* While the driver runs, a queue that is not empty has a tasklet that     *)
(* will empty it, though the completion wakes it only for a queue of at    *)
(* most one skb; except after a start that found a queue left behind       *)
(* (TaskletWillRun).                                                       *)
(***************************************************************************)
THEOREM QueueIsServed == Spec => []TaskletWillRun
<1>1. IndInv => TaskletWillRun
  BY DEF IndInv, WakeInv, TaskletWillRun
<1> QED
  BY <1>1, Inductive, PTL

(***************************************************************************)
(* Transfers are given to recvbuf2recvframe in the order in which they     *)
(* arrived, each once, and none is skipped before the driver stops for the *)
(* first time (ReceivedInOrder).                                           *)
(***************************************************************************)
THEOREM InOrder == Spec => []ReceivedInOrder
<1>1. IndInv => ReceivedInOrder
  <2> SUFFICES ASSUME IndInv PROVE ReceivedInOrder
    OBVIOUS
  <2>1. DOMAIN handled = 1 .. Len(handled) /\ OrderInv /\ FirstInv
    BY DEF IndInv, TypeOK
  <2> QED
    BY <2>1 DEF OrderInv, FirstInv, ReceivedInOrder
<1> QED
  BY <1>1, Inductive, PTL

(***************************************************************************)
(* A recv_buf has two users only after inirp_init has submitted one that   *)
(* was still in the pending queue (RecvBufHasOneUser).                     *)
(***************************************************************************)
THEOREM OneUser == Spec => []RecvBufHasOneUser
<1>1. IndInv => RecvBufHasOneUser
  BY ExclusiveNoClash DEF IndInv, UserInv, RecvBufHasOneUser
<1> QED
  BY <1>1, Inductive, PTL

(***************************************************************************)
(* If usb_init_recv_priv could allocate an skb at all, a running driver    *)
(* stops receiving only by a refused or oddly ended URB, by a recv_buf     *)
(* that began to wait with an skb at hand or at a restart, or by a restart *)
(* with recv_bufs in the pending queue (NeverDeaf).                        *)
(***************************************************************************)
THEOREM Listens == ASSUME Prealloc # {} PROVE Spec => []NeverDeaf
<1>1. IndInv => NeverDeaf
  <2> SUFFICES ASSUME IndInv, Deaf, Good PROVE FALSE
    BY DEF NeverDeaf, Deaf, Good
  <2>1. AliveInv /\ inflight = {} /\ rxq = <<>> /\ \A p \in Procs : pc[p] = "idle"
    BY DEF IndInv, Deaf
  <2> QED
    BY <2>1 DEF AliveInv, Busy, Procs
<1> QED
  BY <1>1, Inductive, PTL
=============================================================================
