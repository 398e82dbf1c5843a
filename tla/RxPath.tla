------------------------------- MODULE RxPath -------------------------------
(***************************************************************************)
(* The way of a received transfer from the USB controller to vmac_rx:      *)
(* usb_read_port, which gives a recv_buf an skb and submits its URB; the   *)
(* completion usb_read_port_complete, which queues the skb, wakes the      *)
(* tasklet, clears the pointer to the skb and submits the recv_buf with    *)
(* another one; and usb_recv_tasklet, which handles the queued skbs and    *)
(* submits the recv_bufs that wait for one.  rtl8812au_inirp_init submits  *)
(* every recv_buf when the driver starts, also again after rtw_dev_unload. *)
(*                                                                         *)
(* Three processes call usb_read_port: "open" (inirp_init), "irq" (the     *)
(* completions, one after another) and "tasklet".  Each step is one        *)
(* critical section, or the code between two.                              *)
(***************************************************************************)
EXTENDS Naturals, FiniteSets, Sequences

CONSTANTS
    Skbs,           \* every skb there is memory for
    Prealloc,       \* those usb_init_recv_priv puts in free_recv_skb_queue
    NR_RECVBUFF,
    MAXRX,          \* bound: transfers received
    MAXSTART        \* bound: starts of the driver

None == "none"

ASSUME RxPathAssumption ==
    /\ Prealloc \subseteq Skbs /\ None \notin Skbs
    /\ NR_RECVBUFF \in Nat \ {0} /\ MAXRX \in Nat /\ MAXSTART \in Nat

VARIABLES
    rxq,            \* rx_skb_queue
    freeq,          \* free_recv_skb_queue
    pend,           \* recv_buf_pending_queue
    pskb,           \* pskb[b]: precvbuf->pskb
    inflight,       \* recv_bufs whose URB is with the USB core
    sched,          \* recv_tasklet is scheduled
    stopped,        \* bDriverStopped or bSurpriseRemoved
    pc, cur,        \* step of each process, and the recv_buf it is about
    tskb,           \* pskb of usb_recv_tasklet
    data,           \* data[s]: number of the transfer in skb s
    received,       \* transfers received so far
    starts,         \* starts so far
    handled,        \* ghost: transfers given to recvbuf2recvframe, in order
    dropped,        \* ghost: some URB was refused, or ended in an odd way
    missed,         \* ghost: a recv_buf began to wait with an skb at hand, or at a restart
    leftover,       \* ghost: the driver started with a queue nobody empties
    mixed           \* ghost: it started with a recv_buf in the pending queue

skbVars == <<rxq, freeq, pend, pskb, tskb>>
counters == <<data, received, handled>>
ghostVars == <<dropped, missed, leftover, mixed>>
vars == <<skbVars, counters, ghostVars, inflight, sched, stopped, pc, cur, starts>>

RecvBufs == 1 .. NR_RECVBUFF
Procs == {"open", "irq", "tasklet"}

FlagsOK ==
    /\ sched \in BOOLEAN /\ stopped \in BOOLEAN
    /\ dropped \in BOOLEAN /\ missed \in BOOLEAN /\ leftover \in BOOLEAN /\ mixed \in BOOLEAN

TypeOK ==
    /\ FlagsOK
    /\ rxq \in Seq(Skbs) /\ Len(rxq) <= received
    /\ freeq \subseteq Skbs /\ pend \subseteq RecvBufs
    /\ pskb \in [RecvBufs -> Skbs \cup {None}] /\ tskb \in Skbs \cup {None}
    /\ inflight \subseteq RecvBufs
    /\ pc \in [Procs -> {"idle", "port", "alloc", "park", "submit", "wake", "detach",
                         "dequeue", "handle", "release", "repost"}]
    /\ cur \in [Procs -> RecvBufs]
    /\ data \in [Skbs -> 0 .. MAXRX] /\ received \in 0 .. MAXRX
    /\ starts \in 0 .. MAXSTART
    /\ handled \in Seq(1 .. MAXRX)

\* usb_init_recv_priv
Init ==
    /\ rxq = <<>> /\ freeq = Prealloc /\ pend = {} /\ inflight = {}
    /\ pskb = [b \in RecvBufs |-> None] /\ tskb = None
    /\ sched = FALSE /\ stopped = TRUE
    /\ pc = [p \in Procs |-> "idle"] /\ cur = [p \in Procs |-> 1]
    /\ data = [s \in Skbs |-> 0] /\ received = 0 /\ starts = 0 /\ handled = <<>>
    /\ dropped = FALSE /\ missed = FALSE /\ leftover = FALSE /\ mixed = FALSE

Step(p, next) == pc' = [pc EXCEPT ![p] = next]

Running == sched \/ pc["tasklet"] # "idle"

\* The completion of b has queued the skb and not cleared the pointer yet: the skb is no
\* longer that of b, wherever the tasklet has brought it.
Stale(b) == b = cur["irq"] /\ pc["irq"] \in {"wake", "detach"}

\* The recv_bufs that have skb s.
Holders(s) == {b \in RecvBufs : pskb[b] = s /\ ~Stale(b)}

\* Skbs the allocator may return: those that were freed, or never allocated.
Heap == {s \in Skbs \ freeq : s # tskb /\ Holders(s) = {} /\ \A i \in DOMAIN rxq : rxq[i] # s}

\* Which free skb is taken does not matter to the properties.
AnyOf(S) == CHOOSE s \in S : TRUE

-----------------------------------------------------------------------------
(* usb_read_port, called by process p for the recv_buf cur[p] *)

\* Seeded fault: the loop of rtl8812au_inirp_init runs once too often.
MoreOff(b) == b <= NR_RECVBUFF

\* i < NR_RECVBUFF in rtl8812au_inirp_init
More(b) == b < NR_RECVBUFF

\* Where the callers go on; rtl8812au_inirp_init stops at the first failure.
Return(p, success) ==
    \/ p = "irq" /\ Step(p, "idle") /\ UNCHANGED cur
    \/ p = "tasklet" /\ Step(p, "dequeue") /\ UNCHANGED cur
    \/ /\ p = "open" /\ success /\ More(cur[p])
       /\ cur' = [cur EXCEPT ![p] = cur[p] + 1]
       /\ Step(p, "port")
    \/ /\ p = "open" /\ ~(success /\ More(cur[p]))
       /\ Step(p, "idle") /\ UNCHANGED cur

\* The recv_buf keeps its skb, or takes a free one.
ReadPort(p) ==
    LET b == cur[p] IN
    /\ pc[p] = "port"
    /\ \/ stopped /\ Return(p, FALSE) /\ UNCHANGED <<pskb, freeq>>
       \/ ~stopped /\ pskb[b] # None /\ Step(p, "submit") /\ UNCHANGED <<pskb, freeq, cur>>
       \/ /\ ~stopped /\ pskb[b] = None
          /\ freeq # {}
          /\ pskb' = [pskb EXCEPT ![b] = AnyOf(freeq)]
          /\ freeq' = freeq \ {AnyOf(freeq)}
          /\ Step(p, "submit")
          /\ UNCHANGED cur
       \/ /\ ~stopped /\ pskb[b] = None /\ freeq = {}
          /\ Step(p, "alloc")
          /\ UNCHANGED <<pskb, freeq, cur>>
    /\ UNCHANGED <<rxq, pend, tskb, counters, ghostVars, inflight, sched, stopped, starts>>

\* rtw_skb_alloc, which may fail.
Alloc(p) ==
    /\ pc[p] = "alloc"
    /\ \/ /\ Heap # {}
          /\ pskb' = [pskb EXCEPT ![cur[p]] = AnyOf(Heap)]
          /\ Step(p, "submit")
       \/ Step(p, "park") /\ UNCHANGED pskb
    /\ UNCHANGED <<rxq, freeq, pend, tskb, counters, ghostVars, inflight, sched, stopped, cur,
                   starts>>

\* "enqueue precvbuf and wait for free skb"
Park(p) ==
    /\ pc[p] = "park"
    /\ pend' = pend \cup {cur[p]}
    /\ missed' = (missed \/ freeq # {} \/ (p = "open" /\ starts > 1))
    /\ Return(p, FALSE)
    /\ UNCHANGED <<rxq, freeq, pskb, tskb, counters, dropped, leftover, mixed, inflight,
                   sched, stopped, starts>>

\* usb_submit_urb; its error -EPERM counts as a success.
Submit(p) ==
    LET b == cur[p] IN
    /\ pc[p] = "submit"
    /\ \/ /\ inflight' = inflight \cup {b}
          /\ Return(p, TRUE)
          /\ UNCHANGED dropped
       \/ /\ dropped' = TRUE
          /\ \E success \in BOOLEAN : Return(p, success)
          /\ UNCHANGED inflight
    /\ UNCHANGED <<skbVars, counters, missed, leftover, mixed, sched, stopped, starts>>

-----------------------------------------------------------------------------
(* usb_read_port_complete *)

\* Seeded faults: an skb overtakes the queue; the recv_buf keeps the queued skb.
QueuedFirst(s) == <<s>> \o rxq
StillAttached(b) == pskb

\* skb_queue_tail(&precvpriv->rx_skb_queue, precvbuf->pskb)
Queued(s) == Append(rxq, s)

\* precvbuf->pskb = NULL
Detached(b) == [pskb EXCEPT ![b] = None]

\* The URB of b ends and its completion starts, for a driver that may receive.
Ends(b) ==
    /\ pc["irq"] = "idle" /\ b \in inflight
    /\ inflight' = inflight \ {b}
    /\ cur' = [cur EXCEPT !["irq"] = b]

\* A transfer of the right length: its skb is queued.
CompleteData(b) ==
    /\ Ends(b)
    /\ ~stopped
    /\ received < MAXRX
    /\ received' = received + 1
    /\ data' = [data EXCEPT ![pskb[b]] = received + 1]
    /\ rxq' = Queued(pskb[b])
    /\ Step("irq", "wake")
    /\ UNCHANGED <<freeq, pend, pskb, tskb, handled, ghostVars, sched, stopped, starts>>

\* A wrong length, or a transfer error: once more with the same skb.
CompleteAgain(b) ==
    /\ Ends(b)
    /\ ~stopped
    /\ stopped' \in BOOLEAN     \* rtw_inc_and_chk_continual_io_error
    /\ Step("irq", "port")
    /\ UNCHANGED <<skbVars, counters, ghostVars, sched, starts>>

\* -EPIPE and the like stop the driver; any other status only ends the recv_buf.
CompleteError(b) ==
    /\ Ends(b)
    /\ ~stopped
    /\ \/ stopped' = TRUE /\ UNCHANGED dropped
       \/ stopped' = FALSE /\ dropped' = TRUE
    /\ UNCHANGED <<skbVars, counters, missed, leftover, mixed, sched, pc, starts>>

\* The driver is stopped: the recv_buf keeps its skb.
CompleteStopped(b) ==
    /\ Ends(b)
    /\ stopped
    /\ UNCHANGED <<skbVars, counters, ghostVars, sched, stopped, pc, starts>>

\* Seeded fault: the length is tested as if the skb were not queued yet.
WakesBefore == Len(rxq) < 1

\* skb_queue_len(&precvpriv->rx_skb_queue) <= 1
Wakes == Len(rxq) <= 1

\* tasklet_schedule, unless the tasklet is taken to be busy with the queue.
Wake ==
    /\ pc["irq"] = "wake"
    /\ sched' = (sched \/ Wakes)
    /\ Step("irq", "detach")
    /\ UNCHANGED <<skbVars, counters, ghostVars, inflight, stopped, cur, starts>>

\* Meanwhile the tasklet may have handled the skb, and released or freed it.
Detach ==
    /\ pc["irq"] = "detach"
    /\ pskb' = Detached(cur["irq"])
    /\ Step("irq", "port")
    /\ UNCHANGED <<rxq, freeq, pend, tskb, counters, ghostVars, inflight, sched, stopped, cur,
                   starts>>

-----------------------------------------------------------------------------
(* usb_recv_tasklet *)

\* The tasklet runs on one CPU at a time.
Run ==
    /\ sched /\ pc["tasklet"] = "idle"
    /\ sched' = FALSE
    /\ Step("tasklet", "dequeue")
    /\ UNCHANGED <<skbVars, counters, ghostVars, inflight, stopped, cur, starts>>

\* skb_dequeue(&precvpriv->rx_skb_queue); NULL ends the loop.
Dequeue ==
    /\ pc["tasklet"] = "dequeue"
    /\ \/ rxq = <<>> /\ Step("tasklet", "idle") /\ UNCHANGED <<rxq, tskb>>
       \/ /\ rxq # <<>>
          /\ tskb' = Head(rxq) /\ rxq' = Tail(rxq)
          /\ Step("tasklet", "handle")
    /\ UNCHANGED <<freeq, pend, pskb, counters, ghostVars, inflight, sched, stopped, cur, starts>>

(***************************************************************************)
(* recvbuf2recvframe takes the frames of the transfer one by one.  Without *)
(* a recv_frame or memory for the copy, and at a frame with a wrong        *)
(* checksum or length, it gives the recv_frame back and leaves the rest of *)
(* the transfer.  Either way it returns _SUCCESS and the skb is released,  *)
(* so which frames go on to recv_frame_monitor is not part of this state.  *)
(***************************************************************************)
Handle ==
    /\ pc["tasklet"] = "handle"
    /\ ~stopped
    /\ handled' = Append(handled, data[tskb])
    /\ Step("tasklet", "release")
    /\ UNCHANGED <<skbVars, data, received, ghostVars, inflight, sched, stopped, cur, starts>>

\* A stopped driver frees this skb and leaves the rest of the queue.
Break ==
    /\ pc["tasklet"] = "handle"
    /\ stopped
    /\ tskb' = None
    /\ data' = [data EXCEPT ![tskb] = 0]
    /\ Step("tasklet", "idle")
    /\ UNCHANGED <<rxq, freeq, pend, pskb, received, handled, ghostVars, inflight, sched, stopped, cur,
                   starts>>

\* skb_reset_tail_pointer and skb_queue_tail(&precvpriv->free_recv_skb_queue, pskb)
Release ==
    /\ pc["tasklet"] = "release"
    /\ freeq' = freeq \cup {tskb}
    /\ tskb' = None
    /\ data' = [data EXCEPT ![tskb] = 0]
    /\ Step("tasklet", "repost")
    /\ UNCHANGED <<rxq, pend, pskb, received, handled, ghostVars, inflight, sched, stopped, cur, starts>>

\* Seeded faults: the recv_buf stays in the queue; the queue is not looked at.
StillPending(b) == pend
NobodyWaits == {}

\* rtw_list_delete in rtw_dequeue_recvbuf
Unpended(b) == pend \ {b}

\* The recv_bufs rtw_dequeue_recvbuf may return.
Waiting == pend

\* A recv_buf that waits is submitted, without an skb yet.
Repost ==
    /\ pc["tasklet"] = "repost"
    /\ \/ /\ \E b \in Waiting :
                /\ pend' = Unpended(b)
                /\ pskb' = [pskb EXCEPT ![b] = None]
                /\ cur' = [cur EXCEPT !["tasklet"] = b]
          /\ Step("tasklet", "port")
       \/ /\ Waiting = {}
          /\ Step("tasklet", "dequeue")
          /\ UNCHANGED <<pend, pskb, cur>>
    /\ UNCHANGED <<rxq, freeq, tskb, counters, dropped, missed, leftover, mixed, inflight, sched,
                   stopped, starts>>

-----------------------------------------------------------------------------
(* The driver *)

\* Device removed, or rtw_dev_unload.
Stop ==
    /\ ~stopped
    /\ stopped' = TRUE
    /\ UNCHANGED <<skbVars, counters, ghostVars, inflight, sched, pc, cur, starts>>

\* Resume: rtw_clr_drv_stopped and inirp_init, after usb_kill_urb of rtw_dev_unload has ended
\* every URB.  No tasklet outlasts the suspend in between.
Start ==
    /\ stopped
    /\ starts < MAXSTART
    /\ inflight = {} /\ pc["irq"] = "idle" /\ pc["open"] = "idle" /\ ~Running
    /\ starts' = starts + 1
    /\ stopped' = FALSE
    /\ Step("open", "port")
    /\ cur' = [cur EXCEPT !["open"] = 1]
    /\ leftover' = (leftover \/ rxq # <<>>)
    /\ mixed' = (mixed \/ pend # {})
    /\ UNCHANGED <<skbVars, counters, dropped, missed, inflight, sched>>

-----------------------------------------------------------------------------
ReadPortStep(p) == ReadPort(p) \/ Alloc(p) \/ Park(p) \/ Submit(p)

Tasklet == Run \/ Dequeue \/ Handle \/ Break \/ Release \/ Repost \/ ReadPortStep("tasklet")

Irq == Wake \/ Detach \/ ReadPortStep("irq")

Usb == \E b \in RecvBufs : \/ CompleteData(b) \/ CompleteAgain(b)
                           \/ CompleteError(b) \/ CompleteStopped(b)

\* Who uses recv_buf b: processes that set it up, and the USB core.
Users(b) ==
    {p \in Procs : cur[p] = b /\ pc[p] \in {"port", "alloc", "park", "submit", "wake", "detach"}}
        \cup {u \in {"usb"} : b \in inflight}

Clash == \E b \in RecvBufs : Cardinality(Users(b)) > 1

\* What follows a clash is not modelled: usb_fill_bulk_urb rewrites a URB in use.
Next ==
    /\ ~Clash
    /\ Tasklet \/ Irq \/ ReadPortStep("open") \/ Usb \/ Stop \/ Start

\* The kernel runs a scheduled tasklet, and interrupt handlers go on.
Fairness == WF_vars(~Clash /\ Tasklet) /\ WF_vars(~Clash /\ Irq)

Spec == Init /\ [][Next]_vars /\ Fairness

-----------------------------------------------------------------------------
(***************************************************************************)
(* An skb is in one place: the free queue, the queue of received ones, the *)
(* tasklet or one recv_buf.  Whatever fails, the controller never writes   *)
(* into an skb that is queued, handled or with another recv_buf.  The      *)
(* pointer that the completion clears only after it has queued the skb and *)
(* woken the tasklet is the one exception: nobody follows it, although the *)
(* skb may be free or in another recv_buf by then.                         *)
(***************************************************************************)
InQueue(s) == {i \in DOMAIN rxq : rxq[i] = s}

SkbInOnePlace ==
    \A s \in Skbs :
        /\ \A i, j \in InQueue(s) : i = j
        /\ \A b, c \in Holders(s) : b = c
        /\ s \in freeq => InQueue(s) = {} /\ Holders(s) = {} /\ tskb # s
        /\ InQueue(s) # {} => Holders(s) = {} /\ tskb # s
        /\ tskb = s => Holders(s) = {}

(***************************************************************************)
(* The completion schedules the tasklet only when it finds at most one skb *)
(* in the queue.  That is enough while the driver runs: a queue that is    *)
(* not empty has a tasklet that will empty it.  Not so after a restart     *)
(* that finds a queue the tasklet left behind when the driver stopped: no  *)
(* later completion finds the queue that short.                            *)
(***************************************************************************)
TaskletWillRun ==
    (rxq # <<>> /\ ~stopped) => (Running \/ pc["irq"] = "wake" \/ leftover)

(***************************************************************************)
(* Transfers are given to recvbuf2recvframe in the order in which they     *)
(* arrived, each once, and none is skipped before the driver stops for the *)
(* first time.                                                             *)
(***************************************************************************)
ReceivedInOrder ==
    /\ \A i, j \in DOMAIN handled : i < j => handled[i] < handled[j]
    /\ (starts = 1 /\ ~stopped) => \A i \in DOMAIN handled : handled[i] = i

(***************************************************************************)
(* No recv_buf is set up for a transfer while its URB is in flight or      *)
(* another process sets it up, unless inirp_init has submitted a recv_buf  *)
(* that was still in the pending queue.                                    *)
(***************************************************************************)
RecvBufHasOneUser == Clash => mixed

(***************************************************************************)
(* The receiver is deaf when it runs and no URB is in flight nor about to  *)
(* be.  It becomes so only by a refused or oddly ended URB, by recv_bufs   *)
(* that began to wait for an skb after the tasklet had looked for them, or *)
(* by a restart that finds no memory or recv_bufs in the pending queue.    *)
(***************************************************************************)
Deaf == ~stopped /\ inflight = {} /\ rxq = <<>> /\ ~sched /\ \A p \in Procs : pc[p] = "idle"

NeverDeaf == Deaf => (dropped \/ missed \/ mixed)

\* Every transfer queued is handled, unless the driver stops or has left the queue behind.
AllHandled ==
    \A s \in Skbs : (InQueue(s) # {}) ~> (InQueue(s) = {} \/ stopped \/ leftover \/ Clash)
=============================================================================
