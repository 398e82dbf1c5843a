------------------------------- MODULE TxPath -------------------------------
(***************************************************************************)
(* The way of a frame from vmac_low_tx to the USB controller: the pools of *)
(* xmit_frames and xmit_bufs of struct xmit_priv, xmit_mo (tx.c), the      *)
(* driver's dump_mgntframe, rtw_dump_xframe and usb_write_port, and the    *)
(* completion usb_write_port_complete.  dump_mgntframe_and_wait, by which  *)
(* the driver sends its own frames, takes from the same pools and waits    *)
(* for the completion with a submit_ctx on its stack.                      *)
(*                                                                         *)
(* Threads are the contexts that send: applications in nl_recv, the DACK   *)
(* handler, dack_timer, the driver.  Each step is one critical section, or *)
(* the code between two.  A pool is a set: which free element is taken     *)
(* does not matter to the properties.                                      *)
(***************************************************************************)
EXTENDS Naturals, FiniteSets

CONSTANTS
    Threads,
    Frames,         \* free_xframe_ext_queue
    Bufs,           \* free_xmit_extbuf_queue, NR_XMIT_EXTBUFF of them
    TRIES,          \* attempts of monitor_alloc_mgtxmitframe, 4
    MAXSEND         \* bound: frames handed to the driver

None == "none"

ASSUME TxPathAssumption ==
    /\ TRIES \in Nat \ {0} /\ MAXSEND \in Nat
    /\ None \notin Threads \cup Frames \cup Bufs

VARIABLES
    freeFrames, freeBufs,
    attrib,         \* attrib[f]: who wrote pxmitframe->attrib.raid last
    sctx,           \* sctx[b]: pxmitbuf->sctx, the thread whose submit_ctx it is
    urb,            \* urb[b]: idle, submitted, or completed and not yet released
    stopped,        \* bDriverStopped or bSurpriseRemoved
    pc, fn,         \* step of each thread, and the function it is in
    frame, buf,     \* pmgntframe and its pxmitbuf
    tries,          \* attempts left
    done,           \* done[t]: sctx.status once sctx.done is completed, or "no"
    skb,            \* skb[t]: what became of the skb of xmit_mo
    sent,           \* frames handed to the driver so far
    fate,           \* ghost: what became of the buffer a waiting thread sent
    hot,            \* ghost: frames taken while an xmit_mo still writes to them
    robbed          \* ghost: threads whose sctx another thread has cleared

poolVars == <<freeFrames, freeBufs>>
localVars == <<pc, fn, frame, buf, tries, skb>>
ghostVars == <<fate, hot, robbed>>
vars == <<poolVars, attrib, sctx, urb, stopped, localVars, done, sent, ghostVars>>

Results == {"no", "ok", "err"}

TypeOK ==
    /\ freeFrames \subseteq Frames /\ freeBufs \subseteq Bufs
    /\ attrib \in [Frames -> Threads \cup {None, "late"}]
    /\ sctx \in [Bufs -> Threads \cup {None}]
    /\ urb \in [Bufs -> {"idle", "submitted", "completed"}]
    /\ stopped \in BOOLEAN
    /\ pc \in [Threads -> {"idle", "frame", "buf", "fill", "dump", "submit", "release",
                           "finish", "wait", "clear"}]
    /\ fn \in [Threads -> {"xmit_mo", "and_wait"}]
    /\ frame \in [Threads -> Frames \cup {None}] /\ buf \in [Threads -> Bufs \cup {None}]
    /\ tries \in [Threads -> 0 .. TRIES]
    /\ done \in [Threads -> Results] /\ fate \in [Threads -> Results]
    /\ skb \in [Threads -> {"none", "held", "freed", "lost"}]
    /\ sent \in 0 .. MAXSEND
    /\ hot \subseteq Frames /\ robbed \subseteq Threads

Init ==
    /\ freeFrames = Frames /\ freeBufs = Bufs
    /\ attrib = [f \in Frames |-> None] /\ sctx = [b \in Bufs |-> None]
    /\ urb = [b \in Bufs |-> "idle"] /\ stopped = FALSE
    /\ pc = [t \in Threads |-> "idle"] /\ fn = [t \in Threads |-> "xmit_mo"]
    /\ frame = [t \in Threads |-> None] /\ buf = [t \in Threads |-> None]
    /\ tries = [t \in Threads |-> 0] /\ skb = [t \in Threads |-> "none"]
    /\ done = [t \in Threads |-> "no"] /\ fate = [t \in Threads |-> "no"]
    /\ sent = 0 /\ hot = {} /\ robbed = {}

\* The local variables of t when it returns.
Return(t) ==
    /\ pc' = [pc EXCEPT ![t] = "idle"]
    /\ frame' = [frame EXCEPT ![t] = None]
    /\ buf' = [buf EXCEPT ![t] = None]
    /\ tries' = [tries EXCEPT ![t] = 0]

Step(t, p) == pc' = [pc EXCEPT ![t] = p]

\* Seeded fault: whatever the status, the frame was sent.
SctxDoneOk(b, status) ==
    /\ done' = [t \in Threads |-> IF sctx[b] = t THEN "ok" ELSE done[t]]
    /\ sctx' = [sctx EXCEPT ![b] = None]

\* rtw_sctx_done_err(&pxmitbuf->sctx, status)
rtw_sctx_done_err(b, status) ==
    /\ done' = [t \in Threads |-> IF sctx[b] = t THEN status ELSE done[t]]
    /\ sctx' = [sctx EXCEPT ![b] = None]

-----------------------------------------------------------------------------
(* Allocation *)

\* Seeded fault: the loop of monitor_alloc_mgtxmitframe runs once more.
AttemptsOff(f) == IF f = "xmit_mo" THEN TRIES + 1 ELSE 1

\* monitor_alloc_mgtxmitframe tries TRIES times, the driver's own functions once.
Attempts(f) == IF f = "xmit_mo" THEN TRIES ELSE 1

\* xmit_mo or another function of the driver that sends a frame.
Start(t, f) ==
    /\ pc[t] = "idle"
    /\ sent < MAXSEND
    /\ sent' = sent + 1
    /\ fn' = [fn EXCEPT ![t] = f]
    /\ tries' = [tries EXCEPT ![t] = Attempts(f)]
    /\ skb' = [skb EXCEPT ![t] = IF f = "xmit_mo" THEN "held" ELSE "none"]
    /\ Step(t, "frame")
    /\ UNCHANGED <<poolVars, attrib, sctx, urb, stopped, frame, buf, done, ghostVars>>

\* alloc_mgtxmitframe returns NULL: once more, or NETDEV_TX_BUSY, and nobody frees the skb.
Failed(t) ==
    \/ /\ tries[t] > 1
       /\ Step(t, "frame")
       /\ tries' = [tries EXCEPT ![t] = tries[t] - 1]
       /\ frame' = [frame EXCEPT ![t] = None]
       /\ UNCHANGED <<buf, skb>>
    \/ /\ tries[t] = 1
       /\ Return(t)
       /\ skb' = [skb EXCEPT ![t] = IF fn[t] = "xmit_mo" THEN "lost" ELSE "none"]

\* rtw_alloc_xmitframe_ext: the frame is taken and its attrib cleared.
AllocFrame(t) ==
    /\ pc[t] = "frame"
    /\ \/ \E f \in freeFrames :
             /\ freeFrames' = freeFrames \ {f}
             /\ frame' = [frame EXCEPT ![t] = f]
             /\ attrib' = [attrib EXCEPT ![f] = None]
             /\ hot' = IF \E u \in Threads : pc[u] = "finish" /\ frame[u] = f
                       THEN hot \cup {f} ELSE hot \ {f}
             /\ Step(t, "buf")
             /\ UNCHANGED <<buf, tries, skb>>
       \/ /\ freeFrames = {}
          /\ Failed(t)
          /\ UNCHANGED <<freeFrames, attrib, hot>>
    /\ UNCHANGED <<freeBufs, sctx, urb, stopped, fn, done, sent, fate, robbed>>

\* rtw_alloc_xmitbuf_ext; without a buffer the frame goes back.
AllocBuf(t) ==
    /\ pc[t] = "buf"
    /\ \/ \E b \in freeBufs :
             /\ freeBufs' = freeBufs \ {b}
             /\ buf' = [buf EXCEPT ![t] = b]
             /\ rtw_sctx_done_err(b, "err")
             /\ Step(t, "fill")
             /\ UNCHANGED <<freeFrames, frame, tries, skb>>
       \/ /\ freeBufs = {}
          /\ freeFrames' = freeFrames \cup {frame[t]}
          /\ Failed(t)
          /\ UNCHANGED <<freeBufs, sctx, done>>
    /\ UNCHANGED <<attrib, urb, stopped, fn, sent, ghostVars>>

-----------------------------------------------------------------------------
(* Sending *)

\* Seeded fault: the frame goes back to the pool before it is dumped.
FillAndFree(t) ==
    /\ pc[t] = "fill"
    /\ attrib' = [attrib EXCEPT ![frame[t]] = t]
    /\ freeFrames' = freeFrames \cup {frame[t]}
    /\ Step(t, "dump")
    /\ UNCHANGED <<freeBufs, sctx, urb, stopped, fn, frame, buf, tries, skb, done, sent, ghostVars>>

\* The attributes, raid among them, and the copy of the frame into the buffer.
Fill(t) ==
    /\ pc[t] = "fill"
    /\ attrib' = [attrib EXCEPT ![frame[t]] = t]
    /\ Step(t, "dump")
    /\ UNCHANGED <<poolVars, sctx, urb, stopped, fn, frame, buf, tries, skb, done, sent, ghostVars>>

\* dump_mgntframe and dump_mgntframe_and_wait, which links its submit_ctx to the buffer.
Dump(t) ==
    /\ pc[t] = "dump"
    /\ \/ /\ stopped
          /\ freeBufs' = freeBufs \cup {buf[t]}
          /\ freeFrames' = freeFrames \cup {frame[t]}
          /\ rtw_sctx_done_err(buf[t], "err")
          /\ \/ fn[t] = "xmit_mo" /\ Step(t, "finish") /\ UNCHANGED <<frame, buf, tries>>
             \/ fn[t] = "and_wait" /\ Return(t)
          /\ UNCHANGED <<fate, robbed>>
       \/ /\ ~stopped
          /\ Step(t, "submit")
          /\ sctx' = IF fn[t] = "and_wait" THEN [sctx EXCEPT ![buf[t]] = t] ELSE sctx
          /\ done' = [done EXCEPT ![t] = "no"]
          /\ fate' = [fate EXCEPT ![t] = "no"]
          /\ robbed' = robbed \ {t}
          /\ UNCHANGED <<poolVars, frame, buf, tries>>
    /\ UNCHANGED <<attrib, urb, stopped, fn, skb, sent, hot>>

\* Seeded fault: the buffer stays out of the pool when the URB is refused.
KeptOnError(b) == freeBufs

\* rtw_free_xmitbuf on the error paths of usb_write_port.
FreedOnError(b) == freeBufs \cup {b}

(***************************************************************************)
(* rtw_dump_xframe and usb_write_port: the descriptor is made from attrib  *)
(* and the URB submitted, or refused, because the driver stopped or by the *)
(* controller, which may also stop the driver.  rtw_dump_xframe returns    *)
(* _SUCCESS for a single fragment in either case.                          *)
(***************************************************************************)
Submit(t) ==
    LET b == buf[t] IN
    /\ pc[t] = "submit"
    /\ \/ /\ ~stopped
          /\ urb' = [urb EXCEPT ![b] = "submitted"]
          /\ UNCHANGED <<freeBufs, sctx, done, fate, stopped>>
       \/ /\ stopped' \in {stopped, TRUE}
          /\ rtw_sctx_done_err(b, "err")
          /\ fate' = [fate EXCEPT ![t] = "err"]
          /\ freeBufs' = FreedOnError(b)
          /\ UNCHANGED urb
    /\ Step(t, "release")
    /\ UNCHANGED <<freeFrames, attrib, fn, frame, buf, tries, skb, sent, hot, robbed>>

\* rtw_free_xmitframe, at the end of rtw_dump_xframe.
Release(t) ==
    /\ pc[t] = "release"
    /\ freeFrames' = freeFrames \cup {frame[t]}
    /\ Step(t, IF fn[t] = "xmit_mo" THEN "finish" ELSE "wait")
    /\ UNCHANGED <<freeBufs, attrib, sctx, urb, stopped, fn, frame, buf, tries, skb, done,
                   sent, ghostVars>>

\* Back in xmit_mo: pattrib->raid of the frame that went back to the pool, and the skb.
Finish(t) ==
    /\ pc[t] = "finish"
    /\ attrib' = [attrib EXCEPT ![frame[t]] = "late"]
    /\ skb' = [skb EXCEPT ![t] = "freed"]
    /\ Return(t)
    /\ UNCHANGED <<poolVars, sctx, urb, stopped, fn, done, sent, ghostVars>>

\* rtw_sctx_wait: the completion, or the timeout.
Wait(t) ==
    /\ pc[t] = "wait"
    /\ Step(t, "clear")
    /\ UNCHANGED <<poolVars, attrib, sctx, urb, stopped, fn, frame, buf, tries, skb, done,
                   sent, ghostVars>>

\* Seeded fault: the submit_ctx stays linked to the buffer.
StillLinked(b) == sctx

\* pxmitbuf->sctx = NULL
Unlinked(b) == [sctx EXCEPT ![b] = None]

\* dump_mgntframe_and_wait unlinks its submit_ctx, under lock_sctx, and returns.
Clear(t) ==
    LET b == buf[t] IN
    /\ pc[t] = "clear"
    /\ sctx' = Unlinked(b)
    /\ robbed' = robbed \cup {u \in Threads \ {t} : sctx[b] = u}
    /\ done' = [done EXCEPT ![t] = "no"]
    /\ fate' = [fate EXCEPT ![t] = "no"]
    /\ Return(t)
    /\ UNCHANGED <<poolVars, attrib, urb, stopped, fn, skb, sent, hot>>

-----------------------------------------------------------------------------
(* usb_write_port_complete *)

\* The thread that sent buffer b last, while it still refers to it.
SenderOf(b) ==
    {t \in Threads : /\ buf[t] = b /\ fate[t] = "no"
                     /\ pc[t] \in {"release", "wait", "clear"}}

\* The URB ends, well or not, and completes the submit_ctx under lock_sctx.
UrbDone(b, status) ==
    /\ urb[b] = "submitted"
    /\ urb' = [urb EXCEPT ![b] = "completed"]
    /\ rtw_sctx_done_err(b, status)
    /\ fate' = [t \in Threads |-> IF t \in SenderOf(b) THEN status ELSE fate[t]]
    /\ stopped' \in {stopped, stopped \/ status = "err"}
    /\ UNCHANGED <<poolVars, attrib, localVars, sent, hot, robbed>>

\* rtw_free_xmitbuf
UrbFree(b) ==
    /\ urb[b] = "completed"
    /\ urb' = [urb EXCEPT ![b] = "idle"]
    /\ rtw_sctx_done_err(b, "err")
    /\ freeBufs' = freeBufs \cup {b}
    /\ UNCHANGED <<freeFrames, attrib, stopped, localVars, sent, ghostVars>>

\* The driver is stopped or the device unplugged.
Stop ==
    /\ ~stopped
    /\ stopped' = TRUE
    /\ UNCHANGED <<poolVars, attrib, sctx, urb, localVars, done, sent, ghostVars>>

-----------------------------------------------------------------------------
Thread(t) == AllocFrame(t) \/ AllocBuf(t) \/ Fill(t) \/ Dump(t) \/ Submit(t) \/ Release(t)
             \/ Finish(t) \/ Wait(t) \/ Clear(t)

Usb(b) == UrbFree(b) \/ \E status \in {"ok", "err"} : UrbDone(b, status)

Next ==
    \/ \E t \in Threads : Thread(t) \/ \E f \in {"xmit_mo", "and_wait"} : Start(t, f)
    \/ \E b \in Bufs : Usb(b)
    \/ Stop

\* Threads run, and the USB core completes every URB it accepted.
Fairness ==
    /\ \A t \in Threads : WF_vars(Thread(t))
    /\ \A b \in Bufs : WF_vars(Usb(b))

Spec == Init /\ [][Next]_vars /\ Fairness

-----------------------------------------------------------------------------
(***************************************************************************)
(* A buffer is in one place: in the pool, with one thread that has not     *)
(* submitted it, or with the USB core; likewise a frame.  Whatever fails,  *)
(* no buffer reaches the pool twice or while its URB is on its way.        *)
(***************************************************************************)
PlacesOfBuf(b) ==
    {t \in Threads : buf[t] = b /\ pc[t] \in {"fill", "dump", "submit"}}
        \cup {p \in {"pool"} : b \in freeBufs} \cup {p \in {"usb"} : urb[b] # "idle"}

PlacesOfFrame(f) ==
    {t \in Threads : frame[t] = f /\ pc[t] \in {"buf", "fill", "dump", "submit", "release"}}
        \cup {p \in {"pool"} : f \in freeFrames}

InOnePlace ==
    /\ \A b \in Bufs : Cardinality(PlacesOfBuf(b)) = 1
    /\ \A f \in Frames : Cardinality(PlacesOfFrame(f)) = 1

(***************************************************************************)
(* The submit_ctx is on the stack of dump_mgntframe_and_wait: a completion *)
(* later than its timeout, an error path or the next user of the buffer    *)
(* never finds it linked after the function has returned, and no buffer in *)
(* the pool is linked to one (rtw_alloc_xmitbuf_ext logs it if so).        *)
(***************************************************************************)
NoDanglingSctx ==
    \A b \in Bufs : sctx[b] # None =>
        /\ b \notin freeBufs
        /\ buf[sctx[b]] = b
        /\ pc[sctx[b]] \in {"submit", "release", "wait", "clear"}

(***************************************************************************)
(* A thread waiting for its frame learns what became of it: not before it  *)
(* is known, and not what became of another frame in the same buffer.  It  *)
(* is told nothing, and times out, if a thread that used the buffer before *)
(* cleared pxmitbuf->sctx only after it was linked again.                  *)
(***************************************************************************)
WaiterLearnsFate ==
    \A t \in Threads : pc[t] = "wait" =>
        done[t] = (IF t \in robbed THEN "no" ELSE fate[t])

(***************************************************************************)
(* The descriptor is made from the attributes the sending thread wrote,    *)
(* unless it took the frame from an xmit_mo that had not written raid yet  *)
(* when it gave the frame back.                                            *)
(***************************************************************************)
AttribIsOwn ==
    \A t \in Threads : (pc[t] = "submit" /\ frame[t] \notin hot) => attrib[frame[t]] = t

\* Every buffer and every frame is back in its pool when the sending is over.
PoolsRefill == <>[](freeBufs = Bufs /\ freeFrames = Frames)
=============================================================================
