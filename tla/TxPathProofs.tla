---------------------------- MODULE TxPathProofs ----------------------------
(***************************************************************************)
(* Proofs of the safety properties of TxPath, for any number of threads,   *)
(* frames and buffers.                                                     *)
(***************************************************************************)
EXTENDS TxPath, FiniteSetTheorems, TLAPS

USE TxPathAssumption DEF None

\* The steps at which a thread holds its frame, and at which it holds its buffer.
HoldsFrame == {"buf", "fill", "dump", "submit", "release"}
HoldsBuf == {"fill", "dump", "submit"}

\* The steps at which pxmitbuf->sctx may point to the submit_ctx of the thread.
Linkable == {"submit", "release", "wait", "clear"}

\* Locals are set from the allocation to the return, and which function ends where.
LocalInv ==
    \A t \in Threads :
        /\ pc[t] \in {"idle", "frame"} \/ frame[t] \in Frames
        /\ pc[t] \in {"idle", "frame", "buf"} \/ buf[t] \in Bufs
        /\ pc[t] = "finish" => fn[t] = "xmit_mo"
        /\ pc[t] \in {"wait", "clear"} => fn[t] = "and_wait"

\* A frame is in the pool or with one thread.
FrameInv ==
    /\ \A f \in Frames : f \notin freeFrames =>
          \E t \in Threads : pc[t] \in HoldsFrame /\ frame[t] = f
    /\ \A t \in Threads : pc[t] \in HoldsFrame =>
          /\ frame[t] \notin freeFrames
          /\ \A u \in Threads : (pc[u] \in HoldsFrame /\ frame[u] = frame[t]) => u = t

\* A buffer is in the pool, with one thread or with the USB core.
BufInv ==
    /\ \A b \in Bufs : (b \notin freeBufs /\ urb[b] = "idle") =>
          \E t \in Threads : pc[t] \in HoldsBuf /\ buf[t] = b
    /\ \A b \in freeBufs : urb[b] = "idle"
    /\ \A t \in Threads : pc[t] \in HoldsBuf =>
          /\ buf[t] \notin freeBufs /\ urb[buf[t]] = "idle"
          /\ \A u \in Threads : (pc[u] \in HoldsBuf /\ buf[u] = buf[t]) => u = t

\* Where no submit_ctx is linked to a buffer, and to which one it may be.
LinkInv ==
    /\ \A b \in Bufs : sctx[b] # None => fn[sctx[b]] = "and_wait" /\ urb[b] # "completed"
    /\ \A t \in Threads :
          /\ pc[t] \in {"fill", "dump"} => sctx[buf[t]] = None
          /\ pc[t] = "submit" => sctx[buf[t]] \in {None, t}

(***************************************************************************)
(* A thread in dump_mgntframe_and_wait: still linked and not told; robbed  *)
(* and never told; or told the fate of its frame.                          *)
(***************************************************************************)
WaitInv ==
    \A t \in Threads : (fn[t] = "and_wait" /\ pc[t] \in Linkable) =>
        \/ /\ sctx[buf[t]] = t /\ t \notin robbed
           /\ done[t] = "no" /\ fate[t] = "no"
        \/ /\ sctx[buf[t]] # t /\ t \in robbed
           /\ done[t] = "no"
        \/ /\ sctx[buf[t]] # t /\ t \notin robbed /\ pc[t] # "submit"
           /\ done[t] = fate[t] /\ fate[t] # "no"

\* Attributes are the holder's own, and a frame an xmit_mo still writes to is known.
AttribInv ==
    /\ \A t \in Threads : pc[t] \in {"dump", "submit"} =>
          frame[t] \in hot \/ attrib[frame[t]] = t
    /\ \A t, u \in Threads :
          (pc[t] \in HoldsFrame /\ pc[u] = "finish" /\ frame[u] = frame[t]) => frame[t] \in hot

IndInv ==
    /\ TypeOK /\ LocalInv /\ FrameInv /\ BufInv /\ LinkInv
    /\ NoDanglingSctx /\ WaitInv /\ AttribInv

\* A thread starts to send.
LEMMA StartStep ==
    ASSUME IndInv, NEW t \in Threads, NEW f \in {"xmit_mo", "and_wait"}, Start(t, f)
    PROVE  IndInv'
<1> USE DEF IndInv, TypeOK, Results, LocalInv, Start, Step, Attempts, poolVars,
            localVars, ghostVars
<1>1. TypeOK'
  OBVIOUS
<1>2. LocalInv'
  OBVIOUS
<1>3. FrameInv'
  BY DEF FrameInv, HoldsFrame
<1>4. BufInv'
  BY DEF BufInv, HoldsBuf
<1>5. LinkInv'
  BY DEF LinkInv, NoDanglingSctx, BufInv, HoldsBuf
<1>6. NoDanglingSctx'
  BY DEF NoDanglingSctx, BufInv, HoldsBuf, LinkInv
<1>7. WaitInv'
  BY DEF WaitInv, Linkable, LinkInv, NoDanglingSctx, BufInv, HoldsBuf
<1>8. AttribInv'
  BY DEF AttribInv, HoldsFrame, FrameInv
<1> QED
  BY <1>1, <1>2, <1>3, <1>4, <1>5, <1>6, <1>7, <1>8

\* A frame is taken from the pool, or there is none.
LEMMA AllocFrameStep == ASSUME IndInv, NEW t \in Threads, AllocFrame(t) PROVE IndInv'
<1> USE DEF IndInv, TypeOK, Results, LocalInv, AllocFrame, Step, Failed, Return,
            poolVars, localVars, ghostVars
<1>1. TypeOK'
  OBVIOUS
<1>2. LocalInv'
  OBVIOUS
<1>3. FrameInv'
  BY DEF FrameInv, HoldsFrame
<1>4. BufInv'
  BY DEF BufInv, HoldsBuf
<1>5. LinkInv'
  BY DEF LinkInv, NoDanglingSctx, BufInv, HoldsBuf
<1>6. NoDanglingSctx'
  BY DEF NoDanglingSctx, BufInv, HoldsBuf, LinkInv
<1>7. WaitInv'
  BY DEF WaitInv, Linkable, LinkInv, NoDanglingSctx, BufInv, HoldsBuf
<1>8. AttribInv'
  BY SMTT(60) DEF AttribInv, HoldsFrame, FrameInv
<1> QED
  BY <1>1, <1>2, <1>3, <1>4, <1>5, <1>6, <1>7, <1>8

\* A buffer is taken from the pool, or the frame goes back.
LEMMA AllocBufStep == ASSUME IndInv, NEW t \in Threads, AllocBuf(t) PROVE IndInv'
<1> USE DEF IndInv, TypeOK, Results, LocalInv, AllocBuf, Step, Failed, Return,
            rtw_sctx_done_err, poolVars, localVars, ghostVars
<1>1. TypeOK'
  OBVIOUS
<1>2. LocalInv'
  OBVIOUS
<1>3. FrameInv'
  BY SMTT(60) DEF FrameInv, HoldsFrame
<1>4. BufInv'
  BY DEF BufInv, HoldsBuf
<1>5. LinkInv'
  BY DEF LinkInv, NoDanglingSctx, BufInv, HoldsBuf
<1>6. NoDanglingSctx'
  BY DEF NoDanglingSctx, BufInv, HoldsBuf, LinkInv
<1>7. WaitInv'
  BY DEF WaitInv, Linkable, LinkInv, NoDanglingSctx, BufInv, HoldsBuf
<1>8. AttribInv'
  BY DEF AttribInv, HoldsFrame, FrameInv
<1> QED
  BY <1>1, <1>2, <1>3, <1>4, <1>5, <1>6, <1>7, <1>8

\* The attributes are written.
LEMMA FillStep == ASSUME IndInv, NEW t \in Threads, Fill(t) PROVE IndInv'
<1> USE DEF IndInv, TypeOK, Results, LocalInv, Fill, Step, poolVars, localVars, ghostVars
<1>1. TypeOK'
  OBVIOUS
<1>2. LocalInv'
  OBVIOUS
<1>3. FrameInv'
  BY DEF FrameInv, HoldsFrame
<1>4. BufInv'
  BY DEF BufInv, HoldsBuf
<1>5. LinkInv'
  BY DEF LinkInv, NoDanglingSctx, BufInv, HoldsBuf
<1>6. NoDanglingSctx'
  BY DEF NoDanglingSctx, BufInv, HoldsBuf, LinkInv
<1>7. WaitInv'
  BY DEF WaitInv, Linkable, LinkInv, NoDanglingSctx, BufInv, HoldsBuf
<1>8. AttribInv'
  BY DEF AttribInv, HoldsFrame, FrameInv
<1> QED
  BY <1>1, <1>2, <1>3, <1>4, <1>5, <1>6, <1>7, <1>8

\* The submit_ctx is linked, or a stopped driver takes frame and buffer back.
LEMMA DumpStep == ASSUME IndInv, NEW t \in Threads, Dump(t) PROVE IndInv'
<1> USE DEF IndInv, TypeOK, Results, LocalInv, Dump, Step, Return, rtw_sctx_done_err,
            poolVars, localVars, ghostVars
<1>1. TypeOK'
  OBVIOUS
<1>2. LocalInv'
  OBVIOUS
<1>3. FrameInv'
  BY DEF FrameInv, HoldsFrame
<1>4. BufInv'
  BY SMTT(60) DEF BufInv, HoldsBuf
<1>5. LinkInv'
  BY DEF LinkInv, NoDanglingSctx, BufInv, HoldsBuf
<1>6. NoDanglingSctx'
  BY DEF NoDanglingSctx, BufInv, HoldsBuf, LinkInv
<1>7. WaitInv'
  BY DEF WaitInv, Linkable, LinkInv, NoDanglingSctx, BufInv, HoldsBuf
<1>8. AttribInv'
  BY SMTT(60) DEF AttribInv, HoldsFrame, FrameInv
<1> QED
  BY <1>1, <1>2, <1>3, <1>4, <1>5, <1>6, <1>7, <1>8

\* The URB is submitted or refused.
LEMMA SubmitStep == ASSUME IndInv, NEW t \in Threads, Submit(t) PROVE IndInv'
<1> DEFINE Accepted ==
             /\ urb' = [urb EXCEPT ![buf[t]] = "submitted"]
             /\ UNCHANGED <<freeBufs, sctx, done, fate, stopped>>
<1> DEFINE Refused ==
             /\ rtw_sctx_done_err(buf[t], "err")
             /\ fate' = [fate EXCEPT ![t] = "err"]
             /\ freeBufs' = freeBufs \cup {buf[t]}
             /\ UNCHANGED urb
<1>1. /\ pc[t] = "submit" /\ pc' = [pc EXCEPT ![t] = "release"]
      /\ UNCHANGED <<freeFrames, attrib, fn, frame, buf, tries, skb, sent, hot, robbed>>
      /\ Accepted \/ Refused
  BY DEF Submit, Step, FreedOnError
<1>2. stopped' \in BOOLEAN
  BY Zenon DEF Submit, IndInv, TypeOK
<1> HIDE DEF Accepted, Refused
<1> USE DEF IndInv, TypeOK, Results, LocalInv
<1>3. CASE Accepted
  <2> USE <1>1, <1>2, <1>3 DEF Accepted
  <2>1. TypeOK' /\ LocalInv'
    OBVIOUS
  <2>2. FrameInv' /\ AttribInv'
    BY DEF FrameInv, AttribInv, HoldsFrame
  <2>3. BufInv'
    BY DEF BufInv, HoldsBuf
  <2>4. LinkInv' /\ NoDanglingSctx'
    BY DEF LinkInv, NoDanglingSctx, BufInv, HoldsBuf
  <2>5. WaitInv'
    BY DEF WaitInv, Linkable, LinkInv
  <2> QED
    BY <2>1, <2>2, <2>3, <2>4, <2>5
<1>4. CASE Refused
  <2> USE <1>1, <1>2, <1>4 DEF Refused, rtw_sctx_done_err
  <2>1. TypeOK' /\ LocalInv'
    OBVIOUS
  <2>2. FrameInv' /\ AttribInv'
    BY DEF FrameInv, AttribInv, HoldsFrame
  <2>3. BufInv'
    BY DEF BufInv, HoldsBuf
  <2>4. LinkInv' /\ NoDanglingSctx'
    BY DEF LinkInv, NoDanglingSctx, BufInv, HoldsBuf
  <2>5. WaitInv'
    BY DEF WaitInv, Linkable, LinkInv, NoDanglingSctx
  <2> QED
    BY <2>1, <2>2, <2>3, <2>4, <2>5
<1> QED
  BY <1>1, <1>3, <1>4

\* The frame goes back to the pool.
LEMMA ReleaseStep == ASSUME IndInv, NEW t \in Threads, Release(t) PROVE IndInv'
<1> USE DEF IndInv, TypeOK, Results, LocalInv, Release, Step, poolVars, localVars, ghostVars
<1>1. TypeOK'
  OBVIOUS
<1>2. LocalInv'
  OBVIOUS
<1>3. FrameInv'
  BY DEF FrameInv, HoldsFrame
<1>4. BufInv'
  BY DEF BufInv, HoldsBuf
<1>5. LinkInv'
  BY DEF LinkInv, NoDanglingSctx, BufInv, HoldsBuf
<1>6. NoDanglingSctx'
  BY DEF NoDanglingSctx, BufInv, HoldsBuf, LinkInv
<1>7. WaitInv'
  BY DEF WaitInv, Linkable, LinkInv, NoDanglingSctx, BufInv, HoldsBuf
<1>8. AttribInv'
  BY DEF AttribInv, HoldsFrame, FrameInv
<1> QED
  BY <1>1, <1>2, <1>3, <1>4, <1>5, <1>6, <1>7, <1>8

\* xmit_mo writes raid and returns.
LEMMA FinishStep == ASSUME IndInv, NEW t \in Threads, Finish(t) PROVE IndInv'
<1> USE DEF IndInv, TypeOK, Results, LocalInv, Finish, Return, poolVars, localVars,
            ghostVars
<1>1. TypeOK'
  OBVIOUS
<1>2. LocalInv'
  OBVIOUS
<1>3. FrameInv'
  BY DEF FrameInv, HoldsFrame
<1>4. BufInv'
  BY DEF BufInv, HoldsBuf
<1>5. LinkInv'
  BY DEF LinkInv, NoDanglingSctx, BufInv, HoldsBuf
<1>6. NoDanglingSctx'
  BY DEF NoDanglingSctx, BufInv, HoldsBuf, LinkInv
<1>7. WaitInv'
  BY DEF WaitInv, Linkable, LinkInv, NoDanglingSctx, BufInv, HoldsBuf
<1>8. AttribInv'
  BY DEF AttribInv, HoldsFrame, FrameInv
<1> QED
  BY <1>1, <1>2, <1>3, <1>4, <1>5, <1>6, <1>7, <1>8

\* The wait ends.
LEMMA WaitStep == ASSUME IndInv, NEW t \in Threads, Wait(t) PROVE IndInv'
<1> USE DEF IndInv, TypeOK, Results, LocalInv, Wait, Step, poolVars, localVars, ghostVars
<1>1. TypeOK'
  OBVIOUS
<1>2. LocalInv'
  OBVIOUS
<1>3. FrameInv'
  BY DEF FrameInv, HoldsFrame
<1>4. BufInv'
  BY DEF BufInv, HoldsBuf
<1>5. LinkInv'
  BY DEF LinkInv, NoDanglingSctx, BufInv, HoldsBuf
<1>6. NoDanglingSctx'
  BY DEF NoDanglingSctx, BufInv, HoldsBuf, LinkInv
<1>7. WaitInv'
  BY DEF WaitInv, Linkable, LinkInv, NoDanglingSctx, BufInv, HoldsBuf
<1>8. AttribInv'
  BY DEF AttribInv, HoldsFrame, FrameInv
<1> QED
  BY <1>1, <1>2, <1>3, <1>4, <1>5, <1>6, <1>7, <1>8

\* The submit_ctx is unlinked.
LEMMA ClearStep == ASSUME IndInv, NEW t \in Threads, Clear(t) PROVE IndInv'
<1> USE DEF IndInv, TypeOK, Results, LocalInv, Clear, Unlinked, Return, poolVars,
            localVars, ghostVars
<1>1. TypeOK'
  OBVIOUS
<1>2. LocalInv'
  OBVIOUS
<1>3. FrameInv'
  BY DEF FrameInv, HoldsFrame
<1>4. BufInv'
  BY DEF BufInv, HoldsBuf
<1>5. LinkInv'
  BY DEF LinkInv, NoDanglingSctx, BufInv, HoldsBuf
<1>6. NoDanglingSctx'
  BY DEF NoDanglingSctx, BufInv, HoldsBuf, LinkInv
<1>7. WaitInv'
  BY DEF WaitInv, Linkable, LinkInv, NoDanglingSctx, BufInv, HoldsBuf
<1>8. AttribInv'
  BY DEF AttribInv, HoldsFrame, FrameInv
<1> QED
  BY <1>1, <1>2, <1>3, <1>4, <1>5, <1>6, <1>7, <1>8

\* The URB completes.
LEMMA UrbDoneStep ==
    ASSUME IndInv, NEW b \in Bufs, NEW status \in {"ok", "err"}, UrbDone(b, status)
    PROVE  IndInv'
<1> USE DEF IndInv, TypeOK, Results, LocalInv, UrbDone, rtw_sctx_done_err, SenderOf,
            poolVars, localVars, ghostVars
<1>1. TypeOK'
  OBVIOUS
<1>2. LocalInv'
  OBVIOUS
<1>3. FrameInv'
  BY DEF FrameInv, HoldsFrame
<1>4. BufInv'
  BY DEF BufInv, HoldsBuf
<1>5. LinkInv'
  BY DEF LinkInv, NoDanglingSctx, BufInv, HoldsBuf
<1>6. NoDanglingSctx'
  BY DEF NoDanglingSctx, BufInv, HoldsBuf, LinkInv
<1>7. WaitInv'
  BY DEF WaitInv, Linkable, LinkInv, NoDanglingSctx, BufInv, HoldsBuf
<1>8. AttribInv'
  BY DEF AttribInv, HoldsFrame, FrameInv
<1> QED
  BY <1>1, <1>2, <1>3, <1>4, <1>5, <1>6, <1>7, <1>8

\* The completed buffer goes back to the pool.
LEMMA UrbFreeStep == ASSUME IndInv, NEW b \in Bufs, UrbFree(b) PROVE IndInv'
<1> USE DEF IndInv, TypeOK, Results, LocalInv, UrbFree, rtw_sctx_done_err, poolVars,
            localVars, ghostVars
<1>1. TypeOK'
  OBVIOUS
<1>2. LocalInv'
  OBVIOUS
<1>3. FrameInv'
  BY DEF FrameInv, HoldsFrame
<1>4. BufInv'
  BY DEF BufInv, HoldsBuf
<1>5. LinkInv'
  BY DEF LinkInv, NoDanglingSctx, BufInv, HoldsBuf
<1>6. NoDanglingSctx'
  BY DEF NoDanglingSctx, BufInv, HoldsBuf, LinkInv
<1>7. WaitInv'
  BY DEF WaitInv, Linkable, LinkInv, NoDanglingSctx, BufInv, HoldsBuf
<1>8. AttribInv'
  BY DEF AttribInv, HoldsFrame, FrameInv
<1> QED
  BY <1>1, <1>2, <1>3, <1>4, <1>5, <1>6, <1>7, <1>8

\* The driver stops.
LEMMA StopStep == ASSUME IndInv, Stop PROVE IndInv'
<1> USE DEF IndInv, TypeOK, Results, LocalInv, Stop, poolVars, localVars, ghostVars
<1>1. TypeOK'
  OBVIOUS
<1>2. LocalInv'
  OBVIOUS
<1>3. FrameInv'
  BY DEF FrameInv, HoldsFrame
<1>4. BufInv'
  BY DEF BufInv, HoldsBuf
<1>5. LinkInv'
  BY DEF LinkInv, NoDanglingSctx, BufInv, HoldsBuf
<1>6. NoDanglingSctx'
  BY DEF NoDanglingSctx, BufInv, HoldsBuf, LinkInv
<1>7. WaitInv'
  BY DEF WaitInv, Linkable, LinkInv, NoDanglingSctx, BufInv, HoldsBuf
<1>8. AttribInv'
  BY DEF AttribInv, HoldsFrame, FrameInv
<1> QED
  BY <1>1, <1>2, <1>3, <1>4, <1>5, <1>6, <1>7, <1>8

\* All frames and buffers are in their pools.
LEMMA InitIndInv == Init => IndInv
<1> SUFFICES ASSUME Init PROVE IndInv
  OBVIOUS
<1>1. TypeOK
  <2>0. stopped \in BOOLEAN
    BY Zenon DEF Init
  <2>1. sent \in 0 .. MAXSEND /\ hot \subseteq Frames /\ robbed \subseteq Threads
    BY DEF Init
  <2>2. /\ freeFrames \subseteq Frames /\ freeBufs \subseteq Bufs
        /\ attrib \in [Frames -> Threads \cup {None, "late"}]
        /\ sctx \in [Bufs -> Threads \cup {None}]
        /\ urb \in [Bufs -> {"idle", "submitted", "completed"}]
    BY DEF Init
  <2>3. /\ pc \in [Threads -> {"idle", "frame", "buf", "fill", "dump", "submit", "release",
                               "finish", "wait", "clear"}]
        /\ fn \in [Threads -> {"xmit_mo", "and_wait"}]
        /\ frame \in [Threads -> Frames \cup {None}] /\ buf \in [Threads -> Bufs \cup {None}]
        /\ tries \in [Threads -> 0 .. TRIES]
    BY DEF Init
  <2>4. /\ done \in [Threads -> Results] /\ fate \in [Threads -> Results]
        /\ skb \in [Threads -> {"none", "held", "freed", "lost"}]
    BY DEF Init, Results
  <2> QED
    BY <2>0, <2>1, <2>2, <2>3, <2>4 DEF TypeOK
<1>2. LocalInv /\ FrameInv /\ AttribInv
  BY DEF Init, LocalInv, FrameInv, AttribInv, HoldsFrame
<1>3. BufInv /\ LinkInv /\ NoDanglingSctx /\ WaitInv
  BY DEF Init, BufInv, LinkInv, NoDanglingSctx, WaitInv, HoldsBuf, Linkable
<1> QED
  BY <1>1, <1>2, <1>3 DEF IndInv

\* Every step keeps the invariant.
LEMMA NextIndInv == IndInv /\ [Next]_vars => IndInv'
<1> SUFFICES ASSUME IndInv, [Next]_vars PROVE IndInv'
  OBVIOUS
<1>1. ASSUME NEW t \in Threads, Thread(t) PROVE IndInv'
  BY <1>1, AllocFrameStep, AllocBufStep, FillStep, DumpStep, SubmitStep, ReleaseStep,
     FinishStep, WaitStep, ClearStep DEF Thread
<1>2. ASSUME NEW b \in Bufs, Usb(b) PROVE IndInv'
  BY <1>2, UrbFreeStep, UrbDoneStep DEF Usb
<1>3. CASE UNCHANGED vars
  BY <1>3 DEF vars, poolVars, localVars, ghostVars, IndInv, TypeOK, LocalInv, FrameInv,
     BufInv, LinkInv, NoDanglingSctx, WaitInv, AttribInv
<1> QED
  BY <1>1, <1>2, <1>3, StartStep, StopStep DEF Next

\* The conjuncts of IndInv hold in every reachable state.
LEMMA Inductive == Spec => []IndInv
<1> QED
  BY InitIndInv, NextIndInv, PTL DEF Spec

-----------------------------------------------------------------------------
\* A set with exactly one member has cardinality 1.
LEMMA OneElement == ASSUME NEW S, NEW x \in S, \A y \in S : y = x PROVE Cardinality(S) = 1
<1>1. S = {x}
  OBVIOUS
<1> QED
  BY <1>1, FS_Singleton

\* What the invariant says of frames and buffers is what InOnePlace counts.
LEMMA PlacesCounted == IndInv => InOnePlace
<1> SUFFICES ASSUME IndInv PROVE InOnePlace
  OBVIOUS
<1>1. ASSUME NEW b \in Bufs PROVE Cardinality(PlacesOfBuf(b)) = 1
  <2>1. CASE b \in freeBufs
    <3>1. "pool" \in PlacesOfBuf(b) /\ \A p \in PlacesOfBuf(b) : p = "pool"
      BY <2>1 DEF PlacesOfBuf, IndInv, TypeOK, BufInv, HoldsBuf
    <3> QED
      BY <3>1, OneElement
  <2>2. CASE urb[b] # "idle"
    <3>1. "usb" \in PlacesOfBuf(b) /\ \A p \in PlacesOfBuf(b) : p = "usb"
      BY <2>2 DEF PlacesOfBuf, IndInv, TypeOK, BufInv, HoldsBuf
    <3> QED
      BY <3>1, OneElement
  <2>3. CASE b \notin freeBufs /\ urb[b] = "idle"
    <3>1. PICK t \in Threads : pc[t] \in HoldsBuf /\ buf[t] = b
      BY <2>3 DEF IndInv, BufInv
    <3>2. t \in PlacesOfBuf(b) /\ \A p \in PlacesOfBuf(b) : p = t
      BY <2>3, <3>1 DEF PlacesOfBuf, IndInv, BufInv, HoldsBuf
    <3> QED
      BY <3>2, OneElement
  <2> QED
    BY <2>1, <2>2, <2>3
<1>2. ASSUME NEW f \in Frames PROVE Cardinality(PlacesOfFrame(f)) = 1
  <2>1. CASE f \in freeFrames
    <3>1. "pool" \in PlacesOfFrame(f) /\ \A p \in PlacesOfFrame(f) : p = "pool"
      BY <2>1 DEF PlacesOfFrame, IndInv, FrameInv, HoldsFrame
    <3> QED
      BY <3>1, OneElement
  <2>2. CASE f \notin freeFrames
    <3>1. PICK t \in Threads : pc[t] \in HoldsFrame /\ frame[t] = f
      BY <2>2 DEF IndInv, FrameInv
    <3>2. t \in PlacesOfFrame(f) /\ \A p \in PlacesOfFrame(f) : p = t
      BY <2>2, <3>1 DEF PlacesOfFrame, IndInv, FrameInv, HoldsFrame
    <3> QED
      BY <3>2, OneElement
  <2> QED
    BY <2>1, <2>2
<1> QED
  BY <1>1, <1>2 DEF InOnePlace

-----------------------------------------------------------------------------
\* Every variable of the transmit path keeps its type.
THEOREM TypeCorrect == Spec => []TypeOK
<1>1. IndInv => TypeOK
  BY DEF IndInv
<1> QED
  BY <1>1, Inductive, PTL

(***************************************************************************)
(* Whatever is refused, fails or stops, a frame and a buffer are in one    *)
(* place: the pools neither lose one nor give one to two users.            *)
(***************************************************************************)
THEOREM PoolsConserved == Spec => []InOnePlace
<1> QED
  BY PlacesCounted, Inductive, PTL

\* No buffer is linked to the stack of a dump_mgntframe_and_wait that has returned.
THEOREM NeverDangling == Spec => []NoDanglingSctx
<1>1. IndInv => NoDanglingSctx
  BY DEF IndInv
<1> QED
  BY <1>1, Inductive, PTL

\* A waiting thread is told the fate of its own frame, or nothing if it was robbed.
THEOREM FateLearned == Spec => []WaiterLearnsFate
<1>1. IndInv => WaiterLearnsFate
  BY DEF IndInv, TypeOK, LocalInv, WaitInv, Linkable, WaiterLearnsFate
<1> QED
  BY <1>1, Inductive, PTL

\* A descriptor is made from the sender's attributes, unless a late raid may have come between.
THEOREM OwnAttributes == Spec => []AttribIsOwn
<1>1. IndInv => AttribIsOwn
  BY DEF IndInv, AttribInv, AttribIsOwn
<1> QED
  BY <1>1, Inductive, PTL
=============================================================================
