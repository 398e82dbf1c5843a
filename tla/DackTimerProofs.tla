-------------------------- MODULE DackTimerProofs ---------------------------
(***************************************************************************)
(* Proofs of the safety properties of DackTimer for any number of DACKs.   *)
(***************************************************************************)
EXTENDS DackTimer, TLAPS

USE MaxDackAssumption

\* dacklok is held by the context whose program counter says so, and no other.
LockInv ==
    /\ lock = "rx" <=> rxpc \in {"locked", "unlock"}
    /\ lock = "timer" <=> tmpc = "locked"

\* Which of the four pointers are set at which point of the two functions.
PointerInv ==
    /\ dack # 0 <=> send = 1
    /\ skb # 0 <=> rxpc \in {"try", "locked"}
    /\ ptr # 0 => rxpc \in {"unlock", "free"}
    /\ tmskb # 0 <=> tmpc = "xmit"
    /\ dack <= built /\ skb <= built /\ ptr <= built /\ tmskb <= built

\* DACKs not built yet have no history.
FutureInv == \A n \in Skbs : n > built => xmits[n] = 0 /\ frees[n] = 0

\* The pointers hold DACKs in the order of their age, and all sent ones are older.
OrderInv ==
    /\ skb # 0 => dack < skb /\ tmskb < skb
    /\ dack # 0 => tmskb < dack
    /\ \A m \in Skbs : xmits[m] # 0 =>
          /\ skb # 0 => m < skb
          /\ dack # 0 => m < dack
          /\ tmskb # 0 => m < tmskb

IndInv ==
    /\ TypeOK /\ LockInv /\ PointerInv /\ FutureInv /\ OrderInv
    /\ DackNeverStranded /\ SkbConserved

\* A new entry has nothing pending and a timer that is due.
LEMMA InitIndInv == Init => IndInv
  BY DEF Init, IndInv, TypeOK, LockInv, PointerInv, FutureInv, OrderInv,
         DackNeverStranded, SkbConserved, Skbs, Holders

\* prepDACK could not lock: the DACK it built is freed.
LEMMA RxBusyStep == ASSUME IndInv, RxBusy PROVE IndInv'
<1>1. skb \in Skbs /\ skb <= built
  BY DEF IndInv, TypeOK, PointerInv, RxBusy, Skbs
<1>2. /\ frees' \in [Skbs -> Nat] /\ frees'[skb] = frees[skb] + 1
      /\ \A n \in Skbs : n # skb => frees'[n] = frees[n]
      /\ xmits' = xmits /\ built' = built
  BY <1>1 DEF IndInv, TypeOK, RxBusy, timerVars, info, fates
<1>3. TypeOK'
  BY <1>2 DEF IndInv, TypeOK, RxBusy, timerVars, info, fates
<1>4. LockInv' /\ PointerInv' /\ DackNeverStranded'
  BY DEF IndInv, TypeOK, LockInv, PointerInv, DackNeverStranded, RxBusy, timerVars, info, fates
<1>5. FutureInv'
  BY <1>1, <1>2 DEF IndInv, TypeOK, FutureInv, Skbs
<1>6. OrderInv'
  BY <1>1, <1>2 DEF IndInv, TypeOK, PointerInv, OrderInv, RxBusy, timerVars, info, fates, Skbs
<1>7. SkbConserved'
  <2> SUFFICES ASSUME NEW n \in 1 .. built
               PROVE  Holders(n)' + xmits'[n] + frees'[n] = 1
    BY <1>2 DEF SkbConserved
  <2>1. /\ Holders(n) + xmits[n] + frees[n] = 1
        /\ n \in Skbs /\ xmits[n] \in Nat /\ frees[n] \in Nat
    BY DEF IndInv, TypeOK, SkbConserved, Skbs
  <2>2. CASE n = skb
    <3>1. Holders(n) = Holders(n)' + 1
      BY <1>1, <2>1, <2>2 DEF IndInv, TypeOK, Holders, RxBusy, timerVars, info, fates, Skbs
    <3>2. Holders(n)' \in Nat
      BY DEF Holders
    <3> QED
      BY <1>2, <2>1, <2>2, <3>1, <3>2
  <2>3. CASE n # skb
    <3>1. Holders(n)' = Holders(n)
      BY <2>1, <2>3 DEF Holders, RxBusy, timerVars, info, fates, Skbs
    <3> QED
      BY <1>2, <2>1, <2>3, <3>1
  <2> QED
    BY <2>2, <2>3
<1> QED
  BY <1>3, <1>4, <1>5, <1>6, <1>7 DEF IndInv

\* prepDACK frees the DACK it replaced.
LEMMA FreeOldStep == ASSUME IndInv, FreeOld, ptr # 0 PROVE IndInv'
<1>1. ptr \in Skbs /\ ptr <= built
  BY DEF IndInv, TypeOK, PointerInv, FreeOld, Skbs
<1>2. /\ frees' \in [Skbs -> Nat] /\ frees'[ptr] = frees[ptr] + 1
      /\ \A n \in Skbs : n # ptr => frees'[n] = frees[n]
      /\ xmits' = xmits /\ built' = built
  BY <1>1 DEF IndInv, TypeOK, FreeOld, timerVars, info, fates
<1>3. TypeOK'
  BY <1>2 DEF IndInv, TypeOK, FreeOld, timerVars, info, fates
<1>4. LockInv' /\ PointerInv' /\ DackNeverStranded'
  BY DEF IndInv, TypeOK, LockInv, PointerInv, DackNeverStranded, FreeOld, timerVars, info, fates
<1>5. FutureInv'
  BY <1>1, <1>2 DEF IndInv, TypeOK, FutureInv, Skbs
<1>6. OrderInv'
  BY <1>1, <1>2 DEF IndInv, TypeOK, PointerInv, OrderInv, FreeOld, timerVars, info, fates, Skbs
<1>7. SkbConserved'
  <2> SUFFICES ASSUME NEW n \in 1 .. built
               PROVE  Holders(n)' + xmits'[n] + frees'[n] = 1
    BY <1>2 DEF SkbConserved
  <2>1. /\ Holders(n) + xmits[n] + frees[n] = 1
        /\ n \in Skbs /\ xmits[n] \in Nat /\ frees[n] \in Nat
    BY DEF IndInv, TypeOK, SkbConserved, Skbs
  <2>2. CASE n = ptr
    <3>1. Holders(n) = Holders(n)' + 1
      BY <1>1, <2>1, <2>2 DEF IndInv, TypeOK, Holders, FreeOld, timerVars, info, fates, Skbs
    <3>2. Holders(n)' \in Nat
      BY DEF Holders
    <3> QED
      BY <1>2, <2>1, <2>2, <3>1, <3>2
  <2>3. CASE n # ptr
    <3>1. Holders(n)' = Holders(n)
      BY <2>1, <2>3 DEF Holders, FreeOld, timerVars, info, fates, Skbs
    <3> QED
      BY <1>2, <2>1, <2>3, <3>1
  <2> QED
    BY <2>2, <2>3
<1> QED
  BY <1>3, <1>4, <1>5, <1>6, <1>7 DEF IndInv

\* __sendDACK hands the DACK it took to the radio.
LEMMA TransmitStep == ASSUME IndInv, Transmit PROVE IndInv'
<1>1. tmskb \in Skbs /\ tmskb <= built
  BY DEF IndInv, TypeOK, PointerInv, Transmit, Skbs
<1>2. /\ xmits' \in [Skbs -> Nat] /\ xmits'[tmskb] = xmits[tmskb] + 1
      /\ \A n \in Skbs : n # tmskb => xmits'[n] = xmits[n]
      /\ frees' = frees /\ built' = built
  BY <1>1 DEF IndInv, TypeOK, Transmit, rxLocals, info, fates
<1>3. TypeOK'
  BY <1>2 DEF IndInv, TypeOK, Transmit, rxLocals, info, fates
<1>4. LockInv' /\ PointerInv' /\ DackNeverStranded'
  BY DEF IndInv, TypeOK, LockInv, PointerInv, DackNeverStranded, Transmit, rxLocals, info, fates
<1>5. FutureInv'
  BY <1>1, <1>2 DEF IndInv, TypeOK, FutureInv, Skbs
<1>6. OrderInv'
  BY <1>1, <1>2 DEF IndInv, TypeOK, PointerInv, OrderInv, Transmit, rxLocals, info, fates, Skbs
<1>7. SkbConserved'
  <2> SUFFICES ASSUME NEW n \in 1 .. built
               PROVE  Holders(n)' + xmits'[n] + frees'[n] = 1
    BY <1>2 DEF SkbConserved
  <2>1. /\ Holders(n) + xmits[n] + frees[n] = 1
        /\ n \in Skbs /\ xmits[n] \in Nat /\ frees[n] \in Nat
    BY DEF IndInv, TypeOK, SkbConserved, Skbs
  <2>2. CASE n = tmskb
    <3>1. Holders(n) = Holders(n)' + 1
      BY <1>1, <2>1, <2>2 DEF IndInv, TypeOK, Holders, Transmit, rxLocals, info, fates, Skbs
    <3>2. Holders(n)' \in Nat
      BY DEF Holders
    <3> QED
      BY <1>2, <2>1, <2>2, <3>1, <3>2
  <2>3. CASE n # tmskb
    <3>1. Holders(n)' = Holders(n)
      BY <2>1, <2>3 DEF Holders, Transmit, rxLocals, info, fates, Skbs
    <3> QED
      BY <1>2, <2>1, <2>3, <3>1
  <2> QED
    BY <2>2, <2>3
<1> QED
  BY <1>3, <1>4, <1>5, <1>6, <1>7 DEF IndInv

\* Every step of prepDACK, of __sendDACK and of the handler that hears a DACK keeps it.
LEMMA NextIndInv == IndInv /\ [Next]_vars => IndInv'
<1> SUFFICES ASSUME IndInv, [Next]_vars PROVE IndInv'
  OBVIOUS
<1> USE DEF IndInv, TypeOK, LockInv, PointerInv, FutureInv, OrderInv,
            DackNeverStranded, SkbConserved, Skbs, Holders
<1>1. CASE Build
  BY SMTT(60), <1>1 DEF Build, timerVars, info, fates
<1>2. CASE RxLock
  BY <1>2 DEF RxLock, timerVars, info, fates
<1>3. CASE RxBusy
  BY <1>3, RxBusyStep
<1>4. CASE Replace
  BY SMTT(60), <1>4 DEF Replace, timerVars, fates
<1>5. CASE Schedule
  BY <1>5 DEF Schedule, timerVars, fates
<1>6. CASE RxUnlock
  BY <1>6 DEF RxUnlock, timerVars, info, fates
<1>7. CASE FreeOld
  <2>1. CASE ptr # 0
    BY <1>7, <2>1, FreeOldStep
  <2>2. CASE ptr = 0
    BY <1>7, <2>2 DEF FreeOld, timerVars, info, fates
  <2> QED
    BY <2>1, <2>2
<1>8. CASE Expire
  BY <1>8 DEF Expire, rxLocals, info, fates
<1>9. CASE TimerLock
  BY <1>9 DEF TimerLock, rxLocals, info, fates
<1>10. CASE TimerBusy
  BY <1>10 DEF TimerBusy, rxLocals, info, fates
<1>11. CASE Take
  BY <1>11 DEF Take, rxLocals, fates
<1>12. CASE NothingToSend
  BY <1>12 DEF NothingToSend, rxLocals, info, fates
<1>13. CASE Transmit
  BY <1>13, TransmitStep
<1>14. CASE HearDack
  BY <1>14 DEF HearDack, rxLocals, timerVars, fates
<1>15. CASE UNCHANGED vars
  BY <1>15 DEF vars
<1> QED
  BY <1>1, <1>2, <1>3, <1>4, <1>5, <1>6, <1>7, <1>8, <1>9, <1>10, <1>11,
     <1>12, <1>13, <1>14, <1>15 DEF Next, RxRun, Timer

\* It holds in every reachable state.
THEOREM IndInvHolds == Spec => []IndInv
  BY InitIndInv, NextIndInv, PTL DEF Spec

(***************************************************************************)
(* The variables of the DACK hand-over keep their types.                   *)
(***************************************************************************)
THEOREM TypeCorrect == Spec => []TypeOK
<1>1. IndInv => TypeOK
  BY DEF IndInv
<1> QED
  BY <1>1, IndInvHolds, PTL

(***************************************************************************)
(* A DACK that prepDACK marked for sending always has a timer, or a timer  *)
(* handler, that will find it: however the trylocks of prepDACK and        *)
(* __sendDACK fail, and for any number of rounds.                          *)
(***************************************************************************)
THEOREM NeverStranded == Spec => []DackNeverStranded
<1>1. IndInv => DackNeverStranded
  BY DEF IndInv
<1> QED
  BY <1>1, IndInvHolds, PTL

(***************************************************************************)
(* No DACK buffer is leaked, freed twice, or freed and sent, by prepDACK   *)
(* and __sendDACK.                                                         *)
(***************************************************************************)
THEOREM Conserved == Spec => []SkbConserved
<1>1. IndInv => SkbConserved
  BY DEF IndInv
<1> QED
  BY <1>1, IndInvHolds, PTL

(***************************************************************************)
(* DACKs of one consumer leave in the order of their rounds.               *)
(***************************************************************************)
THEOREM InOrder == Spec => SentInOrder
<1> DEFINE Step == \A n \in Skbs : xmits'[n] # xmits[n] =>
                      \A m \in Skbs : m > n => xmits[m] = 0
<1>1. IndInv /\ [Next]_vars => Step
  <2> SUFFICES ASSUME IndInv, [Next]_vars PROVE Step
    OBVIOUS
  <2>1. CASE Transmit
    BY <2>1 DEF IndInv, OrderInv, PointerInv, TypeOK, Transmit, Skbs
  <2>2. CASE ~Transmit
    <3>1. xmits' = xmits
      BY <2>2 DEF Next, RxRun, Timer, Build, RxLock, RxBusy, Replace, Schedule,
         RxUnlock, FreeOld, Expire, TimerLock, TimerBusy, Take, NothingToSend,
         HearDack, vars, fates
    <3> QED
      BY <3>1
  <2> QED
    BY <2>1, <2>2
<1>2. IndInv /\ [Next]_vars => [Step]_vars
  BY <1>1
<1> QED
  BY <1>2, IndInvHolds, PTL DEF Spec, SentInOrder
=============================================================================
