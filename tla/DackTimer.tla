----------------------------- MODULE DackTimer ------------------------------
(***************************************************************************)
(* The pending DACK of one subscription (struct dack_info) and the two     *)
(* contexts that share it under dacklok: the receive softirq in prepDACK,  *)
(* once the DACK is built, and the timer softirq in __sendDACK, on another *)
(* CPU.  Both only ever try the lock.  DACKs are numbered in the order     *)
(* prepDACK builds them.                                                   *)
(*                                                                         *)
(* From the kernel: a timer that expires is disarmed before its handler    *)
(* runs, mod_timer arms it again at any time, and one timer's handler      *)
(* never runs twice at once.                                               *)
(***************************************************************************)
EXTENDS Naturals

CONSTANT MAXDACK    \* bound: DACKs built in a behaviour

ASSUME MaxDackAssumption == MAXDACK \in Nat \ {0}

VARIABLES
    lock,       \* dacklok: "free", or its holder
    send,       \* dac_info.send
    dack,       \* dac_info.dack, 0 for NULL
    armed,      \* dack_timer is pending
    rxpc,       \* prepDACK: where it is
    skb, ptr,   \* prepDACK: the new DACK, and the one it replaces (0: none)
    tmpc,       \* __sendDACK: where it is
    tmskb,      \* __sendDACK: the DACK taken
    built,      \* DACKs built so far
    xmits,      \* ghost: xmits[n], times DACK n was handed to the radio
    frees,      \* ghost: frees[n], times DACK n was freed unsent
    heard       \* ghost: DACKs of the pending round heard since it was set

vars == <<lock, send, dack, armed, rxpc, skb, ptr, tmpc, tmskb, built, xmits, frees, heard>>

Skbs == 1 .. MAXDACK
fates == <<xmits, frees>>

TypeOK ==
    /\ lock \in {"free", "rx", "timer"}
    /\ send \in {0, 1}
    /\ dack \in 0 .. MAXDACK
    /\ armed \in BOOLEAN
    /\ rxpc \in {"idle", "try", "locked", "unlock", "free"}
    /\ skb \in 0 .. MAXDACK
    /\ ptr \in 0 .. MAXDACK
    /\ tmpc \in {"idle", "try", "locked", "xmit"}
    /\ tmskb \in 0 .. MAXDACK
    /\ built \in 0 .. MAXDACK
    /\ xmits \in [Skbs -> Nat]
    /\ frees \in [Skbs -> Nat]
    /\ heard \in 0 .. 2

\* vmac_tx creates the entry with nothing to send and the timer due at once.
Init ==
    /\ lock = "free" /\ send = 0 /\ dack = 0 /\ armed = TRUE
    /\ rxpc = "idle" /\ skb = 0 /\ ptr = 0
    /\ tmpc = "idle" /\ tmskb = 0
    /\ built = 0
    /\ xmits = [n \in Skbs |-> 0]
    /\ frees = [n \in Skbs |-> 0]
    /\ heard = 0

timerVars == <<tmpc, tmskb>>
rxLocals == <<rxpc, skb, ptr, built>>
info == <<send, dack, heard>>

-----------------------------------------------------------------------------
(* The receive softirq: prepDACK *)

\* dev_alloc_skb succeeded (if not, nothing happens) and the DACK is written.
Build ==
    /\ rxpc = "idle" /\ built < MAXDACK
    /\ built' = built + 1
    /\ skb' = built + 1
    /\ ptr' = 0
    /\ rxpc' = "try"
    /\ UNCHANGED <<lock, info, armed, timerVars, fates>>

RxLock ==
    /\ rxpc = "try" /\ lock = "free"
    /\ lock' = "rx"
    /\ rxpc' = "locked"
    /\ UNCHANGED <<info, armed, skb, ptr, built, timerVars, fates>>

\* spin_trylock failed: the new DACK is dropped, the pending one stays.
RxBusy ==
    /\ rxpc = "try" /\ lock # "free"
    /\ frees' = [frees EXCEPT ![skb] = frees[skb] + 1]
    /\ skb' = 0
    /\ rxpc' = "idle"
    /\ UNCHANGED <<lock, info, armed, ptr, built, timerVars, xmits>>

\* Seeded faults: send counts; the waiting DACK is forgotten.
ReplaceCount ==
    /\ rxpc = "locked" /\ send = 1
    /\ send' = send + 1
    /\ ptr' = dack /\ dack' = skb /\ skb' = 0 /\ heard' = 0
    /\ rxpc' = "unlock"
    /\ UNCHANGED <<lock, armed, built, timerVars, fates>>

ReplaceLeak ==
    /\ rxpc = "locked" /\ send = 1
    /\ dack' = skb /\ skb' = 0 /\ heard' = 0
    /\ rxpc' = "unlock"
    /\ UNCHANGED <<lock, send, ptr, armed, built, timerVars, fates>>

\* send = 1: the new DACK takes the place of the waiting one, the timer runs on.
Replace ==
    /\ rxpc = "locked" /\ send = 1
    /\ ptr' = dack
    /\ dack' = skb
    /\ skb' = 0
    /\ heard' = 0
    /\ rxpc' = "unlock"
    /\ UNCHANGED <<lock, send, armed, built, timerVars, fates>>

\* Seeded fault: the timer is not armed.
ScheduleUnarmed ==
    /\ rxpc = "locked" /\ send = 0
    /\ dack' = skb /\ send' = 1 /\ skb' = 0 /\ heard' = 0
    /\ rxpc' = "unlock"
    /\ UNCHANGED <<lock, ptr, armed, built, timerVars, fates>>

\* send = 0: the new DACK is set and the timer armed.
Schedule ==
    /\ rxpc = "locked" /\ send = 0
    /\ dack' = skb
    /\ send' = 1
    /\ skb' = 0
    /\ heard' = 0
    /\ armed' = TRUE
    /\ rxpc' = "unlock"
    /\ UNCHANGED <<lock, ptr, built, timerVars, fates>>

RxUnlock ==
    /\ rxpc = "unlock"
    /\ lock' = "free"
    /\ rxpc' = "free"
    /\ UNCHANGED <<info, armed, skb, ptr, built, timerVars, fates>>

\* Seeded fault: the DACK that was replaced is sent, not freed.
FlushOld ==
    /\ rxpc = "free"
    /\ xmits' = IF ptr = 0 THEN xmits ELSE [xmits EXCEPT ![ptr] = xmits[ptr] + 1]
    /\ ptr' = 0
    /\ rxpc' = "idle"
    /\ UNCHANGED <<lock, info, armed, skb, built, timerVars, frees>>

\* kfree_skb of the DACK that was replaced; kfree_skb(NULL) does nothing.
FreeOld ==
    /\ rxpc = "free"
    /\ frees' = IF ptr = 0 THEN frees ELSE [frees EXCEPT ![ptr] = frees[ptr] + 1]
    /\ ptr' = 0
    /\ rxpc' = "idle"
    /\ UNCHANGED <<lock, info, armed, skb, built, timerVars, xmits>>

-----------------------------------------------------------------------------
(* The timer softirq: __sendDACK *)

Expire ==
    /\ armed /\ tmpc = "idle"
    /\ armed' = FALSE
    /\ tmpc' = "try"
    /\ UNCHANGED <<lock, info, rxLocals, tmskb, fates>>

TimerLock ==
    /\ tmpc = "try" /\ lock = "free"
    /\ lock' = "timer"
    /\ tmpc' = "locked"
    /\ UNCHANGED <<info, armed, rxLocals, tmskb, fates>>

\* Seeded fault: the handler gives up for good.
TimerBusyDrop ==
    /\ tmpc = "try" /\ lock # "free"
    /\ tmpc' = "idle"
    /\ UNCHANGED <<lock, info, armed, rxLocals, tmskb, fates>>

\* spin_trylock failed: try again 100 ms later.
TimerBusy ==
    /\ tmpc = "try" /\ lock # "free"
    /\ armed' = TRUE
    /\ tmpc' = "idle"
    /\ UNCHANGED <<lock, info, rxLocals, tmskb, fates>>

\* send = 1: take the DACK out of dac_info and unlock.
Take ==
    /\ tmpc = "locked" /\ send = 1
    /\ send' = 0
    /\ tmskb' = dack
    /\ dack' = 0
    /\ lock' = "free"
    /\ tmpc' = "xmit"
    /\ UNCHANGED <<armed, rxLocals, fates, heard>>

NothingToSend ==
    /\ tmpc = "locked" /\ send = 0
    /\ lock' = "free"
    /\ tmpc' = "idle"
    /\ UNCHANGED <<info, armed, rxLocals, tmskb, fates>>

\* vmac_send_hack, outside the lock; the driver frees the skb once it is sent.
Transmit ==
    /\ tmpc = "xmit"
    /\ xmits' = [xmits EXCEPT ![tmskb] = xmits[tmskb] + 1]
    /\ tmskb' = 0
    /\ tmpc' = "idle"
    /\ UNCHANGED <<lock, info, armed, rxLocals, frees>>

-----------------------------------------------------------------------------
(***************************************************************************)
(* vmac_rx with a DACK of the pending round from another consumer.  The    *)
(* handler looks the entry up, then sets vmacr to NULL: the branch that    *)
(* would count the DACK and take back the pending one is never entered.    *)
(* Only a DACK for which that branch would have got dacklok counts as      *)
(* heard.                                                                  *)
(***************************************************************************)
HearDack ==
    /\ rxpc = "idle" /\ lock = "free"
    /\ send = 1 /\ heard < 2
    /\ heard' = heard + 1
    /\ UNCHANGED <<lock, send, dack, armed, rxLocals, timerVars, fates>>

RxRun == RxLock \/ RxBusy \/ Replace \/ Schedule \/ RxUnlock \/ FreeOld
Timer == Expire \/ TimerLock \/ TimerBusy \/ Take \/ NothingToSend \/ Transmit

Next == Build \/ RxRun \/ Timer \/ HearDack

\* A softirq that has started runs on, and a pending timer expires.  Nothing says
\* that another frame arrives (Build, HearDack).
Fairness == WF_vars(Timer) /\ WF_vars(RxRun)

Spec == Init /\ [][Next]_vars /\ Fairness

-----------------------------------------------------------------------------
(***************************************************************************)
(* A DACK marked for sending is never left behind without a timer that     *)
(* will pick it up: the timer is pending, or its handler has started and   *)
(* has not yet looked at send.  prepDACK relies on it when it replaces a   *)
(* DACK without touching the timer, since later rounds will not arm it.    *)
(***************************************************************************)
DackNeverStranded ==
    send = 1 => armed \/ tmpc \in {"try", "locked"}

(***************************************************************************)
(* Every DACK built is disposed of exactly once: at any time it is in the  *)
(* hands of exactly one of prepDACK (skb, or ptr about to be freed),       *)
(* dac_info and __sendDACK, or it was sent or freed once, never both.      *)
(***************************************************************************)
Holders(n) == (IF skb = n THEN 1 ELSE 0) + (IF ptr = n THEN 1 ELSE 0)
              + (IF dack = n THEN 1 ELSE 0) + (IF tmskb = n THEN 1 ELSE 0)

SkbConserved ==
    \A n \in 1 .. built : Holders(n) + xmits[n] + frees[n] = 1

(***************************************************************************)
(* DACKs go out in the order of their rounds: none is sent after a newer   *)
(* one, whatever the two contexts interleave.                              *)
(***************************************************************************)
SentInOrder ==
    [][\A n \in Skbs : xmits'[n] # xmits[n] =>
          \A m \in Skbs : m > n => xmits[m] = 0]_vars

(***************************************************************************)
(* A pending DACK does not wait for ever: it is sent, or a newer one is in *)
(* its place and is sent.  In particular the last DACK of a burst, which   *)
(* no later frame would push out, leaves.                                  *)
(***************************************************************************)
PendingDackLeaves == send = 1 ~> send = 0

(***************************************************************************)
(* The suppression the pseudo code above vmac_rx describes: having heard   *)
(* two DACKs of its round from others, a consumer takes its own back.      *)
(***************************************************************************)
SuppressedWhenHeard == heard = 2 => send = 0
=============================================================================
