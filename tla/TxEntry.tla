------------------------------ MODULE TxEntry -------------------------------
(***************************************************************************)
(* The sender entry of an encoding, struct encoding_tx: who owns the       *)
(* copies in retransmission_buffer[].  vmac_tx stores a copy of each frame *)
(* and frees the one it replaces (tx.c), the DACK handler of vmac_rx       *)
(* copies them for retransmission (rx.c), and __cleanup_tx frees them and  *)
(* the entry 30 s after the last frame (clean.c).  The three run on        *)
(* different CPUs; seqlock covers seq and nothing else.                    *)
(*                                                                         *)
(* One application thread publishes on the encoding.  An access to freed   *)
(* memory or to a slot never written is a fault, and the model stops.      *)
(* Which frames a DACK asks for, and the pacing, are in Multicast.         *)
(***************************************************************************)
EXTENDS Naturals, FiniteSets

CONSTANTS
    WINDOW_TX,      \* length of retransmission_buffer[], 500 in vmac.h
    U16,            \* 2^16, the range of seq
    MAXSEND         \* bound: frames published in a behaviour

ASSUME TxEntryAssumption ==
    /\ WINDOW_TX \in Nat \ {0}
    /\ U16 \in Nat /\ U16 > WINDOW_TX
    /\ MAXSEND \in Nat

Slots == 0 .. WINDOW_TX - 1
Copies == 1 .. MAXSEND      \* the copies vmac_tx makes, one for each frame
Null == 0
Garbage == MAXSEND + 1      \* what vmalloc left in a slot
Pointers == Copies \cup {Null, Garbage}

VARIABLES
    entry,          \* the entry in the table tx_enc: 0, or which one since the start
    added,          \* entries added so far
    seq, slot,      \* vmact->seq and vmact->retransmission_buffer
    timeout,        \* enc_timeout of that entry: off, armed, or armed and due
    orphan,         \* an enc_timeout is armed in an entry that was freed
    cpc, ci,        \* process, called by __cleanup_tx: step and i
    copy,           \* copy[k]: memory of copy k
    sent,           \* frames published so far
    apc, avmact, aseq, tmp1, tmp2,      \* vmac_tx: step and locals
    dpc, dvmact, dseq, dle, dptr, dskb2,    \* DACK handler: step and locals
    fault,          \* "none", or what went wrong
    failed,         \* ghost: a skb_copy of vmac_tx has failed
    wrapped,        \* ghost: seq has started over at 0
    lost            \* ghost: copies stored in a slot after the cleanup had gone past it

entryVars == <<entry, added, seq, slot, failed, wrapped, lost>>
cleanVars == <<orphan, cpc, ci>>
appVars == <<apc, avmact, aseq, tmp1, tmp2, sent>>
dackVars == <<dpc, dvmact, dseq, dle, dptr, dskb2>>
vars == <<entryVars, timeout, cleanVars, copy, appVars, dackVars, fault>>

FlagsOK == orphan \in BOOLEAN /\ failed \in BOOLEAN /\ wrapped \in BOOLEAN

TypeOK ==
    /\ FlagsOK
    /\ entry \in 0 .. MAXSEND /\ added \in 0 .. MAXSEND
    /\ seq \in 0 .. U16 - 1 /\ slot \in [Slots -> Copies \cup {Garbage}]
    /\ timeout \in {"off", "armed", "due"}
    /\ cpc \in {"idle", "find", "loop", "free"} /\ ci \in 0 .. WINDOW_TX
    /\ lost \subseteq Copies
    /\ copy \in [Copies -> {"unused", "used", "freed"}]
    /\ sent \in 0 .. MAXSEND
    /\ apc \in {"idle", "arm", "number", "copy", "store", "free"}
    /\ avmact \in 0 .. MAXSEND /\ aseq \in 0 .. U16 - 1
    /\ tmp1 \in Copies \cup {Null} /\ tmp2 \in Pointers
    /\ dpc \in {"idle", "snapshot", "scan", "copy"}
    /\ dvmact \in 0 .. MAXSEND /\ dseq \in 0 .. U16 - 1 /\ dle \in 0 .. U16 - 1
    /\ dptr \in Pointers /\ dskb2 \in {"null", "sent"}
    /\ fault \in {"none", "entry", "copied freed", "freed twice", "sent twice"}

Init ==
    /\ entry = 0 /\ added = 0 /\ seq = 0 /\ slot = [i \in Slots |-> Garbage]
    /\ timeout = "off" /\ orphan = FALSE /\ cpc = "idle" /\ ci = 0
    /\ copy = [k \in Copies |-> "unused"] /\ sent = 0
    /\ apc = "idle" /\ avmact = 0 /\ aseq = 0 /\ tmp1 = Null /\ tmp2 = Null
    /\ dpc = "idle" /\ dvmact = 0 /\ dseq = 0 /\ dle = 0 /\ dptr = Null /\ dskb2 = "null"
    /\ fault = "none" /\ failed = FALSE /\ wrapped = FALSE /\ lost = {}

\* What an access through vmact comes to: vfree may have taken the entry meanwhile.
Touch(vmact) == IF vmact = entry THEN "none" ELSE "entry"

Usable(k) == k \in Copies /\ copy[k] = "used"

-----------------------------------------------------------------------------
(* vmac_tx with a data frame *)

\* find_tx, or a new entry: its slots are not initialised.
TxFind ==
    /\ apc = "idle"
    /\ sent < MAXSEND
    /\ sent' = sent + 1
    /\ apc' = "arm"
    /\ \/ /\ entry # 0
          /\ avmact' = entry
          /\ UNCHANGED <<entryVars, timeout>>
       \/ /\ entry = 0
          /\ added' = added + 1 /\ entry' = added + 1 /\ avmact' = added + 1
          /\ seq' = 0 /\ slot' = [i \in Slots |-> Garbage] /\ timeout' = "off"
          /\ UNCHANGED <<failed, wrapped, lost>>
    /\ UNCHANGED <<cleanVars, copy, aseq, tmp1, tmp2, dackVars, fault>>

\* mod_timer(&vmact->enc_timeout, jiffies + 30 s)
TxArm ==
    /\ apc = "arm"
    /\ fault' = Touch(avmact)
    /\ timeout' = IF avmact = entry THEN "armed" ELSE timeout
    /\ apc' = "number"
    /\ UNCHANGED <<entryVars, cleanVars, copy, avmact, aseq, tmp1, tmp2, sent, dackVars>>

\* Seeded fault: the counter is wider than a u16.
SuccessorWide(s) == s + 1

\* vmact->seq++ of a u16
Successor(s) == (s + 1) % U16

\* ddr.seq = vmact->seq++ under seqlock.
TxNumber ==
    /\ apc = "number"
    /\ fault' = Touch(avmact)
    /\ aseq' = seq
    /\ seq' = Successor(seq)
    /\ wrapped' = (wrapped \/ seq + 1 = U16)
    /\ apc' = "copy"
    /\ UNCHANGED <<entry, added, slot, failed, lost, timeout, cleanVars, copy, avmact, tmp1, tmp2,
                   sent, dackVars>>

\* Seeded fault: the first frame of the second turn is taken for one of the first.
ReplacesOff(s) == s > WINDOW_TX

\* The slot of frame s holds the copy of an earlier frame.
Replaces(s) == s >= WINDOW_TX

\* Seeded fault: the slot after the one that is overwritten.
VictimOff(s) == slot[(s + 1) % WINDOW_TX]

\* The copy that frame s replaces.
Victim(s) == slot[s % WINDOW_TX]

\* tmp1 = skb_copy(skb), NULL without memory; tmp2 is what the slot holds.
TxCopy ==
    /\ apc = "copy"
    /\ fault' = Touch(avmact)
    /\ \/ tmp1' = sent /\ copy' = [copy EXCEPT ![sent] = "used"] /\ UNCHANGED failed
       \/ tmp1' = Null /\ UNCHANGED copy /\ failed' = TRUE
    /\ tmp2' = IF Replaces(aseq) THEN Victim(aseq) ELSE Null
    /\ apc' = "store"
    /\ UNCHANGED <<entry, added, seq, slot, wrapped, lost, timeout, cleanVars, avmact, aseq, sent,
                   dackVars>>

\* The loop of process has been at slot i.
Passed(i) == cpc = "free" \/ (cpc = "loop" /\ i < ci)

TxStore ==
    LET i == aseq % WINDOW_TX IN
    /\ apc = "store"
    /\ fault' = Touch(avmact)
    /\ slot' = IF tmp1 # Null THEN [slot EXCEPT ![i] = tmp1] ELSE slot
    /\ lost' = IF tmp1 # Null /\ Passed(i) THEN lost \cup {tmp1} ELSE lost
    /\ apc' = "free"
    /\ UNCHANGED <<entry, added, seq, failed, wrapped, timeout, cleanVars, copy, avmact, aseq,
                   tmp1, tmp2, sent, dackVars>>

\* kfree_skb(tmp2), with or without a new copy in its place; the locals are gone.
TxFree ==
    /\ apc = "free"
    /\ \/ tmp2 \in {Null, Garbage} /\ UNCHANGED <<copy, fault>>   \* if (tmp2)
       \/ /\ tmp2 # Null
          /\ fault' = IF Usable(tmp2) THEN "none" ELSE "freed twice"
          /\ copy' = [k \in Copies |-> IF k = tmp2 THEN "freed" ELSE copy[k]]
    /\ apc' = "idle" /\ avmact' = 0 /\ aseq' = 0 /\ tmp1' = Null /\ tmp2' = Null
    /\ UNCHANGED <<entryVars, timeout, cleanVars, sent, dackVars>>

-----------------------------------------------------------------------------
(* vmac_rx with a DACK *)

DackFind ==
    /\ dpc = "idle"
    /\ entry # 0
    /\ dvmact' = entry
    /\ dpc' = "snapshot"
    /\ UNCHANGED <<entryVars, timeout, cleanVars, copy, appVars, dseq, dle, dptr, dskb2, fault>>

DackSnapshot ==
    /\ dpc = "snapshot"
    /\ fault' = Touch(dvmact)
    /\ dseq' = seq
    /\ dpc' = "scan"
    /\ UNCHANGED <<entryVars, timeout, cleanVars, copy, appVars, dvmact, dle, dptr, dskb2>>

\* le < seq && le >= (seq < WINDOW_TX ? 0 : seq - WINDOW_TX)
Buffered(l) == l < dseq /\ l + WINDOW_TX >= dseq

(***************************************************************************)
(* A consumer asks for a frame below one it received: the frame has been   *)
(* transmitted, and the slot written.  A DACK made for an earlier entry of *)
(* the encoding may name any frame.                                        *)
(***************************************************************************)
AskedFor(l) ==
    added > 1 \/ wrapped \/ l < (IF apc \in {"copy", "store"} THEN aseq ELSE seq)

(***************************************************************************)
(* The handler reads the slot.  The test before may fail for a slot never  *)
(* written, and for le = WINDOW_TX, where it uses another index            *)
(* (le > WINDOW_TX): skb2 is then what it was, NULL or a frame that        *)
(* vmac_send_hack has consumed before.                                     *)
(***************************************************************************)
DackLoad(l) ==
    /\ dpc = "scan"
    /\ Buffered(l) /\ AskedFor(l)
    /\ \/ /\ dpc' = "copy" /\ dle' = l /\ dptr' = slot[l % WINDOW_TX]
          /\ fault' = Touch(dvmact)
       \/ /\ l = WINDOW_TX \/ slot[l % WINDOW_TX] = Garbage
          /\ fault' = (IF dskb2 = "sent" THEN "sent twice" ELSE Touch(dvmact))
          /\ UNCHANGED <<dpc, dle, dptr>>
    /\ UNCHANGED <<entryVars, timeout, cleanVars, copy, appVars, dvmact, dseq, dskb2>>

\* skb_copy reads the frame; the copy, if there is memory for it, is sent.
DackCopy ==
    /\ dpc = "copy"
    /\ fault' = IF Usable(dptr) THEN Touch(dvmact) ELSE "copied freed"
    /\ dskb2' \in {"null", "sent"}
    /\ dpc' = "scan" /\ dle' = 0 /\ dptr' = Null
    /\ UNCHANGED <<entryVars, timeout, cleanVars, copy, appVars, dvmact, dseq>>

DackDone ==
    /\ dpc = "scan"
    /\ dpc' = "idle" /\ dvmact' = 0 /\ dseq' = 0 /\ dskb2' = "null"
    /\ UNCHANGED <<entryVars, timeout, cleanVars, copy, appVars, dle, dptr, fault>>

-----------------------------------------------------------------------------
(* enc_timeout *)

\* 30 s after it was armed: the vmac_tx that armed it is over.
Due ==
    /\ timeout = "armed"
    /\ apc \in {"idle", "arm"}
    /\ timeout' = "due"
    /\ UNCHANGED <<entryVars, cleanVars, copy, appVars, dackVars, fault>>

\* __cleanup_tx starts; a timer whose callback runs on one CPU is not started on another.
Expires ==
    /\ timeout = "due"
    /\ cpc = "idle"
    /\ timeout' = "off"
    /\ cpc' = "find"
    /\ UNCHANGED <<entryVars, orphan, ci, copy, appVars, dackVars, fault>>

\* __cleanup_tx of an entry that was freed.
OrphanExpires ==
    /\ orphan
    /\ orphan' = FALSE
    /\ fault' = "entry"
    /\ UNCHANGED <<entryVars, timeout, cpc, ci, copy, appVars, dackVars>>

\* process: find_tx, a sanity check.
CleanFind ==
    /\ cpc = "find"
    /\ cpc' = IF entry = 0 THEN "idle" ELSE "loop"
    /\ UNCHANGED <<entryVars, timeout, orphan, ci, copy, appVars, dackVars, fault>>

\* Seeded fault: the last slot is left out.
FilledOff(n) == IF n < WINDOW_TX THEN n ELSE WINDOW_TX - 1

\* The slots the loop of process goes through; it reads seq again for each.
Filled(n) == IF n < WINDOW_TX THEN n ELSE WINDOW_TX

\* kfree_skb of one slot, if it is not NULL; a slot never written may be.
CleanSlot ==
    LET p == slot[ci] IN
    /\ cpc = "loop"
    /\ ci < Filled(seq)
    /\ ci' = ci + 1
    /\ \/ p = Garbage /\ UNCHANGED <<copy, fault>>
       \/ /\ fault' = IF Usable(p) THEN "none" ELSE "freed twice"
          /\ copy' = [k \in Copies |-> IF k = p THEN "freed" ELSE copy[k]]
    /\ UNCHANGED <<entryVars, timeout, orphan, cpc, appVars, dackVars>>

\* The loop ends: vmac_tx may still number and store frames.
CleanEnd ==
    /\ cpc = "loop"
    /\ ci >= Filled(seq)
    /\ cpc' = "free"
    /\ UNCHANGED <<entryVars, timeout, orphan, ci, copy, appVars, dackVars, fault>>

(***************************************************************************)
(* hash_del and vfree.  The timer is not deleted.  The two are one step:   *)
(* whoever holds the entry can do nothing between them that it could not   *)
(* do before, and a new entry shares nothing with this one.                *)
(***************************************************************************)
CleanFree ==
    /\ cpc = "free"
    /\ cpc' = "idle" /\ ci' = 0
    /\ entry' = 0
    /\ orphan' = (orphan \/ timeout # "off")
    /\ timeout' = "off"
    /\ UNCHANGED <<added, seq, slot, failed, wrapped, lost, copy, appVars, dackVars, fault>>

-----------------------------------------------------------------------------
Next ==
    /\ fault = "none"
    /\ \/ TxFind \/ TxArm \/ TxNumber \/ TxCopy \/ TxStore \/ TxFree
       \/ DackFind \/ DackSnapshot \/ DackCopy \/ DackDone
       \/ \E l \in 0 .. U16 - 1 : DackLoad(l)
       \/ Due \/ Expires \/ OrphanExpires
       \/ CleanFind \/ CleanSlot \/ CleanEnd \/ CleanFree

Spec == Init /\ [][Next]_vars

-----------------------------------------------------------------------------
\* The entry vmac_tx works on is the one in the table, and nobody is emptying it.
Settled == cpc \in {"idle", "find"} /\ (apc = "idle" \/ avmact = entry)

\* Where copy k is held: slots, and vmac_tx before it stored tmp1 and before it freed tmp2.
Owners(k) ==
    {i \in Slots : slot[i] = k}
        \cup {p \in {"tmp1"} : apc = "store" /\ tmp1 = k}
        \cup {p \in {"tmp2"} : apc = "free" /\ tmp2 = k}

(***************************************************************************)
(* Every copy vmac_tx made has one owner: its slot, or the vmac_tx that is *)
(* about to store or to free it.  So none is freed twice and none is lost, *)
(* until a skb_copy fails (its slot keeps a freed pointer) or seq wraps    *)
(* (frames below WINDOW_TX do not free what they replace).  A copy stored  *)
(* in an earlier entry behind the back of its cleanup has no owner.        *)
(***************************************************************************)
CopyHasOneOwner ==
    (Settled /\ entry # 0 /\ ~failed /\ ~wrapped) =>
        \A k \in Copies :
            Cardinality(Owners(k)) = (IF copy[k] = "used" /\ k \notin lost THEN 1 ELSE 0)

(***************************************************************************)
(* __cleanup_tx frees every copy of the entry but one: that of a frame     *)
(* which a vmac_tx, having found the entry in time, stored in a slot the   *)
(* loop had gone past, without a lock to keep it out before vfree.  While  *)
(* the loop runs, the slots below the smaller of seq and WINDOW_TX are all *)
(* there are, also when seq moves under it.                                *)
(***************************************************************************)
NothingLeftBehind ==
    (entry = 0 /\ apc \in {"idle", "arm"} /\ ~failed /\ ~wrapped) =>
        \A k \in Copies : copy[k] = "used" => k \in lost

(***************************************************************************)
(* The DACK handler holds no lock while it copies a frame.  The frame is   *)
(* still there when it does, unless vmac_tx has numbered the frame one     *)
(* turn later, which replaces it, or the entry expired meanwhile.  This is *)
(* of the first entry only: a later one may get DACKs made for the one     *)
(* before it, which name frames that are not stored yet.                   *)
(***************************************************************************)
CopyIntact ==
    (/\ dpc = "copy" /\ dvmact = entry /\ Settled
     /\ ~failed /\ ~wrapped /\ added = 1) =>
        Usable(dptr) \/ seq > dle + WINDOW_TX

(***************************************************************************)
(* The pseudo code above vmac_rx and above vmac_tx: the entry is locked    *)
(* while a frame is copied out of, or into, the retransmission buffer.     *)
(***************************************************************************)
CopyUnderLock ==
    (/\ dpc = "copy" /\ dvmact = entry /\ Settled
     /\ ~failed /\ ~wrapped /\ added = 1) => Usable(dptr)
=============================================================================
