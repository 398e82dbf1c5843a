------------------------------ MODULE RxEntry -------------------------------
(***************************************************************************)
(* The table of receiver entries, struct encoding_rx in the hash table     *)
(* rx_enc: vmac_tx adds an entry for an interest (tx.c), vmac_rx and       *)
(* prepDACK look it up for every data frame (rx.c, dack.c), and the timer  *)
(* enc_timeout removes it 30 s after its last use (clean.c).               *)
(*                                                                         *)
(* nl_recv calls vmac_tx in the context of the sending process, vmac_rx    *)
(* runs in the receive tasklet and the timers in softirqs, each on a CPU   *)
(* of its own, and the table has no lock.  An access to memory that was    *)
(* freed, or to a timer that was not set up, is a fault: the model stops   *)
(* there, since nothing can be said of what follows.                       *)
(***************************************************************************)
EXTENDS Naturals, Sequences, FiniteSets

CONSTANTS
    Encodings,      \* 64-bit encodings of data names
    Buckets,        \* of the hash table rx_enc
    BucketOf,       \* the bucket of each encoding
    Apps,           \* threads of applications in nl_recv
    MAXALLOC,       \* bound: entries allocated in a behaviour
    MAXINTEREST,    \* bound: interests sent by the applications
    MAXDATA         \* bound: data frames received

ASSUME RxEntryAssumption ==
    /\ Encodings # {} /\ BucketOf \in [Encodings -> Buckets]
    /\ MAXALLOC \in Nat /\ MAXINTEREST \in Nat /\ MAXDATA \in Nat

Entries == 1 .. MAXALLOC
Null == 0

\* What key and the locals enc hold while they mean nothing.
AnyEnc == CHOOSE x \in Encodings : TRUE

VARIABLES
    chain,          \* chain[b]: the entries of bucket b, the newest first
    mem,            \* mem[e]: memory of entry e
    key,            \* key[e]: encoding it was allocated for (also clean.enc)
    ready,          \* entries whose timers have been set up
    timeout,        \* timeout[e]: enc_timeout is off, armed, or armed and due
    dackPending,    \* entries with dack_timer pending
    apc, aenc, aptr,    \* vmac_tx of each application thread: step, enc, vmacr
    rpc, renc, rptr,    \* vmac_rx: step, enc, vmacr
    cpc, cptr,      \* __cleanup_rx of entry e: step, vmacr in process
    fault,          \* "none", or what went wrong
    interests, data,    \* interests sent and data frames received so far
    late,           \* ghost: entries re-armed after their __cleanup_rx had started
    raced           \* ghost: two interests for one bucket were both about to add

appVars == <<apc, aenc, aptr, interests>>
rxVars == <<rpc, renc, rptr, data>>
cleanVars == <<cpc, cptr>>
tableVars == <<chain, mem, key, ready>>
vars == <<tableVars, timeout, dackPending, appVars, rxVars, cleanVars, fault, late, raced>>

FlagsOK == raced \in BOOLEAN

TypeOK ==
    /\ FlagsOK
    /\ chain \in [Buckets -> Seq(Entries)]
    /\ mem \in [Entries -> {"unused", "used", "freed"}]
    /\ key \in [Entries -> Encodings]
    /\ ready \subseteq Entries /\ dackPending \subseteq Entries
    /\ timeout \in [Entries -> {"off", "armed", "due"}]
    /\ apc \in [Apps -> {"idle", "add", "setup", "arm"}]
    /\ aenc \in [Apps -> Encodings] /\ aptr \in [Apps -> Entries \cup {Null}]
    /\ rpc \in {"idle", "arm", "window", "dack"}
    /\ renc \in Encodings /\ rptr \in Entries \cup {Null}
    /\ cpc \in [Entries -> {"idle", "find", "free"}]
    /\ cptr \in [Entries -> Entries \cup {Null}]
    /\ fault \in {"none", "freed", "unset", "null"}
    /\ interests \in 0 .. MAXINTEREST /\ data \in 0 .. MAXDATA
    /\ late \subseteq Entries

Init ==
    /\ chain = [b \in Buckets |-> << >>]
    /\ mem = [e \in Entries |-> "unused"]
    /\ key = [e \in Entries |-> AnyEnc]
    /\ ready = {} /\ dackPending = {} /\ timeout = [e \in Entries |-> "off"]
    /\ apc = [a \in Apps |-> "idle"]
    /\ aenc = [a \in Apps |-> AnyEnc]
    /\ aptr = [a \in Apps |-> Null]
    /\ rpc = "idle" /\ renc = AnyEnc /\ rptr = Null
    /\ cpc = [e \in Entries |-> "idle"] /\ cptr = [e \in Entries |-> Null]
    /\ fault = "none" /\ interests = 0 /\ data = 0
    /\ late = {} /\ raced = FALSE

\* Seeded fault: only the newest entry of the bucket is compared.
FindNewest(x) ==
    LET c == chain[BucketOf[x]] IN
    IF c = << >> THEN Null ELSE IF key[c[1]] = x THEN c[1] ELSE Null

\* Seeded fault: ret is not initialised.
FindUninitialised(x) ==
    LET c == chain[BucketOf[x]] IN IF c = << >> THEN MAXALLOC + 1 ELSE c[Len(c)]

\* hash_for_each_possible keeps the last entry of the bucket, whatever its key.
find_rx(x) ==
    LET c == chain[BucketOf[x]] IN IF c = << >> THEN Null ELSE c[Len(c)]

\* What an access to entry e, or to its timers, comes to.
Touch(e) == IF mem[e] = "freed" THEN "freed" ELSE "none"
TouchTimer(e) == IF mem[e] = "freed" THEN "freed" ELSE IF e \in ready THEN "none" ELSE "unset"

\* The callback of e has started, or is over and has freed e.
Expiring(e) == cpc[e] # "idle" \/ mem[e] = "freed"

\* Seeded fault: the timeout is not moved if it is running already.
RearmOnce(e) ==
    /\ fault' = TouchTimer(e)
    /\ timeout' = [timeout EXCEPT ![e] = IF @ = "off" THEN "armed" ELSE @]
    /\ late' = IF Expiring(e) THEN late \cup {e} ELSE late

\* mod_timer(&vmacr->enc_timeout, jiffies + 30 s), which does not wait for a running callback.
Rearm(e) ==
    /\ fault' = TouchTimer(e)
    /\ timeout' = [timeout EXCEPT ![e] = "armed"]
    /\ late' = IF Expiring(e) THEN late \cup {e} ELSE late

-----------------------------------------------------------------------------
(* vmac_tx with an interest, in application thread a *)

InterestFind(a, x) ==
    /\ apc[a] = "idle"
    /\ interests < MAXINTEREST
    /\ interests' = interests + 1
    /\ aenc' = [aenc EXCEPT ![a] = x]
    /\ aptr' = [aptr EXCEPT ![a] = find_rx(x)]
    /\ apc' = [apc EXCEPT ![a] = IF find_rx(x) = Null THEN "add" ELSE "arm"]
    /\ raced' = \/ raced
                \/ /\ find_rx(x) = Null
                   /\ \E b \in Apps : apc[b] = "add" /\ BucketOf[aenc[b]] = BucketOf[x]
    /\ UNCHANGED <<tableVars, timeout, dackPending, rxVars, cleanVars, fault, late>>

(***************************************************************************)
(* vmalloc, the assignments to the new entry, and add_rx: the entry is in  *)
(* the table before its timers are set up.  hash_add puts it in front.     *)
(***************************************************************************)
InterestAdd(a) ==
    /\ apc[a] = "add"
    /\ \E e \in Entries :
          /\ mem[e] = "unused"
          /\ \A d \in Entries : mem[d] = "unused" => e <= d
          /\ mem' = [mem EXCEPT ![e] = "used"]
          /\ key' = [key EXCEPT ![e] = aenc[a]]
          /\ chain' = [chain EXCEPT ![BucketOf[aenc[a]]] = <<e>> \o @]
          /\ aptr' = [aptr EXCEPT ![a] = e]
    /\ apc' = [apc EXCEPT ![a] = "setup"]
    /\ UNCHANGED <<ready, timeout, dackPending, aenc, interests, rxVars, cleanVars, fault,
                   late, raced>>

\* timer_setup of both timers, mod_timer of dack_timer and of enc_timeout.
InterestSetup(a) ==
    LET e == aptr[a] IN
    /\ apc[a] = "setup"
    /\ ready' = ready \cup {e}
    /\ dackPending' = dackPending \cup {e}
    /\ timeout' = [timeout EXCEPT ![e] = "armed"]
    /\ fault' = Touch(e)
    /\ apc' = [apc EXCEPT ![a] = "idle"]
    /\ aptr' = [aptr EXCEPT ![a] = Null]
    /\ aenc' = [aenc EXCEPT ![a] = AnyEnc]
    /\ UNCHANGED <<chain, mem, key, interests, rxVars, cleanVars, late, raced>>

\* An entry that was there: only its timeout is moved.
InterestArm(a) ==
    /\ apc[a] = "arm"
    /\ Rearm(aptr[a])
    /\ apc' = [apc EXCEPT ![a] = "idle"]
    /\ aptr' = [aptr EXCEPT ![a] = Null]
    /\ aenc' = [aenc EXCEPT ![a] = AnyEnc]
    /\ UNCHANGED <<tableVars, dackPending, interests, rxVars, cleanVars, raced>>

-----------------------------------------------------------------------------
(* vmac_rx with a data frame *)

\* A frame without an entry is dropped.
RxFind(x) ==
    /\ rpc = "idle"
    /\ data < MAXDATA
    /\ data' = data + 1
    /\ \/ find_rx(x) = Null /\ UNCHANGED <<rpc, renc, rptr>>
       \/ find_rx(x) # Null /\ rpc' = "arm" /\ renc' = x /\ rptr' = find_rx(x)
    /\ UNCHANGED <<tableVars, timeout, dackPending, appVars, cleanVars, fault, late, raced>>

RxArm ==
    /\ rpc = "arm"
    /\ Rearm(rptr)
    /\ rpc' = "window"
    /\ UNCHANGED <<tableVars, dackPending, appVars, renc, rptr, data, cleanVars, raced>>

\* window[], latest, alpha and round of the entry; prepDACK follows if the round is over.
RxUse ==
    /\ rpc = "window"
    /\ fault' = Touch(rptr)
    /\ \/ rpc' = "dack" /\ UNCHANGED <<renc, rptr>>
       \/ rpc' = "idle" /\ renc' = AnyEnc /\ rptr' = Null
    /\ UNCHANGED <<tableVars, timeout, dackPending, appVars, data, cleanVars, late, raced>>

(***************************************************************************)
(* prepDACK looks the entry up again and does not test for NULL; it arms   *)
(* dack_timer unless a DACK is waiting already or there is no memory.      *)
(* Afterwards vmac_rx stores the round in the entry it found first.        *)
(***************************************************************************)
RxDack ==
    LET e == find_rx(renc) IN
    /\ rpc = "dack"
    /\ IF e = Null THEN fault' = "null" /\ UNCHANGED dackPending
       ELSE /\ fault' = (IF Touch(e) # "none" THEN Touch(e) ELSE Touch(rptr))
            /\ dackPending' \in {dackPending \cup {e}, dackPending}
    /\ rpc' = "idle" /\ renc' = AnyEnc /\ rptr' = Null
    /\ UNCHANGED <<tableVars, timeout, appVars, data, cleanVars, late, raced>>

-----------------------------------------------------------------------------
(* Timers *)

(***************************************************************************)
(* Time passes until enc_timeout is due.  It was armed 30 s ahead: the     *)
(* handler that armed it is over by then, and so is dack_timer, which is   *)
(* armed at most 100 jiffies ahead.                                        *)
(***************************************************************************)
Due(e) ==
    /\ timeout[e] = "armed"
    /\ e \notin dackPending
    /\ rpc \in {"idle", "arm"}
    /\ timeout' = [timeout EXCEPT ![e] = "due"]
    /\ UNCHANGED <<tableVars, dackPending, appVars, rxVars, cleanVars, fault, late, raced>>

\* __cleanup_rx starts.
Expires(e) ==
    /\ timeout[e] = "due"
    /\ cpc[e] = "idle"
    /\ timeout' = [timeout EXCEPT ![e] = "off"]
    /\ fault' = Touch(e)
    /\ cpc' = [cpc EXCEPT ![e] = "find"]
    /\ UNCHANGED <<tableVars, dackPending, appVars, rxVars, cptr, late, raced>>

\* process: the entry is looked up again, by the encoding in clean.
CleanFind(e) ==
    LET f == find_rx(key[e]) IN
    /\ cpc[e] = "find"
    /\ fault' = Touch(e)
    /\ cptr' = [cptr EXCEPT ![e] = f]
    /\ cpc' = [cpc EXCEPT ![e] = IF f = Null THEN "idle" ELSE "free"]
    /\ UNCHANGED <<tableVars, timeout, dackPending, appVars, rxVars, late, raced>>

\* Seeded fault: the entry is freed but stays in the table.
NoHashDel(f) == chain

\* Chain c without its entry k.
Unlinked(c, k) == [i \in 1 .. Len(c) - 1 |-> IF i < k THEN c[i] ELSE c[i + 1]]

\* The entry before f, if f is in a chain, is now followed by the one after f.
hash_del(f) ==
    [b \in Buckets |->
        IF \E k \in DOMAIN chain[b] : chain[b][k] = f
        THEN Unlinked(chain[b], CHOOSE k \in DOMAIN chain[b] : chain[b][k] = f)
        ELSE chain[b]]

\* hash_del and vfree of what was found; dack_timer is not deleted.
CleanFree(e) ==
    LET f == cptr[e] IN
    /\ cpc[e] = "free"
    /\ fault' = Touch(f)
    /\ chain' = hash_del(f)
    /\ mem' = [mem EXCEPT ![f] = "freed"]
    /\ cpc' = [cpc EXCEPT ![e] = "idle"]
    /\ cptr' = [cptr EXCEPT ![e] = Null]
    /\ UNCHANGED <<key, ready, timeout, dackPending, appVars, rxVars, late, raced>>

\* __sendDACK.  When dacklok is busy it arms itself again: the timer stays pending a while.
DackExpires(e) ==
    /\ e \in dackPending
    /\ fault' = Touch(e)
    /\ dackPending' = dackPending \ {e}
    /\ UNCHANGED <<tableVars, timeout, appVars, rxVars, cleanVars, late, raced>>

-----------------------------------------------------------------------------
Interest(a) == InterestAdd(a) \/ InterestSetup(a) \/ InterestArm(a)
Data == RxArm \/ RxUse \/ RxDack
Timers(e) == Due(e) \/ Expires(e) \/ CleanFind(e) \/ CleanFree(e) \/ DackExpires(e)

Next ==
    /\ fault = "none"
    /\ \/ \E a \in Apps : Interest(a) \/ \E x \in Encodings : InterestFind(a, x)
       \/ Data \/ \E x \in Encodings : RxFind(x)
       \/ \E e \in Entries : Timers(e)

(***************************************************************************)
(* Threads and tasklets are scheduled and timers expire.  Interests and    *)
(* data frames come from outside and may stop coming.                      *)
(***************************************************************************)
Fairness ==
    /\ \A a \in Apps : WF_vars(fault = "none" /\ Interest(a))
    /\ WF_vars(fault = "none" /\ Data)
    /\ \A e \in Entries : WF_vars(fault = "none" /\ Timers(e))

Spec == Init /\ [][Next]_vars /\ Fairness

-----------------------------------------------------------------------------
(***************************************************************************)
(* An encoding has one entry, whatever is added, expires or shares its     *)
(* bucket in between: not so once two threads have both found none and add *)
(* one each, which vmac_tx does not prevent.                               *)
(***************************************************************************)
OneEntryPerEncoding ==
    ~raced => \A b \in Buckets : \A i, j \in DOMAIN chain[b] :
                 key[chain[b][i]] = key[chain[b][j]] => i = j

(***************************************************************************)
(* process, called for the entry whose timeout expired, looks the encoding *)
(* up again and frees what find_rx returns: it is the expired entry, and   *)
(* it is still there, though find_rx compares no keys and other encodings  *)
(* share the bucket.                                                       *)
(***************************************************************************)
CleanupFreesOwn ==
    (~raced /\ fault = "none") => \A e \in Entries :
        /\ cpc[e] = "find" => find_rx(key[e]) = e
        /\ cpc[e] = "free" => cptr[e] = e /\ mem[e] = "used"

(***************************************************************************)
(* Once vmac_rx has moved the timeout of the entry it found, the entry     *)
(* lasts until it is done, and prepDACK, which looks again without testing *)
(* for NULL, finds the same one; and no timer is pending in memory that    *)
(* was freed.  The exceptions: a timeout moved when __cleanup_rx had begun *)
(* (mod_timer does not stop it), and two entries in a bucket.              *)
(***************************************************************************)
RearmedEntryLasts ==
    ~raced =>
        /\ (rpc \in {"window", "dack"} /\ rptr \notin late)
              => mem[rptr] = "used" /\ find_rx(renc) = rptr
        /\ \A e \in Entries \ late : (timeout[e] # "off" \/ e \in dackPending) => mem[e] = "used"

(***************************************************************************)
(* When interests and data stop, every entry is removed in the end: none   *)
(* is left in the table without a timeout, whatever the frames, interests  *)
(* and timeouts did to each other before.                                  *)
(***************************************************************************)
EntriesExpire ==
    <>[](fault # "none" \/ raced \/ \A b \in Buckets : chain[b] = << >>)
=============================================================================
