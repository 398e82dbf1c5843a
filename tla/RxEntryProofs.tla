---------------------------- MODULE RxEntryProofs ---------------------------
(***************************************************************************)
(* Proofs of the safety properties of RxEntry, for any number of           *)
(* encodings, buckets, application threads, entries and frames.            *)
(***************************************************************************)
EXTENDS RxEntry, TLAPS

USE RxEntryAssumption

\* The bucket of entry e.
BucketFor(e) == BucketOf[key[e]]

\* vmac_rx is between moving a timeout and its last use of the entry.
InUse == rpc \in {"window", "dack"}

\* What the threads hold while they work.
LocalInv ==
    /\ \A a \in Apps : apc[a] \in {"setup", "arm"} => aptr[a] \in Entries
    /\ rpc # "idle" => rptr \in Entries
    /\ \A e \in Entries : cpc[e] = "free" => cptr[e] \in Entries

\* A bucket has one entry at most, the only one in use there, and none while one is added.
ChainInv ==
    /\ \A b \in Buckets : Len(chain[b]) <= 1
    /\ \A b \in Buckets : Len(chain[b]) = 1 =>
          mem[chain[b][1]] = "used" /\ BucketFor(chain[b][1]) = b
    /\ \A e \in Entries : mem[e] = "used" =>
          Len(chain[BucketFor(e)]) = 1 /\ chain[BucketFor(e)][1] = e
    /\ \A a \in Apps : apc[a] = "add" => Len(chain[BucketOf[aenc[a]]]) = 0
    /\ \A a, d \in Apps : (apc[a] = "add" /\ apc[d] = "add"
                              /\ BucketOf[aenc[a]] = BucketOf[aenc[d]]) => a = d

\* Nobody knows an entry that is not allocated yet.
FreshInv ==
    \A e \in Entries : mem[e] = "unused" =>
        /\ timeout[e] = "off" /\ e \notin dackPending /\ e \notin ready /\ cpc[e] = "idle"
        /\ \A a \in Apps : apc[a] \in {"setup", "arm"} => aptr[a] # e
        /\ rpc # "idle" => rptr # e

\* Until its timers are set up an entry cannot expire, and one thread sets them up.
SetupInv ==
    /\ \A a, d \in Apps : (apc[a] = "setup" /\ apc[d] = "setup" /\ aptr[a] = aptr[d]) => a = d
    /\ fault = "none" => \A a \in Apps : apc[a] = "setup" =>
          /\ mem[aptr[a]] = "used" /\ timeout[aptr[a]] = "off" /\ cpc[aptr[a]] = "idle"
          /\ aptr[a] \notin ready

\* A timer runs only in an entry in use, and none while the entry is removed.
TimerInv ==
    \A e \in Entries \ late :
        /\ timeout[e] # "off" \/ e \in dackPending => mem[e] = "used"
        /\ timeout[e] = "due" => e \notin dackPending
        /\ cpc[e] # "idle" => timeout[e] = "off" /\ e \notin dackPending

\* __cleanup_rx works on an entry in use, its own.
CleanInv ==
    fault = "none" => \A e \in Entries :
        /\ cpc[e] # "idle" => mem[e] = "used"
        /\ cpc[e] = "free" => cptr[e] = e

\* The entry that vmac_rx uses, or one added in its place, does not expire meanwhile.
UseInv ==
    /\ rpc # "idle" => BucketFor(rptr) = BucketOf[renc]
    /\ (InUse /\ rptr \notin late) =>
          mem[rptr] = "used" /\ cpc[rptr] = "idle" /\ timeout[rptr] # "due"
    /\ (InUse /\ fault = "none") => \A e \in Entries \ late :
          (mem[e] = "used" /\ BucketFor(e) = BucketOf[renc])
              => cpc[e] = "idle" /\ timeout[e] # "due"

IndInv ==
    /\ TypeOK /\ LocalInv
    /\ ~raced => ChainInv /\ FreshInv /\ SetupInv /\ TimerInv /\ CleanInv /\ UseInv

-----------------------------------------------------------------------------
(* The operators of the specification *)

\* Numbers of entries.
LEMMA EntryFacts == /\ Entries \subseteq Nat /\ Null \notin Entries /\ AnyEnc \in Encodings
                    /\ \A x \in Encodings : BucketOf[x] \in Buckets
  BY DEF Entries, Null, AnyEnc

\* Chains of one entry at most.
LEMMA OneFacts == /\ \A n \in Nat : n <= 1 => n = 0 \/ n = 1
                  /\ \A k, n \in Nat : 1 <= k /\ k <= n /\ n <= 1 => k = 1 /\ n = 1
                  /\ \A n : n = 1 => n <= 1
  OBVIOUS

\* find_rx returns NULL for an empty bucket, and its entry if the bucket has one.
LEMMA FindFacts ==
    ASSUME TypeOK, NEW x \in Encodings
    PROVE  /\ find_rx(x) \in Entries \cup {Null}
           /\ find_rx(x) = Null <=> Len(chain[BucketOf[x]]) = 0
           /\ Len(chain[BucketOf[x]]) = 1 => find_rx(x) = chain[BucketOf[x]][1]
           /\ Len(chain[BucketOf[x]]) \in Nat
<1> DEFINE c == chain[BucketOf[x]]
<1>1. c \in Seq(Entries)
  BY EntryFacts DEF TypeOK
<1>2. find_rx(x) = IF c = <<>> THEN Null ELSE c[Len(c)]
  BY DEF find_rx
<1> HIDE DEF c
<1>3. Len(c) \in Nat /\ (c = <<>> <=> Len(c) = 0) /\ (c # <<>> => c[Len(c)] \in Entries)
  BY <1>1
<1>4. /\ find_rx(x) \in Entries \cup {Null}
      /\ find_rx(x) = Null <=> Len(c) = 0
      /\ Len(c) = 1 => find_rx(x) = c[1]
  BY <1>2, <1>3, EntryFacts
<1> QED
  BY <1>3, <1>4 DEF c

\* In a table with one entry to a bucket, find_rx returns an entry in use, ...
LEMMA FoundFacts ==
    ASSUME TypeOK, ChainInv, NEW x \in Encodings, find_rx(x) # Null
    PROVE  /\ find_rx(x) \in Entries /\ mem[find_rx(x)] = "used"
           /\ BucketFor(find_rx(x)) = BucketOf[x]
<1>1. BucketOf[x] \in Buckets /\ find_rx(x) \in Entries
  BY FindFacts, EntryFacts
<1>2. Len(chain[BucketOf[x]]) \in Nat /\ Len(chain[BucketOf[x]]) # 0
  BY FindFacts
<1>3. Len(chain[BucketOf[x]]) <= 1
  BY <1>1 DEF ChainInv
<1>4. Len(chain[BucketOf[x]]) = 1
  BY ONLY <1>2, <1>3, OneFacts, Zenon
<1>5. find_rx(x) = chain[BucketOf[x]][1]
  BY <1>4, FindFacts
<1> QED
  BY <1>1, <1>4, <1>5 DEF ChainInv

\* ... and the one in use in the bucket.
LEMMA OwnFound ==
    ASSUME TypeOK, ChainInv, NEW e \in Entries, mem[e] = "used",
           NEW x \in Encodings, BucketOf[x] = BucketFor(e)
    PROVE  find_rx(x) = e
  BY FindFacts, EntryFacts DEF ChainInv

\* Counters below their bounds.
LEMMA NumFacts == /\ \A n \in 0 .. MAXINTEREST : n < MAXINTEREST => n + 1 \in 0 .. MAXINTEREST
                  /\ \A n \in 0 .. MAXDATA : n < MAXDATA => n + 1 \in 0 .. MAXDATA
  OBVIOUS

\* A chain without one of its entries.
LEMMA UnlinkFacts ==
    ASSUME NEW S, NEW c \in Seq(S), NEW k \in 1 .. Len(c)
    PROVE  Unlinked(c, k) \in Seq(S) /\ Len(Unlinked(c, k)) = Len(c) - 1
<1>1. /\ Len(c) - 1 \in Nat
      /\ \A i \in 1 .. Len(c) - 1 : (IF i < k THEN c[i] ELSE c[i + 1]) \in S
  OBVIOUS
<1> QED
  BY <1>1 DEF Unlinked

\* hash_del of f empties the bucket whose only entry is f, and leaves the others alone.
LEMMA DelFacts ==
    ASSUME TypeOK, NEW f \in Entries
    PROVE  /\ hash_del(f) \in [Buckets -> Seq(Entries)]
           /\ \A b \in Buckets : Len(chain[b]) <= 1 =>
                  IF Len(chain[b]) = 1 /\ chain[b][1] = f
                  THEN Len(hash_del(f)[b]) = 0 ELSE hash_del(f)[b] = chain[b]
<1> DEFINE At(b) == CHOOSE k \in DOMAIN chain[b] : chain[b][k] = f
<1>1. ASSUME NEW b \in Buckets
      PROVE  /\ hash_del(f)[b] \in Seq(Entries)
             /\ Len(chain[b]) <= 1 =>
                  IF Len(chain[b]) = 1 /\ chain[b][1] = f
                  THEN Len(hash_del(f)[b]) = 0 ELSE hash_del(f)[b] = chain[b]
  <2>1. chain[b] \in Seq(Entries) /\ DOMAIN chain[b] = 1 .. Len(chain[b]) /\ Len(chain[b]) \in Nat
    BY DEF TypeOK
  <2>2. CASE \E k \in DOMAIN chain[b] : chain[b][k] = f
    <3>1. At(b) \in 1 .. Len(chain[b]) /\ chain[b][At(b)] = f
      BY <2>1, <2>2
    <3>2. hash_del(f)[b] = Unlinked(chain[b], At(b))
      BY <2>2 DEF hash_del
    <3> HIDE DEF At
    <3>3. hash_del(f)[b] \in Seq(Entries) /\ Len(hash_del(f)[b]) = Len(chain[b]) - 1
      BY <2>1, <3>1, <3>2, UnlinkFacts
    <3>4. ASSUME Len(chain[b]) <= 1 PROVE Len(chain[b]) = 1 /\ chain[b][1] = f
      <4>1. At(b) \in Nat /\ 1 <= At(b) /\ At(b) <= Len(chain[b]) /\ Len(chain[b]) \in Nat
        BY <2>1, <3>1
      <4>2. At(b) = 1 /\ Len(chain[b]) = 1
        BY ONLY <3>4, <4>1, OneFacts, Zenon
      <4> QED
        BY ONLY <3>1, <4>2
    <3> QED
      BY <2>1, <3>3, <3>4
  <2>3. CASE ~\E k \in DOMAIN chain[b] : chain[b][k] = f
    <3>1. hash_del(f)[b] = chain[b]
      BY <2>3 DEF hash_del
    <3>2. ~(Len(chain[b]) = 1 /\ chain[b][1] = f)
      BY <2>1, <2>3
    <3> QED
      BY <2>1, <3>1, <3>2
  <2> QED
    BY <2>2, <2>3
<1>2. hash_del(f) = [b \in Buckets |-> hash_del(f)[b]]
  BY DEF hash_del
<1> QED
  BY <1>1, <1>2

-----------------------------------------------------------------------------
(* Steps *)

\* An interest looks for its entry.
LEMMA InterestFindKeeps ==
    ASSUME IndInv, fault = "none", NEW a \in Apps, NEW x \in Encodings, InterestFind(a, x)
    PROVE  IndInv'
<1> USE EntryFacts DEF IndInv, TypeOK, BucketFor, InterestFind,
        tableVars, appVars, rxVars, cleanVars
<1>1. FlagsOK'
  BY Zenon DEF FlagsOK
<1>2. TypeOK'
  BY <1>1, FindFacts, NumFacts
<1>3. LocalInv'
  BY FindFacts DEF LocalInv
<1>4. ~raced' => ChainInv'
  BY FindFacts DEF ChainInv
<1>5. ~raced' => FreshInv'
  BY SMTT(60), FoundFacts DEF FreshInv
<1>6. ~raced' => SetupInv'
  BY FindFacts DEF SetupInv, FreshInv
<1>7. ~raced' => TimerInv'
  BY FindFacts DEF TimerInv, FreshInv, SetupInv
<1>8. ~raced' => CleanInv'
  BY FindFacts DEF CleanInv, FreshInv
<1>9. ~raced' => UseInv'
  BY FindFacts DEF UseInv, InUse, FreshInv
<1> QED
  BY <1>1, <1>2, <1>3, <1>4, <1>5, <1>6, <1>7, <1>8, <1>9

\* The entry is added.
LEMMA InterestAddKeeps ==
    ASSUME IndInv, fault = "none", NEW a \in Apps, InterestAdd(a) PROVE IndInv'
<1> USE EntryFacts DEF IndInv, TypeOK, BucketFor, rxVars, cleanVars
<1> DEFINE b == BucketOf[aenc[a]]
<1>1. PICK e \in Entries :
         /\ mem[e] = "unused" /\ mem' = [mem EXCEPT ![e] = "used"]
         /\ key' = [key EXCEPT ![e] = aenc[a]]
         /\ chain' = [chain EXCEPT ![b] = <<e>> \o @]
         /\ aptr' = [aptr EXCEPT ![a] = e]
  BY DEF InterestAdd
<1>2. /\ apc[a] = "add" /\ apc' = [apc EXCEPT ![a] = "setup"] /\ b \in Buckets
      /\ UNCHANGED <<ready, timeout, dackPending, aenc, interests, rxVars, cleanVars, fault,
                     late, raced>>
  BY DEF InterestAdd
<1>3. /\ chain' \in [Buckets -> Seq(Entries)]
      /\ \A c \in Buckets : c # b => chain'[c] = chain[c]
      /\ Len(chain[b]) = 0 => Len(chain'[b]) = 1 /\ chain'[b][1] = e
  <2>1. chain[b] \in Seq(Entries)
    BY <1>2
  <2>2. <<e>> \o chain[b] \in Seq(Entries) /\ Len(<<e>> \o chain[b]) = 1 + Len(chain[b])
    BY <2>1
  <2>3. Len(chain[b]) = 0 => (<<e>> \o chain[b])[1] = e
    BY <2>1
  <2> QED
    BY <1>1, <1>2, <2>2, <2>3
<1> HIDE DEF b
<1>4. /\ mem[e] = "unused" /\ mem' = [mem EXCEPT ![e] = "used"]
      /\ key' = [key EXCEPT ![e] = aenc[a]] /\ aptr' = [aptr EXCEPT ![a] = e]
  BY <1>1
<1> USE <1>2, <1>3, <1>4
<1>5. FlagsOK'
  BY Zenon DEF FlagsOK
<1>6. TypeOK' /\ LocalInv'
  BY <1>5 DEF LocalInv
<1>7. ~raced => ChainInv'
  <2> SUFFICES ASSUME ~raced PROVE ChainInv'
    OBVIOUS
  <2>1. /\ Len(chain[b]) = 0
        /\ \A d \in Apps : (d # a /\ apc[d] = "add") => BucketOf[aenc[d]] # b
    BY DEF ChainInv, b
  <2>2. /\ Len(chain'[b]) = 1 /\ chain'[b][1] = e /\ BucketOf[key'[e]] = b
        /\ \A c \in Entries : c # e => mem'[c] = mem[c] /\ key'[c] = key[c]
    BY <2>1 DEF b
  <2>3. \A c \in Entries : mem[c] = "used" => BucketOf[key[c]] # b /\ c # e
    BY <2>1 DEF ChainInv
  <2>4. \A c \in Buckets : c # b /\ Len(chain[c]) = 1 => chain[c][1] # e /\ chain[c][1] \in Entries
    BY DEF ChainInv
  <2>5. \A c \in Buckets : /\ Len(chain'[c]) <= 1
                           /\ Len(chain'[c]) = 1 => /\ mem'[chain'[c][1]] = "used"
                                                    /\ BucketOf[key'[chain'[c][1]]] = c
    <3> SUFFICES ASSUME NEW c \in Buckets
                 PROVE  /\ Len(chain'[c]) <= 1
                        /\ Len(chain'[c]) = 1 => /\ mem'[chain'[c][1]] = "used"
                                                 /\ BucketOf[key'[chain'[c][1]]] = c
      OBVIOUS
    <3>1. CASE c = b
      <4>1. mem'[e] = "used"
        OBVIOUS
      <4> QED
        BY ONLY <2>2, <3>1, <4>1, OneFacts
    <3>2. CASE c # b
      <4>1. /\ chain'[c] = chain[c] /\ Len(chain[c]) <= 1
            /\ Len(chain[c]) = 1 => mem[chain[c][1]] = "used" /\ BucketOf[key[chain[c][1]]] = c
        BY <3>2 DEF ChainInv
      <4>2. Len(chain[c]) = 1 => /\ mem'[chain[c][1]] = mem[chain[c][1]]
                                 /\ key'[chain[c][1]] = key[chain[c][1]]
        BY <2>2, <2>4, <3>2
      <4> QED
        BY ONLY <4>1, <4>2
    <3> QED
      BY <3>1, <3>2
  <2>6. \A c \in Entries : mem'[c] = "used" =>
            /\ Len(chain'[BucketOf[key'[c]]]) = 1 /\ chain'[BucketOf[key'[c]]][1] = c
    BY <2>2, <2>3 DEF ChainInv
  <2>7. /\ \A d \in Apps : apc'[d] = "add" => d # a /\ apc[d] = "add"
        /\ \A d \in Apps : apc'[d] = "add" => Len(chain'[BucketOf[aenc[d]]]) = 0
    BY SMTT(60), <2>1 DEF ChainInv
  <2> QED
    BY <2>5, <2>6, <2>7 DEF ChainInv
<1>8. ~raced => FreshInv'
  BY DEF FreshInv
<1>9. ~raced => SetupInv'
  BY SMTT(60) DEF SetupInv, FreshInv
<1>10. ~raced => TimerInv' /\ CleanInv'
  BY SMTT(60) DEF TimerInv, CleanInv, FreshInv
<1>11. ~raced => UseInv'
  BY SMTT(60) DEF UseInv, InUse, FreshInv
<1> QED
  BY <1>6, <1>7, <1>8, <1>9, <1>10, <1>11

\* Its timers are set up.
LEMMA InterestSetupKeeps ==
    ASSUME IndInv, fault = "none", NEW a \in Apps, InterestSetup(a) PROVE IndInv'
<1> USE EntryFacts DEF IndInv, TypeOK, BucketFor, InterestSetup, Touch,
        tableVars, appVars, rxVars, cleanVars
<1>1. FlagsOK'
  BY Zenon DEF FlagsOK
<1>2. TypeOK'
  BY <1>1 DEF LocalInv
<1>3. LocalInv'
  BY DEF LocalInv
<1>4. ~raced' => ChainInv'
  BY DEF ChainInv
<1>5. ~raced' => FreshInv'
  BY DEF FreshInv, ChainInv
<1>6. ~raced' => SetupInv'
  BY DEF SetupInv, FreshInv
<1>7. ~raced' => TimerInv'
  BY DEF TimerInv, FreshInv, SetupInv
<1>8. ~raced' => CleanInv'
  BY DEF CleanInv, FreshInv
<1>9. ~raced' => UseInv'
  BY DEF UseInv, InUse, FreshInv
<1> QED
  BY <1>1, <1>2, <1>3, <1>4, <1>5, <1>6, <1>7, <1>8, <1>9

\* An interest moves the timeout.
LEMMA InterestArmKeeps ==
    ASSUME IndInv, fault = "none", NEW a \in Apps, InterestArm(a) PROVE IndInv'
<1> USE EntryFacts DEF IndInv, TypeOK, BucketFor, InterestArm, Rearm, TouchTimer, Expiring,
        tableVars, appVars, rxVars, cleanVars
<1>1. FlagsOK'
  BY Zenon DEF FlagsOK
<1>2. TypeOK'
  BY <1>1 DEF LocalInv
<1>3. LocalInv'
  BY DEF LocalInv
<1>4. ~raced' => ChainInv'
  BY DEF ChainInv
<1>5. ~raced' => FreshInv'
  BY DEF FreshInv, ChainInv
<1>6. ~raced' => SetupInv'
  BY DEF SetupInv, FreshInv
<1>7. ~raced' => TimerInv'
  BY DEF TimerInv, FreshInv, SetupInv
<1>8. ~raced' => CleanInv'
  BY DEF CleanInv, FreshInv
<1>9. ~raced' => UseInv'
  BY DEF UseInv, InUse, FreshInv
<1> QED
  BY <1>1, <1>2, <1>3, <1>4, <1>5, <1>6, <1>7, <1>8, <1>9

\* A data frame looks for its entry.
LEMMA RxFindKeeps ==
    ASSUME IndInv, fault = "none", NEW x \in Encodings, RxFind(x) PROVE IndInv'
<1> USE EntryFacts DEF IndInv, TypeOK, BucketFor, RxFind, tableVars, appVars, rxVars, cleanVars
<1>1. FlagsOK'
  BY Zenon DEF FlagsOK
<1>2. TypeOK'
  <2>1. data' \in 0 .. MAXDATA
    BY NumFacts
  <2>2. rptr' \in Entries \cup {Null} /\ renc' \in Encodings
    BY FindFacts
  <2> QED
    BY <1>1, <2>1, <2>2
<1>3. LocalInv'
  BY FindFacts DEF LocalInv
<1>4. ~raced' => ChainInv'
  BY FindFacts DEF ChainInv
<1>5. ~raced' => FreshInv'
  BY SMTT(60), FoundFacts DEF FreshInv
<1>6. ~raced' => SetupInv'
  BY FindFacts DEF SetupInv, FreshInv
<1>7. ~raced' => TimerInv'
  BY FindFacts DEF TimerInv, FreshInv, SetupInv
<1>8. ~raced' => CleanInv'
  BY FindFacts DEF CleanInv, FreshInv
<1>9. ~raced' => UseInv'
  BY FoundFacts DEF UseInv, InUse
<1> QED
  BY <1>1, <1>2, <1>3, <1>4, <1>5, <1>6, <1>7, <1>8, <1>9

\* A data frame moves the timeout.
LEMMA RxArmKeeps ==
    ASSUME IndInv, fault = "none", RxArm PROVE IndInv'
<1> USE EntryFacts DEF IndInv, TypeOK, BucketFor, RxArm, Rearm, TouchTimer, Expiring,
        tableVars, appVars, rxVars, cleanVars
<1>1. FlagsOK'
  BY Zenon DEF FlagsOK
<1>2. TypeOK'
  BY <1>1 DEF LocalInv
<1>3. LocalInv'
  BY DEF LocalInv
<1>4. ~raced' => ChainInv'
  BY DEF ChainInv
<1>5. ~raced' => FreshInv'
  BY DEF FreshInv, ChainInv
<1>6. ~raced' => SetupInv'
  BY DEF SetupInv, FreshInv
<1>7. ~raced' => TimerInv'
  BY DEF TimerInv, FreshInv, SetupInv
<1>8. ~raced' => CleanInv'
  BY DEF CleanInv, FreshInv
<1>9. ~raced' => UseInv'
  BY DEF UseInv, InUse, FreshInv, ChainInv, LocalInv
<1> QED
  BY <1>1, <1>2, <1>3, <1>4, <1>5, <1>6, <1>7, <1>8, <1>9

\* vmac_rx uses the entry.
LEMMA RxUseKeeps ==
    ASSUME IndInv, fault = "none", RxUse PROVE IndInv'
<1> USE EntryFacts DEF IndInv, TypeOK, BucketFor, RxUse, Touch,
        tableVars, appVars, rxVars, cleanVars
<1>1. FlagsOK'
  BY Zenon DEF FlagsOK
<1>2. TypeOK'
  BY <1>1 DEF LocalInv
<1>3. LocalInv'
  BY DEF LocalInv
<1>4. ~raced' => ChainInv'
  BY DEF ChainInv
<1>5. ~raced' => FreshInv'
  BY DEF FreshInv, ChainInv
<1>6. ~raced' => SetupInv'
  BY DEF SetupInv, FreshInv
<1>7. ~raced' => TimerInv'
  BY DEF TimerInv, FreshInv, SetupInv
<1>8. ~raced' => CleanInv'
  BY DEF CleanInv, FreshInv
<1>9. ~raced' => UseInv'
  BY DEF UseInv, InUse, FreshInv
<1> QED
  BY <1>1, <1>2, <1>3, <1>4, <1>5, <1>6, <1>7, <1>8, <1>9

\* prepDACK looks for the entry.
LEMMA RxDackKeeps ==
    ASSUME IndInv, fault = "none", RxDack PROVE IndInv'
<1> USE EntryFacts DEF IndInv, TypeOK, BucketFor, RxDack, Touch,
        tableVars, appVars, rxVars, cleanVars
<1>1. FlagsOK'
  BY Zenon DEF FlagsOK
<1>2. TypeOK'
  <2>1. find_rx(renc) \in Entries \cup {Null}
    BY FindFacts
  <2> HIDE DEF find_rx
  <2>2. fault' \in {"none", "freed", "null"}
    OBVIOUS
  <2>3. dackPending' \subseteq Entries
    BY <2>1
  <2> QED
    BY <1>1, <2>2, <2>3
<1>3. LocalInv'
  BY FindFacts DEF LocalInv
<1>4. ~raced' => ChainInv'
  BY FindFacts DEF ChainInv
<1>5. ~raced' => FreshInv'
  BY SMTT(60), FoundFacts DEF FreshInv
<1>6. ~raced' => SetupInv'
  BY FindFacts DEF SetupInv, FreshInv
<1>7. ~raced' => TimerInv'
  BY FoundFacts DEF TimerInv, UseInv, InUse
<1>8. ~raced' => CleanInv'
  BY FindFacts DEF CleanInv, FreshInv
<1>9. ~raced' => UseInv'
  BY FindFacts DEF UseInv, InUse, FreshInv
<1> QED
  BY <1>1, <1>2, <1>3, <1>4, <1>5, <1>6, <1>7, <1>8, <1>9

\* A timeout is due.
LEMMA DueKeeps ==
    ASSUME IndInv, fault = "none", NEW e \in Entries, Due(e) PROVE IndInv'
<1> USE EntryFacts DEF IndInv, TypeOK, BucketFor, Due, tableVars, appVars, rxVars, cleanVars
<1>1. FlagsOK'
  BY Zenon DEF FlagsOK
<1>2. TypeOK'
  BY <1>1 DEF LocalInv
<1>3. LocalInv'
  BY DEF LocalInv
<1>4. ~raced' => ChainInv'
  BY DEF ChainInv
<1>5. ~raced' => FreshInv'
  BY DEF FreshInv, ChainInv
<1>6. ~raced' => SetupInv'
  BY DEF SetupInv, FreshInv
<1>7. ~raced' => TimerInv'
  BY DEF TimerInv, FreshInv, SetupInv
<1>8. ~raced' => CleanInv'
  BY DEF CleanInv, FreshInv
<1>9. ~raced' => UseInv'
  BY DEF UseInv, InUse, FreshInv
<1> QED
  BY <1>1, <1>2, <1>3, <1>4, <1>5, <1>6, <1>7, <1>8, <1>9

\* __cleanup_rx starts.
LEMMA ExpiresKeeps ==
    ASSUME IndInv, fault = "none", NEW e \in Entries, Expires(e) PROVE IndInv'
<1> USE EntryFacts DEF IndInv, TypeOK, BucketFor, Expires, Touch,
        tableVars, appVars, rxVars, cleanVars
<1>1. FlagsOK'
  BY Zenon DEF FlagsOK
<1>2. TypeOK'
  BY <1>1 DEF LocalInv
<1>3. LocalInv'
  BY DEF LocalInv
<1>4. ~raced' => ChainInv'
  BY DEF ChainInv
<1>5. ~raced' => FreshInv'
  BY DEF FreshInv, ChainInv
<1>6. ~raced' => SetupInv'
  BY DEF SetupInv, FreshInv
<1>7. ~raced' => TimerInv'
  BY DEF TimerInv, FreshInv, SetupInv
<1>8. ~raced' => CleanInv'
  BY DEF CleanInv, FreshInv
<1>9. ~raced' => UseInv'
  BY DEF UseInv, InUse, FreshInv
<1> QED
  BY <1>1, <1>2, <1>3, <1>4, <1>5, <1>6, <1>7, <1>8, <1>9

\* process looks for the entry.
LEMMA CleanFindKeeps ==
    ASSUME IndInv, fault = "none", NEW e \in Entries, CleanFind(e) PROVE IndInv'
<1> USE EntryFacts DEF IndInv, TypeOK, BucketFor, CleanFind, Touch,
        tableVars, appVars, rxVars, cleanVars
<1>1. FlagsOK'
  BY Zenon DEF FlagsOK
<1>2. TypeOK'
  BY <1>1, FindFacts DEF LocalInv
<1>3. LocalInv'
  BY FindFacts DEF LocalInv
<1>4. ~raced' => ChainInv'
  BY FindFacts DEF ChainInv
<1>5. ~raced' => FreshInv'
  BY FindFacts DEF FreshInv, ChainInv
<1>6. ~raced' => SetupInv'
  BY FindFacts DEF SetupInv, FreshInv
<1>7. ~raced' => TimerInv'
  BY FindFacts DEF TimerInv, FreshInv, SetupInv
<1>8. ~raced' => CleanInv'
  BY SMTT(60), OwnFound DEF CleanInv
<1>9. ~raced' => UseInv'
  BY SMTT(60), FindFacts DEF UseInv, InUse, FreshInv
<1> QED
  BY <1>1, <1>2, <1>3, <1>4, <1>5, <1>6, <1>7, <1>8, <1>9

\* process removes the entry.
LEMMA CleanFreeKeeps ==
    ASSUME IndInv, fault = "none", NEW e \in Entries, CleanFree(e) PROVE IndInv'
<1> USE EntryFacts DEF IndInv, TypeOK, BucketFor, appVars, rxVars
<1> DEFINE f == cptr[e]
<1>1. /\ cpc[e] = "free" /\ chain' = hash_del(f) /\ f \in Entries
      /\ mem' = [mem EXCEPT ![f] = "freed"]
      /\ cpc' = [cpc EXCEPT ![e] = "idle"] /\ cptr' = [cptr EXCEPT ![e] = Null]
      /\ fault' \in {"none", "freed"}
      /\ UNCHANGED <<key, ready, timeout, dackPending, appVars, rxVars, late, raced>>
  BY DEF CleanFree, Touch, LocalInv
<1>2. /\ chain' \in [Buckets -> Seq(Entries)]
      /\ \A b \in Buckets : Len(chain[b]) <= 1 =>
             IF Len(chain[b]) = 1 /\ chain[b][1] = f
             THEN Len(chain'[b]) = 0 ELSE chain'[b] = chain[b]
  BY ZenonT(60), <1>1, DelFacts
<1> HIDE DEF f
<1> USE <1>1, <1>2
<1>3. FlagsOK'
  BY Zenon DEF FlagsOK
<1>4. TypeOK' /\ LocalInv'
  BY <1>3 DEF LocalInv
<1>5. ~raced => f = e /\ mem[e] = "used"
  BY DEF CleanInv, f
<1>6. ~raced => ChainInv'
  <2> SUFFICES ASSUME ~raced PROVE ChainInv'
    OBVIOUS
  <2>1. /\ \A c \in Entries : mem'[c] = "used" <=> (mem[c] = "used" /\ c # e)
        /\ Len(chain[BucketOf[key[e]]]) = 1 /\ chain[BucketOf[key[e]]][1] = e /\ f = e
    BY <1>5 DEF ChainInv
  <2>2. \A b \in Buckets : /\ Len(chain[b]) <= 1 /\ (Len(chain[b]) = 1 => chain[b][1] \in Entries)
                           /\ Len(chain'[b]) <= 1 /\ Len(chain[b]) \in Nat
    BY SMTT(60) DEF ChainInv
  <2>3. \A b \in Buckets : Len(chain'[b]) = 1 =>
            Len(chain[b]) = 1 /\ chain'[b] = chain[b] /\ chain[b][1] # e
    BY <2>1, <2>2
  <2>4. \A c \in Entries : mem'[c] = "used" =>
            Len(chain'[BucketOf[key[c]]]) = 1 /\ chain'[BucketOf[key[c]]][1] = c
    BY <2>1, <2>2 DEF ChainInv
  <2>5. \A a \in Apps : apc[a] = "add" => Len(chain'[BucketOf[aenc[a]]]) = 0
    BY <2>1, <2>2 DEF ChainInv
  <2> QED
    BY <2>1, <2>2, <2>3, <2>4, <2>5 DEF ChainInv
<1>7. ~raced => FreshInv'
  BY <1>5 DEF FreshInv
<1>8. ~raced => SetupInv'
  BY <1>5 DEF SetupInv
<1>9. ~raced => TimerInv'
  BY <1>5 DEF TimerInv
<1>10. ~raced => CleanInv'
  BY <1>5 DEF CleanInv
<1>11. ~raced => UseInv'
  BY <1>5 DEF UseInv, InUse
<1> QED
  BY <1>4, <1>6, <1>7, <1>8, <1>9, <1>10, <1>11

\* __sendDACK runs.
LEMMA DackExpiresKeeps ==
    ASSUME IndInv, fault = "none", NEW e \in Entries, DackExpires(e) PROVE IndInv'
<1> USE EntryFacts DEF IndInv, TypeOK, BucketFor, DackExpires, Touch,
        tableVars, appVars, rxVars, cleanVars
<1>1. FlagsOK'
  BY Zenon DEF FlagsOK
<1>2. TypeOK'
  BY <1>1 DEF LocalInv
<1>3. LocalInv'
  BY DEF LocalInv
<1>4. ~raced' => ChainInv'
  BY DEF ChainInv
<1>5. ~raced' => FreshInv'
  BY DEF FreshInv, ChainInv
<1>6. ~raced' => SetupInv'
  BY DEF SetupInv, FreshInv
<1>7. ~raced' => TimerInv'
  BY DEF TimerInv, FreshInv, SetupInv
<1>8. ~raced' => CleanInv'
  BY DEF CleanInv, FreshInv
<1>9. ~raced' => UseInv'
  BY DEF UseInv, InUse, FreshInv
<1> QED
  BY <1>1, <1>2, <1>3, <1>4, <1>5, <1>6, <1>7, <1>8, <1>9


-----------------------------------------------------------------------------
(* The inductive invariant *)

\* The invariant holds of an empty table.
LEMMA InitIndInv == Init => IndInv
<1> SUFFICES ASSUME Init PROVE IndInv
  OBVIOUS
<1> USE EntryFacts
<1>1. FlagsOK
  BY Zenon DEF Init, FlagsOK
<1>2. TypeOK /\ LocalInv
  BY <1>1 DEF Init, TypeOK, LocalInv
<1>3. ChainInv /\ FreshInv /\ SetupInv
  BY DEF Init, ChainInv, FreshInv, SetupInv, BucketFor
<1>4. TimerInv /\ CleanInv /\ UseInv
  BY DEF Init, TimerInv, CleanInv, UseInv, InUse
<1> QED
  BY <1>2, <1>3, <1>4 DEF IndInv

\* Every step of a thread or timer keeps the invariant.
LEMMA NextIndInv == IndInv /\ [Next]_vars => IndInv'
<1> SUFFICES ASSUME IndInv, [Next]_vars PROVE IndInv'
  OBVIOUS
<1>1. CASE Next
  <2>1. fault = "none"
    BY <1>1 DEF Next
  <2>2. CASE \E a \in Apps : Interest(a) \/ \E x \in Encodings : InterestFind(a, x)
    BY <2>1, <2>2, InterestFindKeeps, InterestAddKeeps, InterestSetupKeeps, InterestArmKeeps
    DEF Interest
  <2>3. CASE Data \/ \E x \in Encodings : RxFind(x)
    BY <2>1, <2>3, RxFindKeeps, RxArmKeeps, RxUseKeeps, RxDackKeeps DEF Data
  <2>4. CASE \E e \in Entries : Timers(e)
    BY <2>1, <2>4, DueKeeps, ExpiresKeeps, CleanFindKeeps, CleanFreeKeeps, DackExpiresKeeps
    DEF Timers
  <2> QED
    BY <1>1, <2>2, <2>3, <2>4 DEF Next
<1>2. CASE UNCHANGED vars
  <2> USE <1>2 DEF vars, tableVars, appVars, rxVars, cleanVars, IndInv
  <2>1. TypeOK' /\ LocalInv'
    <3>1. FlagsOK'
      BY Zenon DEF FlagsOK, TypeOK
    <3> QED
      BY <3>1 DEF TypeOK, LocalInv
  <2>2. ~raced => ChainInv' /\ FreshInv' /\ SetupInv'
    BY DEF ChainInv, FreshInv, SetupInv, BucketFor
  <2>3. ~raced => TimerInv' /\ CleanInv' /\ UseInv'
    BY DEF TimerInv, CleanInv, UseInv, InUse, BucketFor
  <2> QED
    BY <2>1, <2>2, <2>3
<1> QED
  BY <1>1, <1>2

\* The conjuncts of IndInv hold in every reachable state.
THEOREM Inductive == Spec => []IndInv
  BY InitIndInv, NextIndInv, PTL DEF Spec

-----------------------------------------------------------------------------
(* The properties *)

(***************************************************************************)
(* Every variable of the table and its users keeps its type (TypeOK):      *)
(* among others, what find_rx returns is an entry or NULL.                 *)
(***************************************************************************)
THEOREM TypeCorrect == Spec => []TypeOK
  BY Inductive, PTL DEF IndInv

(***************************************************************************)
(* An encoding has one entry, unless two threads have both found none and  *)
(* add one each (OneEntryPerEncoding).                                     *)
(***************************************************************************)
THEOREM OneEntry == Spec => []OneEntryPerEncoding
<1>1. IndInv => OneEntryPerEncoding
  <2> SUFFICES ASSUME IndInv, ~raced, NEW b \in Buckets,
                      NEW i \in DOMAIN chain[b], NEW j \in DOMAIN chain[b]
               PROVE  i = j
    BY DEF OneEntryPerEncoding
  <2>1. chain[b] \in Seq(Entries) /\ Len(chain[b]) <= 1
    BY DEF IndInv, TypeOK, ChainInv
  <2>2. i \in 1 .. Len(chain[b]) /\ j \in 1 .. Len(chain[b]) /\ Len(chain[b]) \in Nat
    BY <2>1
  <2> QED
    BY <2>1, <2>2
<1> QED
  BY <1>1, Inductive, PTL

(***************************************************************************)
(* process, called for the entry whose timeout expired, finds and frees    *)
(* that entry, though find_rx compares no keys (CleanupFreesOwn).          *)
(***************************************************************************)
THEOREM CleanupIsOwn == Spec => []CleanupFreesOwn
<1>1. IndInv => CleanupFreesOwn
  <2> SUFFICES ASSUME IndInv, ~raced, fault = "none", NEW e \in Entries
               PROVE  /\ cpc[e] = "find" => find_rx(key[e]) = e
                      /\ cpc[e] = "free" => cptr[e] = e /\ mem[e] = "used"
    BY DEF CleanupFreesOwn
  <2>1. TypeOK /\ ChainInv /\ CleanInv /\ key[e] \in Encodings
    BY DEF IndInv, TypeOK
  <2>2. mem[e] = "used" => find_rx(key[e]) = e
    BY <2>1, OwnFound DEF BucketFor
  <2> QED
    BY <2>1, <2>2 DEF CleanInv
<1> QED
  BY <1>1, Inductive, PTL

(***************************************************************************)
(* Once vmac_rx has moved the timeout of its entry, the entry lasts until  *)
(* it is done and prepDACK finds the same one, and no timer is pending in  *)
(* freed memory, unless the timeout was moved when __cleanup_rx had begun  *)
(* or two entries share a bucket (RearmedEntryLasts).                      *)
(***************************************************************************)
THEOREM EntryLasts == Spec => []RearmedEntryLasts
<1>1. IndInv => RearmedEntryLasts
  <2> SUFFICES ASSUME IndInv, ~raced
               PROVE  /\ (rpc \in {"window", "dack"} /\ rptr \notin late)
                            => mem[rptr] = "used" /\ find_rx(renc) = rptr
                      /\ \A e \in Entries \ late :
                            (timeout[e] # "off" \/ e \in dackPending) => mem[e] = "used"
    BY DEF RearmedEntryLasts
  <2>1. TypeOK /\ LocalInv /\ ChainInv /\ TimerInv /\ UseInv /\ renc \in Encodings
    BY DEF IndInv, TypeOK
  <2>2. ASSUME InUse, rptr \notin late PROVE mem[rptr] = "used" /\ find_rx(renc) = rptr
    <3>1. /\ rptr \in Entries /\ mem[rptr] = "used" /\ BucketOf[renc] = BucketFor(rptr)
      BY <2>1, <2>2 DEF LocalInv, UseInv, InUse
    <3> QED
      BY <2>1, <3>1, OwnFound
  <2> QED
    BY <2>1, <2>2 DEF TimerInv, InUse
<1> QED
  BY <1>1, Inductive, PTL
=============================================================================
