# Verification of V-MAC 802.11ac

V-MAC is a data-centric multicast MAC layer inside a Realtek rtl88XXau driver.
A *producer* broadcasts the data frames of an *encoding* (the 64-bit hash of an
interest name); *consumers* that sent an interest for the encoding receive them,
and report losses in *DACKs*, to which the producer answers with retransmissions.
This directory holds TLA+ models of that logic, translated from
`src/kernel/core/{tx,rx,dack,clean}.c` and `vmac.h`, and of the two paths through
the driver that its frames take, between `vmac_low_tx` or `vmac_override` and the
USB controller; the TLC runs that check them on small instances; and TLAPS proofs
for all sizes.

## 1. Inventory

| Part (source) | State | Operations | Interacts with |
|---|---|---|---|
| Sending (`vmac_tx`, tx.c) | `struct encoding_tx`: `seq`, `retransmission_buffer[500]`, `timer[500]` | number, buffer and broadcast a data frame; pass interests, announcements and injected frames on | called by `nl_recv`; shares the entry with the DACK handler (softirq) and the cleanup timer |
| DACK handling (DACK branch of `vmac_rx`, rx.c) | locals `seq`, `le`, `re`, `counter`, `skb2` | walk the holes of a DACK, copy and send buffered frames, set their pacing | reads and writes the sender entry while `vmac_tx` runs |
| Receiving (data branch of `vmac_rx`, rx.c) | `struct encoding_rx`: `latest`, `window[700]`, `lastin`, `firstFrame`, `SecondFrame`, `alpha`, `round` | advance, drop duplicates, mark, estimate, request a DACK, deliver | calls `prepDACK` and `nl_send`; entry created by an interest, removed by cleanup |
| DACK construction (`prepDACK`, dack.c) | locals; reads `window` | compute holes and delay, set or replace the pending DACK | called by `vmac_rx`; shares `dac_info` with the timer |
| DACK transmission (`__sendDACK`, dack.c) | `dac_info` (`send`, `dack`), `dacklok`, `dack_timer` | take the pending DACK and send it, or retry in 100 ms | timer softirq against receive softirq |
| Cleanup (clean.c) | `enc_timeout` timers | remove an entry after 30 s | frees entries that handlers may hold |
| Encoding tables (`find_rx` ... `add_tx`, rtw_xmit.c) | two hash tables of 32 buckets, no lock | look up, add | used by every handler |
| Netlink (`nl_recv`, `nl_send`, `vmac_init`, `exit_vmac`) | `nl_sk`, `pidt`, `configured` | register, send, deliver, shut down | userspace library |
| Frame output (`vmac_low_tx`, `xmit_mo`, `dump_mgntframe`, `usb_write_port`) | pools of management transmit frames and buffers, one URB and one `sctx` pointer per buffer | take a frame and a buffer, fill, submit, complete, give back | shared with the frames the driver sends itself, of which some wait for the completion |
| USB reception (`usb_read_port`, `usb_read_port_complete`, `usb_recv_tasklet`, `rtl8812au_inirp_init`) | `recv_buf`s with URB and skb; `rx_skb_queue`, `free_recv_skb_queue`, `recv_buf_pending_queue` | submit, complete, handle, submit again; start and stop | completions and tasklet on different CPUs; ends in `vmac_override` |
| Frame input (`vmac_override`, rtw_recv.c) | none | filter on the address, strip headers, call `vmac_rx` | Realtek driver |
| Userspace library (vmac-usrsp.c) | socket, one message buffer per direction | register, send, receive thread and callback | netlink |

Outside the system proper: `queue.c` (threads and queues of an earlier port, not
in the Makefile, every call commented out), `ieee80211_rx_vmac` (no caller), and
the vendored Realtek driver.

What is hard here: the window and the retransmission buffer are rings indexed by
sequence numbers that are compared in three different ways; the DACK handler
works on a snapshot of `seq` while frames are numbered, stored and replaced; two
softirqs share the pending DACK through a lock neither waits for; frames and
DACKs are lost; memory is used uninitialised (`vmalloc`) and, in two places, read
out of bounds; counters are 8 and 16 bits wide. Entries are shared by threads,
softirqs and timers without a lock or a reference count, pools and queues of the
driver by contexts that each see a part of the state, and every allocation and
every URB may fail. `PROJECT.json` lists these
hazards line by line, with the property that covers each, or why none does yet.

What makes the parts correct: a payload is delivered at most once per
subscription, and dropped as a duplicate only if it was delivered; a DACK is
requested for every burst and asks for what is missing and for nothing else; the
producer retransmits only frames it still has; a pending DACK leaves, once, in
order, and its buffer has one owner; an entry in use is not freed, an unused one
is; a buffered copy has one owner; no element of a pool is lost or used twice; a
transfer received is handled, once and in order.

## 2. Modules

| Module | Models | Uses |
|---|---|---|
| `RxWindow` | the receive window: pure operators for what `vmac_rx` writes into it and `prepDACK` reads out of it | |
| `PrepDack` | the loops of `prepDACK`, one action per test | `RxWindow` |
| `MulticastService` | abstract specification: publish, join, leave, deliver at most once | |
| `Multicast` | producer, consumers and radio for one encoding | `RxWindow`, implements `MulticastService` |
| `MulticastNoWrap` | `Multicast` for streams shorter than 2^16 frames | `Multicast` |
| `DackTimer` | `prepDACK` against `__sendDACK` around `dacklok` | |
| `RxEntry` | the table of receiver entries: interests, data, DACK timer and cleanup against each other | |
| `TxEntry` | the sender entry and the memory of its buffered copies: `vmac_tx`, DACK handler, cleanup | |
| `TxPath` | transmit pools, `xmit_mo`, URB and completion | |
| `RxPath` | `recv_buf`s, receive queues, completion and tasklet | |
| `MC*` | instances for TLC; `MCPacing` adds a ghost to `Multicast` | |
| `RxWindowProofs` | lemmas and theorems about the window and the holes, for the two below | `RxWindow` |
| `PrepDackProofs`, `MulticastProofs` | theorems | `RxWindowProofs` |
| `DackTimerProofs`, `RxEntryProofs`, `TxEntryProofs`, `TxPathProofs`, `RxPathProofs` | theorems about the module of that name | |

Variables and actions bear the names of the source. Operators commented
*Seeded fault* are wrong variants of the definition below them; no specification
uses them, and `PROJECT.json` ("mutants") says which property each one breaks.

**RxWindow.** `Accept` and `NewLatest` are the window after a data frame,
`Duplicate` the test that drops one. `DackHoles` defines by their edges the holes
that `prepDACK` finds with three nested loops; `PrepDack` shows the two agree.
Cells range over 0 (lost), 1 (received) and 2 (anything else left by `vmalloc`),
and cell -1 stands for the bytes before the array, which `prepDACK` reads.

**PrepDack.** From the call to the armed timer. `Delay` is the computation of
`duration`; `rndm` is -1, 0 or 1 (the remainder of a signed long by 2), so the
delay may be negative, a timer already due. `GiveUp` is a failed allocation or a
held lock.

**Multicast.** A frame is its sequence number and, as a ghost, the index of its
payload. `vmac_tx` is two steps: `TxSeq` numbers the frame, `TxStore` buffers and
broadcasts it. The pacing entry, cleared just after the lock is released, is
cleared in `TxSeq`: a DACK handler that has read the new `seq` cannot select that
slot's old frame, and one with an older `seq` that writes the slot in between is
the same as one that writes it before. The DACK handler takes one step per hole
and per frame: `RecvDack`, `NextHole`, `SkipFrame`, `CopyFrame`, `SendFrame`,
`HoleDone`, `DackDone`; all of `vmac_tx` may run between any two. `SlotTest` keeps
the off-by-one of the source (for `le = WINDOW_TX` it looks at the bytes of
`timer[]`), and `skb2` keeps its value over iterations, so that a buffer already
sent may be sent again. On a consumer `Interest` creates the entry with any stale
window, `RecvAccept` and `RecvDrop` are the data branch of `vmac_rx` as a whole
(one softirq owns it), `SendDack` is the timer, `Expire` the cleanup. In
`RecvAccept` the DACK may be given up, as in `PrepDack`. `buf` and `timer` start
empty, uninitialised in the code: `RetxSlotFilled` shows that no slot is followed
before it is written, and `TxSeq` writes a pacing entry before it can be read.

**DackTimer.** Each DACK built gets a number; `xmits` and `frees` count what became
of it. `HearDack` is the reception of another consumer's DACK of the same round,
which in the code has no effect.

**RxEntry.** Each handler is split at the points where another CPU can change what
it has found: `InterestFind`, `InterestAdd`, `InterestSetup` or `InterestArm`;
`RxFind`, `RxArm`, `RxUse`, `RxDack`; `Expires`, `CleanFind`, `CleanFree`.
`find_rx` is the lookup of the source, the last entry of the bucket whatever its
key. `fault` records the first access to freed memory, to NULL or to a timer that
is not set up, and the model stops there: nothing can be said of what follows.
The ghosts `late` (a timeout moved when its callback had begun) and `raced` (two
threads both about to add an entry) are the exceptions of the properties; both are
reachable. `Due` lets time pass: a timer armed 30 s ahead does not expire while
the handler that armed it is still running.

**TxEntry.** A copy is the number of its frame, `copy[k]` its memory. `vmac_tx` is
`TxFind`, `TxArm`, `TxNumber`, `TxCopy`, `TxStore`, `TxFree`, with a `skb_copy` that
may fail, and the DACK handler loads a slot (`DackLoad`) and copies what it points
to (`DackCopy`) in two steps. `__cleanup_tx` is one step for each thing it does
(`Expires`, `CleanFind`, `CleanSlot` for each turn of its loop, which reads `seq`
again, `CleanEnd`, `CleanFree`), and `vmac_tx` may number and store frames between
any two. The ghost `lost` has the copies that it stores in a slot which the loop has
passed: nobody frees them. A timeout armed while the cleanup runs stays armed in
freed memory (`orphan`). Slots of a new entry hold garbage. Which frames a DACK
asks for is abstract here: any frame transmitted, and any number at all when the
DACK is older than the entry.

**TxPath.** Threads stand for all contexts that send. `fn` tells `xmit_mo` from the
driver's `dump_mgntframe_and_wait`, whose `submit_ctx` on the stack is known to the
buffer through `sctx`. `Submit` may be refused; the URB completes well or not; the
driver may stop at any point. `rtw_sctx_done_err` keeps its name. Ghosts: `fate`
(what really became of a buffer), `hot` (frames taken while an `xmit_mo` still
writes to them), `robbed` (threads whose `sctx` was cleared by another).

**RxPath.** `usb_read_port` is four steps for each of its three callers (start,
completion, tasklet). A completion queues the skb, wakes the tasklet and clears
`pskb` of its `recv_buf` in three steps (`CompleteData`, `Wake`, `Detach`), as the code
does, with the tasklet and other users of the skb between them; `Stale` names the
pointer not cleared yet. A transfer is a number; `handled` is the sequence of those
given to `recvbuf2recvframe`, which may pass frames on or drop them. Which of the free skbs is taken is a fixed
choice, since no property tells them apart. `Clash`, two users of one `recv_buf`,
stops the model, since `usb_fill_bulk_urb` then rewrites a URB in use. The ghosts
`dropped`, `missed`, `leftover` and `mixed` name the circumstances under which
reception can come to a halt.

### Assumptions about the environment

- One application thread publishes on an encoding. In `Multicast`, at least every
  30 s, so that numbering does not restart, and `skb_copy` in `vmac_tx` succeeds;
  `TxEntry` has neither restriction.
- The theorems about `Multicast` are for streams of fewer than 2^16 frames
  (`NoWrapAssumption`); `seq_wrap` shows that they need it.
- The radio keeps the order of the frames handed to it and loses any of them.
- While the DACK handler holds a copy, at most `LAG` new frames are handed to the
  radio, with `WINDOW_TX + LAG <= WINDOW`. In the code `WINDOW - WINDOW_TX` is 200
  frames; the handler's loop is a few microseconds long.
- In `Multicast` the buckets of the tables hold one encoding each; not so in
  `RxEntry`.
- A DACK is pending, and a handler runs, for less than the 30 s after which the
  entry expires.
- The host controller driver completes URBs one after another, and a scheduled
  tasklet has run before a stopped driver is started again.

## 3. Runs

| Run | Bounds | Shows |
|---|---|---|
| `prepdack` | `WINDOW` 6, bursts of 3, 2 holes, rounds 1-4, all 2^7 window contents | the loops end and compute `DackHoles`; every recorded loss but the last frame of the round is asked for, unless the holes ran out; nothing else is, unless the bytes before the array are zero |
| `prepdack_left_edge` | same | **violated**: the left edge walks over received frames |
| `multicast` | 1 consumer, `WINDOW` 5, `WINDOW_TX` 4, bursts of 2, 7 frames, 1 on the air, 3 stale windows | all data-path properties, and the refinement of `MulticastService`; frame `WINDOW_TX` is asked for, the slot test reads past the buffer and the freed `skb2` is sent again, and no duplicate results |
| `seq_wrap` | `WINDOW` 4, `U16` 6, 8 frames | **violated**: after the wrap a frame never received is dropped as a duplicate |
| `pacing` | 1 consumer, `U8` 2 | **violated**: a frame is retransmitted for the very next round |
| `dack_timer` | 4 DACKs | no DACK is stranded, leaked, sent twice or out of order; each leaves |
| `dack_suppression` | 2 DACKs | **violated**: a DACK heard twice from others is still sent |
| `rx_entry` | 2 threads, 3 encodings of which 2 share a bucket, 3 entries, 3 interests, 2 frames | one entry per encoding, cleanup frees the entry that expired, an entry whose timeout was moved in time lasts, every entry is removed in the end |
| `tx_entry` | `WINDOW_TX` 2, `U16` 5, 6 frames | each copy has one owner until a copy fails or `seq` wraps, cleanup leaves none behind but those stored in a slot it has passed, and the handler finds its copy unless the frame one turn later is already numbered |
| `retx_unlocked` | `WINDOW_TX` 2, 4 frames | **violated**: `vmac_tx` frees the copy the handler is about to read |
| `tx_path` | 2 threads, 1 frame, 2 buffers, 2 attempts, 4 frames sent | pools conserved and refilled, no dangling `sctx`, a waiting thread learns the fate of its own frame, descriptors are made from the sender's attributes |
| `rx_path` | 2 `recv_buf`s, 3 skbs of which 2 preallocated, 3 transfers, 2 starts | an skb is in one place, but for the pointer a completion is about to clear, a filled queue has a tasklet, transfers are handled once and in order, and the only ways reception can halt |

The bounds keep the proportions of the code: `WINDOW > WINDOW_TX > BURST`,
`HOLES_MAX` small enough to overflow, `MAXSEND` past one turn of the window and
almost two of the buffer, so that cells and slots are reused while older frames
are still on the air; `U8` is 3, so that the pacing wraps. A second consumer adds
nothing to an instance that the theorems do not cover, which hold for any number.
`multicast` runs all window contents that matter: only cells -1 and 0 are read
before they are written. Four DACKs give every order of build, replace, take and
retry. In `rx_entry` two encodings in one bucket and two threads are what it takes
for the wrong entry to be found and for two to be added. In `tx_entry` six frames
are three turns of the buffer, one wrap and a second entry. In `tx_path` one frame
and two buffers make either pool the scarce one, and four frames let a buffer pass
through three users. In `rx_path` three skbs for two `recv_buf`s let the free
queue, the heap and the pending queue each run empty, and the second start is what
its hazards need. Deadlock is checked in the `multicast` runs (an entry can always
be created or expire); the others run out of calls, or stop at a fault.

**Fairness.** `PrepDack` has `WF(Next)`: a function call runs on. `DackTimer` has
`WF(Timer)`: an armed timer expires and its handler runs, and `WF(RxRun)`: a
softirq that has started runs on; no frame is ever promised to arrive. `RxEntry`
has weak fairness of each thread, of the receive tasklet and of the timers of each
entry, not of the arrival of interests and data. `TxPath` has it of each thread and
of each URB: the USB core completes every URB it accepted, also those it cancels.
`RxPath` has it of the tasklet and of the completion in progress, not of transfers,
which come from the air. `Multicast` states no fairness: delivery is best effort, and its properties are safety.

## 4. Findings

1. `dack.c:168` reads `window[tmp % WINDOW - 1]`, in front of the array for `tmp` a
   multiple of `WINDOW`. If those bytes are zero, received frames are asked for
   again (`LeftEdgeLost`).
2. `tx.c:204`, `rx.c:280`: `seq` wraps after 65536 frames and the consumers' `latest`
   does not; frames never received are dropped as duplicates (`NoFreshDrop`).
3. `rx.c:356`: `round + 6` is stored in a `u8`; from round 250 (frame 1250) on the
   pacing does not hold back the next request (`RetxPaced`). With `U8` larger than
   every `round + PACE` the same run finds no violation.
4. `rx.c:353`, `tx.c:222`: the copy in the DACK handler and the free in `vmac_tx` are
   under no lock, against the pseudo code of both (`CopyUnderLock`). `CopyIntact`
   says how far it is safe: up to the frame exactly one turn later.
5. `rx.c:321`: `vmacr = NULL` makes the suppression of DACKs heard from others
   unreachable, against the pseudo code at `rx.c:193-201` (`SuppressedWhenHeard`).

Further facts are in the models as exceptions of properties that hold otherwise,
or as faults that stop them; each is reachable:

- frame 0 is lost when `vmalloc` left a 1 in `window[0]` (`NoFreshDrop`), and the
  last frame of a round is never asked for in that round's DACK (`LossesRequested`,
  `DackAsksForMissing`);
- `loss` in `prepDACK` counts over the whole window, against the comment "this
  should always occur" (`dack.c:213`); only the delay depends on it;
- two interests at once add two entries (`raced`); a timeout moved while
  `__cleanup_rx` runs does not save the entry (`late`); a frame that finds the entry
  before its timers are set up uses an uninitialised timer (`fault = "unset"`);
- encodings that share a bucket share the entry of the first one;
- a failed `skb_copy` in `vmac_tx`, or the wrap of `seq`, leaves a freed pointer in
  a slot or loses a copy (`failed`, `wrapped`), and so does a `vmac_tx` that stores its
  copy after the loop of `__cleanup_tx` has passed the slot (`lost`);
- a completion hands its skb on before it clears its own pointer to it: the skb may
  be free, or in another `recv_buf`, while the pointer is there, and nobody follows it
  (`Stale`);
- `xmit_mo` writes `raid` into a frame it gave back (`hot`); a thread that returns
  from `dump_mgntframe_and_wait` may unlink the `submit_ctx` of the next user of its
  buffer, who then waits for the timeout (`robbed`); an skb is leaked when
  `xmit_mo` returns BUSY (`skb = "lost"`);
- a tasklet that stops with the driver leaves its queue, which no completion after
  a restart wakes it for (`leftover`); a restart submits `recv_buf`s that still wait
  in the pending queue (`mixed`), and `inirp_init` gives up at the first that finds
  no memory; a `recv_buf` that begins to wait just after the tasklet looked waits
  until the next transfer of another, or for ever if it was the last (`missed`).

## 5. Proofs

Every invariant, every action property and the refinement that a passing run checks
is also a theorem, for arbitrary constants that satisfy the named assumptions of the
modules (`WindowAssumption`, `PrepDackAssumption`, `MulticastAssumption`,
`NoWrapAssumption`, `MaxDackAssumption`, `RxEntryAssumption`, `TxEntryAssumption`,
`TxPathAssumption`, `RxPathAssumption`). The bounds on calls and frames are among
the constants, so the theorems hold for behaviours of any length. One theorem,
`Listens`, has a hypothesis besides: `Prealloc # {}`, that `usb_init_recv_priv` could
allocate at least one skb. It is needed: without any, a driver that finds no memory
at its start never submits a URB.

In each proof module `IndInv` is the inductive invariant, lemmas about the
actions show that a step preserves it, `Inductive` (in `MulticastProofs` and
`DackTimerProofs`, `IndInvHolds`) that it always holds, and the other theorems follow
from it. The parts of `IndInv`, and why the properties need them:

**RxWindowProofs.** No state: arithmetic on remainders (`ModDistinct`, `ModTurn`), what
a data frame does to the window (`AcceptWindow`), and the definition of the holes.
A start of a hole has one left edge and one right edge (`LeftExists`, `RightExists`,
`HoleUnique`), two starts have different holes (`HoleOrder`), so there are as many
holes as reported starts (`HolesCount`), and a DACK that is not full reports them all
(`AllReported`). Hence `LossHasHole`: it asks for every lost frame but the last.
Induction over numbers is replaced by a smallest counterexample, which exists by the
library's theorem that `<` on the naturals is well-founded (`Smallest`).

**PrepDackProofs.** The loops compute the definition. `PosInv` says that the scan stands
behind a received frame or at an end, so that a lost frame it meets is a start;
`LeftInv` and `RightInv` are the invariants of the two while loops, with the start
`s` that the code forgets as soon as it moves `i`; `DoneInv` that the holes reported
are those of the starts passed, one each, which is what `HOLES_MAX` counts;
`OrderInv`, `CoverInv` and `OnlyInv` carry the other properties along the scan. In
`OnlyInv` the left edge never moves at all if the bytes before the array are not
zero: the first while only ever acts on them.

**MulticastProofs.** `IndInv` is the conjunction of the type invariant and
- `SeqInv`: sequence numbers are payload indices, by `NoWrapAssumption`;
- `BufInv`: the buffer holds the last `WINDOW_TX` transmitted frames, in place;
- `CopyInv`: the handler's copy is at most `WINDOW` behind the newest frame;
- `HolesInv`: DACKs, on their way or being served, name only transmitted frames;
- `AirInv`: no frame on the air is `WINDOW` or more behind one ahead of it or
  behind what its consumer has seen;
- `WindowInv`: for the numbers a window covers, "marked" and "delivered" agree;
- `KnownInv`: their cells were written, and hold nothing that `vmalloc` left;
- `LastInv`: the last frame accepted is marked;
- `DackEveryBurst`.

The argument: `NoDuplicateDelivery` alone is not inductive, since the duplicate
test reads a cell that several numbers share. `WindowInv` makes the test exact
within the window, so it remains that no frame outside it arrives. That is
`AirInv`, preserved by a retransmission because of `CopyInv` and
`WINDOW_TX + LAG <= WINDOW`, which in turn needs that slots hold recent frames
(`BufInv`) and that only numbered frames are asked for (`HolesInv`). From `IndInv`
follow `TypeCorrect`, `AtMostOnce`, `FreshKept`, `BurstBound`, `DivisorNonzero`,
`SlotFilled`, and `ImplementsService`, that every step is a step of
`MulticastService` or stutters. `MissingAskedFor` joins the two ends: a payload that
is missing is a cell that reads 0 (`WindowInv`, `KnownInv`), and a cell that reads 0
is asked for (`LossHasHole`).

**DackTimerProofs.** `IndInv` adds to the properties who holds the lock at which
point (`LockInv`), which pointers are set (`PointerInv`), that DACKs not built have
no history (`FutureInv`) and that pointers hold DACKs by age (`OrderInv`). From it:
`TypeCorrect`, `NeverStranded`, `Conserved`, `InOrder`.

**RxEntryProofs.** While nobody `raced`: a bucket has one entry at most, exactly the one
in use, and none while a thread is about to add one (`ChainInv`), which makes the
lookup without keys return the right entry; an entry not allocated is known to
nobody (`FreshInv`), one without timers cannot expire (`SetupInv`); a timer runs only
in an entry in use (`TimerInv`), and `__cleanup_rx` works on its own (`CleanInv`).
`UseInv` is the strengthening for `RearmedEntryLasts`: not only the entry that
`vmac_rx` holds, also one that took its place in the bucket, does not expire while it
is used, since a timer armed 30 s ahead is not due before the handler is done.

**TxEntryProofs.** While no copy failed and `seq` did not wrap: the slots below the number
of frames stored are exactly the filled ones, with different copies, and what `vmac_tx`
holds is in none of them (`SlotInv`, `OwnerInv`), until a cleanup is at the slots. Also
then each copy in use is in a slot the cleanup has not passed, with `vmac_tx`, or `lost`
(`KeptInv`): the loop ends no earlier than at the last stored frame, because `seq` is
advanced before a frame is stored and read in each turn. After the cleanup, then, only
lost copies and the one `vmac_tx` is about to free are left (`GoneInv`); no pointer leads
to a copy not made yet (`FutureInv`, `PointInv`). `LoadInv` relates what the DACK handler loaded to
the slot it came from until the frame one turn later gets its number.

**TxPathProofs.** Which steps hold a frame and a buffer (`LocalInv`, `FrameInv`, `BufInv`),
counted only at the end (`PlacesCounted`); to which `submit_ctx` a buffer may point at
each step (`LinkInv`, `NoDanglingSctx`); and the three states of a waiting thread
(`WaitInv`): linked and not told, robbed and never told, or told its own fate.
`AttribInv` says that a frame an `xmit_mo` still writes to is known to be `hot`.

**RxPathProofs.** `UserInv` is `RecvBufHasOneUser` by processes instead of by counts, with
what `inirp_init` will find on its way; `PskbInv` and `PlaceInv` say where skbs are,
the latter of `own`, the pointers without the one a completion is about to clear;
`OrderInv` orders the transfers handled, in the tasklet and in the queue, and
`FirstInv` numbers them without a gap until the first stop; `WakeInv` says why it is
enough that a completion schedules the tasklet only for a queue of at most one skb:
without a tasklet only that completion has queued one. `AliveInv`, for `NeverDeaf`,
says that some `recv_buf` and some skb are always on their way, and that no `recv_buf`
waits for an skb that is free.

**Only model-checked:** liveness (`Terminates`, `PendingDackLeaves`, `EntriesExpire`,
`PoolsRefill`, `AllHandled`): the provers have no rules for fairness and ENABLED.

## 6. Not modelled

- **Netlink and the userspace library.** Their state is a socket, one pid and one
  message buffer per direction. What is wrong there shows in single functions:
  `nl_send` frees `skb_out` after `nlmsg_unicast` consumed it (`rx.c:102`), `exit_vmac`
  releases `nl_sk` and leaves the pointer (`rtw_xmit.c:195`), `nl_recv` sends all
  deliveries to the process heard last (`rtw_xmit.c:243`), concurrent `send_vmac`
  calls share `nlh`.
- **`vmac_override`**, a stateless filter; **`ieee80211_rx_vmac`** and **`queue.c`**, which
  nothing calls.
- **`seqlock` on one CPU.** `spin_lock` in process context and in softirq can
  deadlock; that is a matter of two lines, not of interleavings.
- **The rest of the Realtek driver**: most of the repository's lines, vendored, with
  large tables and firmware images, and idle in the monitor mode V-MAC uses. For
  this reason the models cover a small share of all lines in the repository,
  though nearly all of V-MAC's own.

## 7. Plan

Done: the modules above, and proofs of all their safety properties. What could be
added:

1. the decreasing quantities behind `Terminates` and `AllHandled`, as action
   properties: what each loop of `prepDACK` and of the tasklet comes closer to;
2. a theorem that composes `RxEntry` and `DackTimer`: a pending `dack_timer` always
   belongs to an entry in use.
