# TLA+ verification of `cyphal_application`

This directory holds TLA+ specifications of the Cyphal node in this repository,
the TLC configurations that check them on small instances, and TLAPS proofs of
what the runs check, for every value of the constants: of the receive path with
its ring buffer, the transmit queue, the bxCAN driver below it, the sessions that
reassemble transfers, the dispatch to subscribers, the periodic publications, the
configuration services, the heap, the balanced tree, the CAN identifiers and the
bit timings. Only liveness is model-checked without a proof.
Paths below are relative to `src/`, the root of the repository.

## 1. The system

A node is a bare-metal (or Linux) program that calls `Cyphal::process()` for
ever. One call runs three phases in this order:

1. receive: read the millisecond clock once, take frames from the transport,
   hand each to `canardRxAccept`, and run the callback of every completed
   transfer (a callback may answer, that is, push a response);
2. publish: either the heartbeat or, when no heartbeat is due, the port list;
3. transmit: offer the frames of the TX queue to the transport until it
   refuses one or none is left.

Everything runs in one thread except the receive interrupt of the FDCAN driver
and the CAN controller itself, which works between any two register accesses.

### Components

| Component | State | Operations | Talks to |
| --- | --- | --- | --- |
| Ring buffer (`include/cyphalNode/ring_buffer.hpp`) | `buffer`, `head`, `tail`, `size` | `push`, `pop`, `get_size` | FDCAN transport: pushed to by the interrupt, popped by the main loop |
| FDCAN transport (`platform_specific/fdcan/...`) | the static ring, the peripheral's RX FIFO, the interrupt mask | `HAL_FDCAN_RxFifo0Callback`, `receive`, `get_rx_queue_size`, `transmit` | main loop, peripheral |
| bxCAN transport and driver (`platform_specific/bxcan/...`, `Libs/platform_specific_components/stm32/...`) | deadline table, three TX mailboxes, error and bus-off status | `bxCANPush`, `bxCANPop`, abort of stale mailboxes | TX queue, controller |
| SocketCAN transport | a socket | `transmit`, `receive` | operating system |
| TX queue (`canardTxPush/Peek/Pop`, `Cyphal::push`, `spinTransmit`) | AVL tree of frames, its size, transfer-ID counters, heap | push a transfer, peek, pop | publishers, callbacks, transport, heap |
| RX sessions (`canardRxAccept`, `spinReceivedFrame`) | one session for each sender of a subscription, payload buffers, heap | accept a frame, restart, time out | transport, callbacks, heap |
| Heap (`Libs/o1heap`) | a chain of fragments, bins of the free ones, diagnostics | allocate, free, self-check | TX queue, RX sessions |
| Main loop and periodic publications (`cyphal.cpp`, `cyphal_publishers.cpp`) | `next_pub_time_ms` (two of them), `ports_updated` | `process`, `publish` | clock, TX queue, registers |
| Subscriptions and dispatch | `_sub_info`, `_sub_num`, the library's subscription trees | `subscribe`, `canardRxSubscribe`, `processReceivedTransfer` | RX sessions, callbacks |
| Register and command services | parameter storage (external), `_request_msg` | Register.Access, Register.List, ExecuteCommand, GetInfo | dispatch, TX queue, port list |
| Actuator, battery, GNSS and other interfaces | deadlines, readiness time | publish, setpoint callbacks | main loop, dispatch |
| AVL tree (`_canard_cavl.h`) | links and balance factors of nodes | search, insert, remove, extremum | TX queue, subscriptions, sessions |

### What is hard, and what must be true of it

- **An interrupt and the main loop share the ring buffer.** No frame may be
  lost, repeated or reordered, wherever the interrupt preempts; only `pop` is
  masked, the size is read without a mask.
- **The loop of `process()` re-evaluates its bound.** A call leaves frames
  behind; each of them must be delivered by a later call.
- **A push may fail half-way,** in a full queue or in the middle of a chain of
  frames. Nothing may leak, nothing partial may be queued, and the size that
  decides about the next push must stay exact.
- **Three mailboxes, one order.** Frames of one CAN ID must reach the bus in
  order while the controller arbitrates by priority, retries, aborts and goes
  bus-off, and while the driver's view of the mailboxes gets stale.
- **Intrusive structures.** The heap keeps its headers in the memory it lends,
  and merges a fragment with neighbours that stand in lists of their own; the
  tree is rebalanced from the place where a node left it. A link forgotten in
  one of many cases shows calls later, in another case.
- **Loss, repetition, restart.** A session must deliver only whole transfers,
  once and in order, and must not refuse an intact one.
- **Two tables of subscriptions.** The node's `_sub_info` and the library's
  trees are updated apart and by different rules. Who asked for a transfer must
  get it, also when the port has been subscribed to again, and the port list,
  computed from one of the tables, must be true of the other.
- **Configuration over a lossy network.** A client that saw its value stored
  must find it in use after the next start, whatever requests were repeated,
  answers lost, and whenever the power failed.
- **32-bit clocks.** The microsecond clock of `transmit` and of the receive
  timestamps wraps every 71.6 minutes, the millisecond clock after 49.7 days.
  Comparisons of deadlines with wrapped clocks change their meaning.
- **Two publications share one branch.** Neither may starve or drift.

`PROJECT.json` lists each of these (`hazards`) at the line where it bites, with
the properties that cover it or the reason why none does yet.

## 2. Modules and the code

| Module | Models | Used by |
| --- | --- | --- |
| `OverwritingFifo` | what the comment of `RingBuffer::push` promises: a queue that drops its oldest element when it is full | `RingBuffer` (refinement) |
| `RingBuffer` | the class `RingBuffer`: four members, `Push` and `Pop` | `FdcanRx` |
| `FdcanRx` | RX FIFO, interrupt callback, `receive`, phase 1 of `process()`, over the variables of `RingBuffer`, which it extends; `pop` is split into its loads and its stores | |
| `TxQueue` | `canardTxPush`, `canardTxPeek`, `canardTxPop`, `Cyphal::push`, `spinTransmit`; an arbitrary transport | `BxcanTx` (an instance, whose actions it uses) |
| `BxcanTx` | `bxCANPush` and the abort logic over `TxQueue`, with the controller and the bus | |
| `RxSession` | `canardRxAccept` below `rxTryParseFrame`, `spinReceivedFrame`, `canardRxSubscribe` with `canardRxUnsubscribe`; senders and a lossy bus | |
| `CanId` | `txMakeCANID`, `rxTryParseFrame`, `rxInitTransferMetadataFromFrame` as operators | `Dispatch` |
| `Dispatch` | `subscribe`, the acceptance of a frame, `processReceivedTransfer`, the metadata of responses, the port list | |
| `Malloc` | what the header of o1heap promises: blocks that do not overlap, and `NULL` only when no gap is large enough | `O1Heap` (refinement) |
| `O1Heap` | `o1heapInit`, `o1heapAllocate`, `o1heapFree`, `o1heapDoInvariantsHold` with the chain, the bins and the mask | |
| `SortedQueue` | what libcanard needs of its tree: a sequence in the order of keys, first in first out among equal ones | `Cavl` (refinement) |
| `Cavl` | `cavlSearch`, `cavlRemove`, `cavlFindExtremum` with rotations and retracing, under the predicates of `canard.cpp` | |
| `CanTimings` | `bxCANComputeTimings` as operators | `BxcanTxProofs` |
| `Registers` | Register.Access and ExecuteCommand over a parameter storage; clients, an operator, the network, the power | |
| `NodeScheduler` | phase 2 of `process()`: both branches with wrapping deadlines | |
| `FdcanRxProofs` | the theorems of `RingBuffer` and `FdcanRx` | |
| `DispatchProofs` | the theorems of `CanId` and `Dispatch` | |
| `BxcanTxProofs` | the theorems of `BxcanTx` and `CanTimings` | |
| `TxQueueProofs` | the theorems of `TxQueue` and, in the second part, of the tree its frames are kept in, `Cavl` | |
| `RxSessionProofs`, `NodeSchedulerProofs`, `RegistersProofs`, `O1HeapProofs` | the theorems of the modules of these names | |
| `MCTxQueue`, `MCBxcanTx`, `MCRxSession`, `MCDispatch`, `MCRegisters`, `MCO1Heap`, `MCCavl` | values of constants for TLC that a `.cfg` cannot write | |

No module declares a `RECURSIVE` operator: loops and walks are recursive
functions, so every module can be proved about.
Definitions introduced by a comment that begins with "Mutant" are plausible
bugs of the code; no specification uses them. They document what each property
is sensitive to (`mutants` in `PROJECT.json`).

### How state and actions correspond to the code

**RingBuffer.** The variables are the private members; `out` is the return value
of the last `pop`. `RingPush` and `RingPop` are the methods' effects on the
members; `RingPop` takes the size as an argument because a preempted `pop`
would act on the size it had loaded.

**FdcanRx.** `pc` is the position in `process()`: `loop` is the test of the
`for` statement, `receive` the test of the size inside `receive()`, `load` and
`store` the two halves of `pop`, `accept` is `spinReceivedFrame`, `rest` the
other two phases, which do not touch this state. The callback reads the fill
level once (`IsrEnter`) and moves that many frames (`IsrMove`). A step of the
main loop needs `~inIsr`; a step of the interrupt can come between any two
steps of the main loop unless `irqMasked`. The module extends `RingBuffer`:
`buffer`, `head`, `tail`, `size` and `out` are its variables, the callback and
`pop` use its `RingPush` and `RingPop`, and its `Spec` states, as
`PushAndPopAreAtomic`, that the two contexts together behave as the class does
when its methods run alone.

**TxQueue.** A port is a CAN ID and its number is its priority. The tree ordered
by CAN ID, with later insertions to the right, is one sequence for each port,
and `canardTxPeek(p)` says that the leftmost node belongs to `p`. Heap
fragments are counted: each TX item of a classic CAN frame takes one fragment
of one size. `ChainLength` is how far `txGenerateMultiFrameChain` gets,
`Released` what `txPushMultiFrame` frees after a failure. The transfer-ID is
incremented by `Cyphal::push` in every case. Reception is two actions that take
and return fragments. `pushed` and `sent` are history. `isTxQueueItemFresh` is
always true, because every push passes the deadline 0. A push on port 0 returns
early and changes nothing, so a disabled publisher is a port that never pushes.

**BxcanTx.** `step` is the position in `bxCANPush`: `offer` (nothing begun),
`read` (first reading of TSR and aborts done), `search` (second reading done,
`tme` holds what it showed), `first` (all mailboxes were empty at the first
reading, so mailbox 0 is used without another look). The controller's actions
are external: they are taken from the use the driver makes of TSR, ESR and the
mailbox registers. `age` is how long a pending frame has waited in ticks of the
real clock, and `bus` and `aborted` are history. Time does not pass inside a
call of `bxCANPush`, which takes microseconds against ticks of milliseconds.

**RxSession.** A frame is the number of its transfer, its index and its
transfer-ID; start, end and toggle follow from the index. A session holds its
transfer-ID, toggle, the chunks received so far, whether it has a payload
buffer, and the timestamp. `rxSessionSynchronize`, `rxSessionUpdate`,
`rxSessionAcceptFrame` and `rxSessionRestart` are the functions of these names;
`canardRxAccept` includes the creation of a session. Frames of one CAN ID
arrive in order; one may be lost (a full FIFO), and the last one may be
delivered twice (CAN's double reception). The transfer CRC is taken to detect
every wrong payload. `buf` is the size of the payload buffer in chunks (0: none),
which is the extent of the subscription at the time of its allocation; `extent`
changes when the port is subscribed to again, which frees the sessions. An
anonymous transfer (`AcceptAnonymous`) has one frame and no session: it takes a
payload buffer of its own and gives it back after the callback. When nothing is
to be copied, because the extent is 0, the heap is asked for zero bytes, answers
`NULL`, and the code takes that for a heap that is exhausted. `heard`
is history for `IntactIsDelivered` and `TimeoutReadmits`.

**CanId and Dispatch.** The fields of a CAN ID do not overlap, so the `|` of the
code is a sum, and a shift with a mask is a quotient with a remainder; all 29
bits are there. `sub_info` is `_sub_info` with its length `_sub_num`;
`rx_subscriptions` are the library's trees, a set of pairs of a port and its
subscriber for each kind. `Init` is the state in which `Cyphal::init` returns,
with the four services subscribed. `Publisher` is the sequence in which the
publishers are constructed and `publishers` the table that the first `MaxPubNum` of them enter; the others
publish like the rest and only the port list does not know them.
`InitSubscriber` is `init()` of an
application's subscriber, which takes the port from a parameter, here any of
`Port`, and may be called again after a refusal. `Receive` builds the CAN ID the
way the sender does and runs the whole path of one frame to the callbacks and
their responses; `ReceiveStray` takes frames that are not of this protocol.
Transfers have one frame and a new transfer-ID, so that the sessions pass them
on: what sessions do is `RxSession`'s subject.

**Registers.** `ram` and `flash` are the two copies of the external parameter
storage, `port_id` what the publishers and subscribers took from it when the
node started. `Access` is the callback of Register.Access with its write before
its read; `StorePersistentStates`, `FactoryReset` and `RequestRestart` are the
cases of ExecuteCommand. `Boot` is what a start of the node does, `Restart` the
one that was asked for, `PowerLoss` the one that was not. A request is answered
in the step that receives it, because the callback runs to its end and one
thread runs everything. Clients and the operator are external: a client writes,
stores, reads back and restarts, goes on when the answer to its last request is
the one it needs, and otherwise sends again.

**NodeScheduler.** `process` reads the clock, `writeParam` may then set
`ports_updated` while received frames are handled, `Publish` takes one of the
two branches. Deadlines and readings are modulo `ClockModulo`, as `uint32_t`.
The queue may refuse a port list, and the code does not look: `ports_updated` is
cleared all the same. `unannounced` says whether there is a change that no list
in the queue holds.
`clock`, `lastBeat`, `lastList` and `updatedAt` are real time.

**O1Heap.** A fragment is the offset of its header in the arena; `heap` holds the
members of the headers as functions of the offset, the heads of the bins and the
mask. The code leaves dead headers as they are and hands the two links of the
free list to the user as payload: the model resets both, so that no later step
can rely on them. `SplitOneWay`, `MergedOneSided` and the like are mutants.
`lent` and `reply` are what the user sees, and all that `Malloc` knows.
Allocation is one action for each of its outcomes; `Merged` is the four ways in
which a fragment joins its neighbours. `oom_count` is bounded by `OomBound`,
because it is compared with zero only. `pow2` is a recursive function and
`log2Floor` the exponent that `__builtin_clz` finds, so that the module can be
proved about.

**Cavl.** A tree is a record of its root and, for each node, two children, a
parent and a balance factor. An operator takes a tree and gives the changed one,
statement by statement; `Hang` and `Replace` are the two link updates that the
code repeats; `cavlRemove` is split by the way the node leaves
(`UnlinkWithOne`, `UnlinkBeforeChild`, `UnlinkBeforeDistant`). Insertions follow
`txAVLPredicate`, look-ups `rxSubscriptionPredicateOnPortID`; `Pop` removes the
minimum as `canardTxPop` does, `Unsubscribe` any node as `canardRxUnsubscribe`.
A loop is its body as a function of what it changes, `Repeated` once for each
node there may be; a loop that has ended stays as it is. That no loop of the code
needs more turns is proved, not assumed. The two retracings differ in the side
and in when the change is absorbed, so they are one `RetraceStep`. The members of
a removed node are reset: `Insert` sets all of them before they are read.
`InOrder` and `Height` are what the properties speak of.

**CanTimings.** Pure arithmetic: the search of the number of quanta is the
highest divisor, the segments follow from it, and `Computed` says when the
function returns true. No run: what it computes is proved, for all inputs.

## 3. Runs

| Run | Module / cfg | Shows | Bounds and why they suffice |
| --- | --- | --- | --- |
| `ring_buffer_overfull` | `RingBuffer` / `RingBufferOverfull.cfg` | Violation: see finding 1. | 3 slots, 2 elements. |
| `fdcan_rx_paced` | `FdcanRx` / `FdcanRxPaced.cfg` | Pushes and pops are atomic, the ring is a FIFO queue whose indices agree, and every accepted frame is delivered, once and in order, under every preemption. | 3 slots, FIFO of 2, 5 frames: more frames than slots, so both indices turn, and `process()` leaves frames behind. The properties of the ring are proved for every size. |
| `tx_queue` | `MCTxQueue` / `TxQueue.cfg` | Bookkeeping of queue and heap, wholeness and order of transfers, transfer-ID count. | One-frame responses and three-frame messages, 3 places, 4 fragments of which reception takes some: a push fits, meets a full queue, or runs out of heap after 0, 1 or 2 frames. Five pushes wrap the counter (4) and the field (2). |
| `bxcan_tx_early` | `MCBxcanTx` / `BxcanTxEarly.cfg` | Order on the bus, no overwritten mailbox, no hole in a transfer but by an abort, the stale frames and only they are aborted; eventually drained. | Three CAN IDs and four frames: all three mailboxes are busy and a frame waits, one port has two frames, so a frame is refused behind one of its own ID and behind a more urgent one. Timeout of 1 tick, 4 ticks of time. |
| `bxcan_tx_wrap` | `BxcanTxWrap.cfg` | Violation: finding 2. | as early, with a clock that starts again |
| `rx_session_early` | `MCRxSession` / `RxSessionEarly.cfg` | Only whole transfers, in order, none twice; every intact one; no leak; no buffer is overrun when the extent changes; the timeout admits a repeated transfer-ID. | Transfers of up to 3 frames with an extent of 0, 1 or 2 chunks (so some have no buffer and some are truncated) that changes on the way, and anonymous ones in between; transfer-IDs modulo 4 wrap; time passes the timeout. |
| `scheduler_early` | `NodeScheduler` / `NodeSchedulerEarly.cfg` | Heartbeat without drift, port list not starved, updates announced, also when the queue refuses a list. | Periods 9 and 20 have many phase relations within 40 ticks; calls are up to 2 ticks apart. |
| `scheduler_wrap` | `NodeSchedulerWrap.cfg` | Violation: finding 3. | The clock wraps at 44, twice within 90. |
| `dispatch` | `MCDispatch` / `Dispatch.cfg` | Who asked for a transfer gets it and nobody else does, requests are answered to their senders, the port list is true. | Three subscribers for two free places, so the table fills; ports that are unset (0, 65535), the number of a service and of a subject (430), the last subject (8191) and an ordinary one; a peer with and one without node-ID; transfers to this node, another and all; two publishers and a table of one. Subscribers are symmetric. |
| `registers` | `MCRegisters` / `Registers.cfg` | A configuration that was stored and read back lasts, and so does a factory reset. | One client with a register of its own, another register, an operator; 5 requests each, so that each step can be repeated, one loss and one failure of the storage or the power. |
| `o1heap` | `MCO1Heap` / `O1Heap.cfg` | The chain tiles the arena, the bins hold what is free, the heap's own check holds, and it is a `malloc`. | An arena of 7 smallest fragments, which is no power of two, so the first fragment is never whole; requests of 0, of each size class, and of too much. Every order of allocations and frees with up to 7 blocks out, so that each kind of split and merge happens next to each other. |
| `cavl` | `MCCavl` / `Cavl.cfg` | Links, balance factors and order through every insertion and removal. | 12 nodes, two with one key: every AVL tree of up to 12 nodes, the size from which on a removal rotates twice on its way up (a minimal tree of height 5 has 12 nodes). |

`CHECK_DEADLOCK FALSE` is set in the runs of `RxSession` and `NodeScheduler`
because time is bounded by `MaxClock`, and in that of `Registers` because
requests are bounded by `MaxSends`: their behaviours end when the bound is
reached. All other runs check for deadlock.

The specifications called `EarlySpec` are the code before its clock wraps: in
the wrap deadlines and timeouts are wrong (findings 2 and 3), so the other properties are
checked up to it. `PacedSpec` restricts the environment, not the code: the
producer never finds the ring full. `PromptTick` in `BxcanTx!Spec` lets no tick
pass while a frame has been stale for a tick, so that finding 2 is not the
effect of a main loop that stalls.

One assumption on constants is worth a word: `4 * MaxGap < Period` in
`NodeScheduler`, a main loop that comes round at least four times per
heartbeat (1 s). With a slower one, late heartbeats would take every turn.

`TimeoutReadmits` belongs to these properties, and so no run covers the wrap of
the receive timestamp (`cyphal.cpp:62`), the product of finding 2 once more.
After it a timestamp is smaller than the one the session keeps, and the
transfer-ID timeout is not recognised until the clock has caught up: a sender
that restarts with the transfer-ID its session used last, or has half received,
has its first transfer dropped. With `SPECIFICATION Spec`,
`ClockModulo = 4` and `MaxClock = 6` in `RxSessionEarly.cfg`, TLC refutes
`IntactIsDelivered` and, taken alone, `TimeoutReadmits`.

There is one sender in the run of `RxSession`. Sessions of two senders share
only the heap, and what another session does to the heap is what `OthersTake`
and `OthersGive` do; the module itself has a set of senders.

### Properties

*Safety.* `PushAndPopAreAtomic`, `DeliveredInOrder` (FdcanRx);
`SizeCountsFrames`, `HeapIsConserved`, `TransfersLeaveWhole`,
`TransferIdCountsPublications` (TxQueue); `BusKeepsOrder`, `NoFrameVanishes`,
`HolesAreAborted`, `NoEarlyAbort`, `StaleFramesAreAborted` (BxcanTx);
`HeapIsConserved`, `DeliveredWhole`, `NoOverrun`, `IntactIsDelivered`,
`TimeoutReadmits` (RxSession);
`HeartbeatOnSchedule`, `PortListOnSchedule`, `UpdateIsAnnounced`
(NodeScheduler); `EveryoneIsServed`, `NobodyElseIsCalled`,
`ClientGetsItsAnswer`, `PortListIsTrue` (Dispatch); `ConfigurationLasts`,
`ResetLasts` (Registers); `ChainTilesArena`, `BinsHoldFreeFragments`,
`SelfCheckHolds` (O1Heap); `BalancedAndLinked`, `AnswersByOrder` (Cavl). Each
state machine defines one type invariant; a run checks it where a theorem needs
it or a bug in the code could break it.

*Refinement.* `RingBuffer!PacedSpec` implements `OverwritingFifo` with the
mapping `q <- Contents` (the slots from `head` on). `FdcanRx!ReceiveSpec`
implements `RingBuffer!Spec` with the identity. `O1Heap` implements `Malloc`, where a refusal is
allowed only when no gap between the blocks holds the fragment that is asked
for: requests are rounded up to powers of two, so every free fragment that is
large enough stands in a bin that the search considers. `Cavl` implements
`SortedQueue` with the in-order walk as the queue: it is what `TxQueue` assumes
when it keeps one sequence for each port. That `BxcanTx` is a transport of the
kind `TxQueue` allows is not a property: its actions are conjunctions with
actions of `TxQueue`, so it holds by construction.

*Liveness.* `EveryFrameDelivered` assumes `WF(Isr)` and `WF(Main)`: a pending,
unmasked interrupt is served, and the firmware calls `process()` for ever
(`FrameArrives` has no fairness). `EventuallyDrained` assumes `WF(Driver)` for
the same reason; `WF(CarryOutAbort)` and `WF(LeaveBusOff)`, what the hardware
does by itself (`MCR.ABOM` is set by the driver); and `SF(BusStart)`,
`SF(BusSent)`: a bus on which other nodes win arbitration and frames are
destroyed, but which again and again lets this node's frame through. Weak
fairness would not do, as errors disable both steps over and over; without any
fairness of the bus no property of this kind can hold. Publications have no
fairness and are bounded by `MaxPushes`.

### Findings

1. **`ring_buffer.hpp:23`** (`ring_buffer_overfull`). After a push into a full
   buffer `size` stays above the capacity for good: each overrun adds one to
   it. Afterwards `pop` returns elements that were popped before. The comment
   promises "Overwrite head element if there is no free space". In the FDCAN
   driver this happens when more than 40 frames wait.
2. **`platform_specific/bxcan/cyphal_transport_can.cpp:46`** (`bxcan_tx_wrap`).
   Milliseconds times 1000 in 32 bits wraps every 71.6 minutes. A deadline
   computed just before the wrap lies a turn ahead, and a frame that is not
   acknowledged is not aborted after 100 ms.
3. **`cyphal.cpp:70`** (`scheduler_wrap`). The heartbeat deadline wraps up to a
   second before the clock. In between, every call of `process()` publishes a
   heartbeat and advances the deadline by a second, so after the wrap the node
   is silent until the clock catches up with it.
*Met on the way, without a run.* `bxCANPop` releases the entry of the receive
FIFO (`bxcan.c:703`) before it tests the identifier register (`bxcan.c:709`),
which shows the next entry by then, or nothing. The remark at `canard.cpp:1111`
that the frame of highest priority is always a leaf is not so (the minimum may
have a right child); `canardTxPop` does not rely on it. A TX item takes a whole
fragment of a power of two, so the heap may be exhausted long before the queue
has reached its capacity.

## 4. Proofs

TLAPS proves the following for all values of the constants, from the
assumptions named in the modules:

| Assumption | What it says, and why the code justifies it |
| --- | --- |
| `MaxSizeAssumption` | The capacity of the ring is positive: the template is instantiated with 40. |
| `TxQueueAssumption` | Ports are natural numbers, subjects and responses are disjoint, a transfer has at least one frame, and the modulus of the counter is a multiple of that of the field, as 256 is of 32. |
| `BxcanTxAssumption` | The same of the queue, and a timeout (100 ms) shorter than a turn of the clock (71.6 minutes). |
| `RxSessionAssumption` | Finitely many senders (`CANARD_NODE_ID_MAX` + 1 sessions), transfers of at least one frame, a transfer-ID modulus of at least 2 (it is 32); and the values for "none" are none of the others. |
| `DispatchAssumption` | Node-IDs, ports and transfer-IDs are in the ranges of libcanard; the table of subscribers has room for the four services; an application's subscriber is none of the services; a publisher is constructed once; a stray frame has the toggle or the reserved bit of another protocol. |
| `NodeSchedulerAssumption` | Periods are positive and the main loop comes round at least four times in the period of the heartbeat (section 3). |
| `O1HeapAssumption` | The alignment is a power of two, the capacity a multiple of the smallest fragment (`o1heapInit` rounds it down), and there are bins for it (`NUM_BINS_MAX` is the width of `size_t`). |
| `CavlAssumption` | Finitely many nodes, since memory holds no more; a node is a number other than 0, which is `NULL`; keys are natural numbers (CAN IDs, port-IDs), and any two nodes may have the same. |
| `RegistersAssumption` | Each client has a register of its own, and writes another value than the default. |

- **`PacedTypeOK`, `PacedIndicesAgree`** (FdcanRxProofs; the run
  `fdcan_rx_paced` checks the same properties of the ring with the interrupt).
  The inductive
  invariant is `TypeOK /\ IndicesAgree`: neither half is inductive alone,
  because the bounds of `size` are needed for `tail = (head + size) % MaxSize`
  to be preserved and conversely.
- **`PacedIsFifo`.** The ring buffer implements the abstract queue. By
  `PushAppends` a push appends to `Contents` and moves nothing else (the slot
  written is not one of those held, which is `IndicesAgree`), and by `PopTakes`
  a pop takes its head. `AheadArithmetic` holds the modular arithmetic.
- **`PreemptionIsHarmless`** (FdcanRxProofs). Every behaviour of the receive path
  is one of `RingBuffer`, overfull or not. The invariant is `SharingInv`: when
  `pop` has loaded and not yet stored, the interrupt is masked and not running,
  so what was loaded is still what the members hold, and the frames in the FIFO
  are of the type that the ring takes.
- **`SharedTypeOK`, `SharedIndicesAgree`, `SharedIsFifo`.** `RoomInv` (the frames
  in the FIFO have a place in the ring) makes a main loop that keeps up with the
  bus a paced user of the ring, and the theorems about `RingBuffer` apply.
- **`FramesInOrder`.** `OrderInv` says where each accepted frame is: delivered,
  popped (`Pending`), or in the ring, in this order. `PushAppends` and `PopTakes`
  show that it stays so.
- **`TypeCorrect`, `SizeIsExact`, `HeapConserved`** (TxQueueProofs). The
  inductive invariant is `IInv == TypeOK /\ SizeCountsFrames /\
  HeapIsConserved`. The parts need each other: that `queueSize` stays in its
  range when a frame is popped follows only from its being the cardinality of
  a set that is not empty, and `heapFree <= HeapBlocks` follows from the
  conservation. `QueuedAppend` and `QueuedTail` give the cardinality of the set
  of places after a push and a pop; `ChainLengths` what a failed allocation
  leaves.
- **`TransfersStayWhole`.** `TransfersLeaveWhole` is not inductive: it does not
  say that the number of the last transfer is at most the number of pushes.
  `WholeInv` says so. `OutgoingIsMoved` shows that handing a frame to the
  transport leaves `Outgoing` as it is, `WholeSequenceGrows` that a chain
  extends it.
- **`TransferIdsCount`.** The invariant `CountInv` ties the counter to the
  number of pushes modulo `CounterModulo`. The wrap of the counter is harmless
  because of `Nested` (a remainder of a remainder) and `Counting`, lemmas at
  the head of the module, which are derived from the inequality that defines the
  quotient.

- **`MessageRoundTrip`, `ServiceRoundTrip`** (DispatchProofs). What
  `rxTryParseFrame` reads from a CAN ID is what `txMakeCANID` was given, for
  every transfer it accepts from a node that has a node-ID, and the ID passes
  the checks of the reserved bits. The lemmas at the head of the module take a
  field out of a sum: what lies below the field is smaller than its unit, what
  lies above is a multiple of its range. A service transfer to oneself is
  excluded, because the parser rejects it.
- **`UrgentIsSmaller`.** A smaller priority number makes a smaller CAN ID. This
  is what `TxQueue` assumes when it takes the number of a port for its priority,
  and what lets the bus arbitrate.

- **`TimingsAreExact`, `NoLogicError`** (BxcanTxProofs). For every clock and bit
  rate, what `bxCANComputeTimings` returns fits the fields of the register,
  samples within 90% of the bit and gives the bit rate in whole Hz; and the final
  validation, which the code calls a logic error when it fails, does not fail
  for a bit rate that divides the clock. That condition is needed: 36 MHz and
  95 kHz give 14 quanta at a prescaler of 27, which is 95238 Hz, and the
  function refuses, as it should. `Segments` goes through the fifteen numbers of
  quanta, `Highest` makes the search a maximum, and `ClocksOfABit` says that
  prescaler times quanta is the cut quotient.

- **`OrderOnTheBus`** (BxcanTxProofs). `BusKeepsOrder` looks at the bus only.
  What makes it inductive is `OrderInv`: of two frames of one CAN ID, the one
  that waits in the queue is later than the one in a mailbox, and that one later
  than those that were on the bus (`QueueInv`, `MailboxInv`, `BusInv`); no two
  mailboxes are pending with one CAN ID, which is the work of the driver's test
  for priority inversion; and a mailbox that the driver has seen free stays free
  until it writes (`DriverInv`), because only the driver makes one pending.
- **`FramesAreAccountedFor`.** `PlacesInv` says for each frame the driver took
  where it is. Overwriting a pending mailbox would lose one; `DriverInv`
  excludes it.
- **`AbortsAreDue`, `StaleFramesLeave`.** Action properties of `EarlySpec`.
  `DeadlineInv` ties the driver's table of deadlines to how long a frame has in
  fact waited; it is here that the wrap has to be excluded (finding 2).
- **`HolesComeFromAborts`.** A receiver can put a transfer together only if no
  frame of it is missing. `HolesInv` extends `HolesAreAborted` from the bus to
  everything that is `Alive`, in the queue, in a mailbox or on the bus: the
  earlier frames of its transfer are alive or given up. A push adds a whole
  chain (`PushGrows`), a step of the driver moves a frame, and only an abort ends
  the life of one. `OrderInv` then says that what is still to come of a CAN ID is
  later than what is on the bus, so an earlier frame that is missing there was
  given up (`NoHoleIsFilledLate`).

- **`NoFragmentIsLost`, `CopiesFit`** (RxSessionProofs). The invariant is
  `MemoryInv == TypesInv /\ BufferInv /\ HeapIsConserved`. `BufferInv` is what the
  conservation alone lacks: a session has no buffer or one of the current
  extent, and it has one as soon as a chunk was copied. Resubscription keeps it
  because it frees the sessions first. `SessionTypeOK` follows: the bounds of
  the heap are consequences of the conservation.
- **`TransfersComeWhole`.** `OrderInv`: everything delivered is earlier than what
  its sender is at, and a frame that ended its transfer and may come again finds
  a session that expects the next transfer-ID and whose timestamp has not
  advanced, which is why the repetition is refused. The modulus of the
  transfer-ID has to be at least 2 for this, no more.
- **`TimeoutRestartsSession`.** While timestamps do not wrap, that of the session
  is the time at which it took its first frame (`TimeInv`).
- **`IntactTransfersArrive`.** The converse of `TransfersComeWhole`, and the
  largest proof: `IntactInv` relates the transfer-ID of a session, modulo
  `TidModulo`, to the numbers of the sender's transfers (`TidAt`), the toggle to
  the number of chunks (`ToggleAt`), and says that as long as no frame of a
  transfer was missed the session holds exactly the frames sent so far
  (`RunAt`). A transfer counts as missed when the session cannot tell it from a
  repetition (it lies a turn of the transfer-IDs back, and the timeout has not
  passed) or there was no memory for it; `Known` and `EnoughMemory` say so.

- **`HeartbeatsKeepTime`, `PortListKeepsTime`, `ChangesAreAnnounced`**
  (NodeSchedulerProofs). The three are proved from one invariant,
  `SchedulerInv`, since the two publications share a branch. Its point is that a
  branch that was due to publish the list and did not was a heartbeat
  (`ListInv`, `UpdateInv`), and that two heartbeats do not follow each other that
  closely (`BeatInv`), for which four rounds per period are needed.

- **`AllSubscribersAreServed`, `OnlySubscribersAreCalled`,
  `RequestsAreAnswered`, `PortsAreListed`, `DispatchTypeOK`** (DispatchProofs).
  `TablesInv` says that the node's table and the library's trees name the same
  ports, though a tree keeps only the last subscriber of each, that port 0 is
  none of them, and that the services are in both; `LastInv` says what the last
  step was, so that the properties, which speak of its outcome, follow from
  `TablesInv` and the round trips of the CAN ID.

- **`ConfigurationIsKept`, `ResetIsKept`** (RegistersProofs). What a client may
  conclude depends on what its last request was and on everything still on its
  way. `QueueInv` orders that: transfer-IDs grow along the responses and then
  along the requests of a user, up to the number it sent, so the answer to the
  last request leaves no other request behind, and all the requests on their
  way belong to the step the client is at. `StorageInv` builds on it: once a
  store is confirmed, by an answer on its way or one that has arrived, the
  volatile copy holds the client's value only if the persistent one does
  (`StoredAt`), which survives a restart between the store and the read-back;
  `VerifiedAt` and `ResetInv` say what a read-back and a confirmed reset leave.
  No bound on losses, repetitions or faults is used. `RegistersTypeOK` is the
  type invariant.

- **`HeapStaysSound`, `ChainAlwaysTiles`, `BinsAlwaysHold`,
  `SelfCheckAlwaysHolds`, `HeapTypeOK`** (O1HeapProofs). The invariant is
  `HeapInv`: the chain tiles the arena (`Tiled`), the lists hold exactly the
  free fragments (`Listed`), the blocks that are out are the fragments in use
  (`BlocksOut`), and the diagnostics count their bytes. What the properties of
  the run lack, and the induction needs, is that no list runs in a circle: that
  is why a fragment at the head of its list has no other before it, and why what
  `unbin` leaves behind is a list again. It is stated without recursion: every
  set of listed fragments has one whose predecessor is outside. The links change
  in steps that pass through heaps that are not sound (a fragment is off the
  lists and not yet in use), so `Arena(h, F)` says that `h` is sound except that
  its lists hold `F`. There is one lemma for each operator of the code
  (`UnbinArena`, `RebinArena`, `AbsorbArena`, `CutArena`), which `ServedArena`
  and `FreedArena` put together for the four merges and the split.
- **`HeapIsMalloc`.** The step simulation of the refinement. A block that is lent
  overlaps none that is out, since both are fragments of one chain. The other
  half is that a refusal is justified: where a gap begins, a free fragment
  begins and fills it (`GapIsFree`, by the absence of free neighbours), and a
  free fragment that is large enough for the rounded size is in a bin that the
  search considers (`RoomIsFound`). The logarithms are part of it: a size
  between two powers of two stands in the bin of the lower one, and the request
  is a power of two itself (`Suits`). That `pow2` is the function its recursion
  says (`Pow2Def`) and that it grows (`Pow2Monotone`, `Pow2Product`) is proved by
  taking the least number that is a counterexample (`LeastNatural`), which needs
  no induction theorem with an operator for a parameter.

- **`TreeStaysSound`, `TreeHasItsType`, `TreeStaysBalanced`,
  `TreeAnswersByOrder`** (the second part of TxQueueProofs). The links alone do
  not say which nodes a search will meet, and a proof that followed the recursion
  of `InOrder` and `Height` would need an induction for every rotation. `TreeInv`
  says instead that there are a set `M` of members, a sequence `o` of them, for
  each member its position in `o` and the interval of positions its subtree fills
  (`v`), and a height (`H`), that explain the tree: a left child fills the
  interval from its parent's left end up to the parent, a right child that from
  the parent on (`Shape`), the height of a node follows from its children's and
  the balance factor is the difference (`Heights`), and keys ascend along the
  positions (`Ascending`). Each step then has a short account: a rotation changes
  two or three intervals and no position, so no order (`RotateHolds`,
  `SingleHolds`, `DoubleHolds`); a leaf opens a gap of one position and widens
  the intervals above it (`NextHolds`); a removal closes one (`RemoveHolds`). The heir of a node
  that has two children is the member at the next position, so that it may take
  over its place, interval and balance.
- **The loops end.** Every turn of a descent enters a smaller interval and every
  turn of a retracing leaves it for a larger one; there is at most one position
  for each node. `LoopHolds` makes of this, for the descents, that `Repeated` has
  reached the end of the loop after `Cardinality(Node)` turns, and `RetraceHolds`
  does the same for the way up. While a retracing is under way the tree is sound but for one subtree, whose
  height has changed without its parent knowing: `Retracing` says so, and that
  the change is by one.
- **`TreeIsSortedQueue`.** The step simulation of the refinement: the position at
  which a new node was hung is the one behind all nodes of its key and before all
  greater ones, and `InOrder` before and after are `o` before and after.
  `InOrderIs` and `HeightIs` connect the recursive functions of the model with
  `o` and `H`: functions that satisfy the recursions are written down from `o`
  and `H`, and by `BottomUp`, from lower nodes to higher ones, no others do.

TLC does not check `TreeInv` itself, which quantifies over all views of a tree;
its consequences are what the run `cavl` checks, the two invariants and the
refinement.

Model-checked only, and why:

- liveness (`EveryFrameDelivered`, `EventuallyDrained`), which these provers do
  not cover;
- the properties that the three runs with a wrapping clock or an overfull ring
  refute.

## 5. Not modelled, and why

- SocketCAN: thin calls of the operating system that keep no state; their
  answers are among the arbitrary answers in `TxQueue`.
- The receive FIFOs of bxCAN: polling of registers, with no state in the driver.
  `get_rx_queue_size` returns the constant 3 there, so phase 1 tries three
  frames. Writing the configuration and filter registers.
- `FDCAN::transmit` beyond accepting or refusing a frame, and `init` of the
  transports: register configuration.
- Register.List and the texts of GetInfo: they change no state; the responses
  are labelled in `Dispatch` like the others. String registers, whose values
  only the parameter storage, which is not part of the repository, interprets. A
  malformed request to Register.Access, which is answered from the previous one
  (`cyphal_registers.cpp:78`): what is left there is up to generated code that
  the repository does not contain.
- A subscription before `Cyphal::init`: every example and the drivers of the
  examples subscribe after it.
- The timers of the actuator (`udral/actuator.cpp:63`) and of the battery
  interface: each is one comparison with the clock that no other
  state depends on, so a model would restate it. How such a comparison fails at
  the wrap is shown by `scheduler_wrap`.
- Serialization, data type definitions, examples, scripts: no state of the node.
- The uptime (`cyphal.cpp:71`), a value derived from the clock, is kept in
  `NodeScheduler` without a property of its own.
- The heap and the tree inside `TxQueue` and `RxSession`: there a heap is a
  number of fragments, of which an allocation may find none, and a tree is its
  order. `O1Heap` and `Cavl` justify the two abstractions, each on its own; an
  allocation that fails because free memory is in pieces is a failed allocation
  like any other there.

## 6. Plan

All components that keep state are modelled, and every safety property and every
refinement that a run checks is a theorem. What is left:

1. Shorter proofs where they are long: `IntactTransfersArrive` repeats the cases
   of `canardRxAccept` that `TransfersComeWhole` goes through.
2. `TxQueue` over `Cavl` and `O1Heap` themselves instead of over the order and
   the number of fragments that the refinements show them to be.
