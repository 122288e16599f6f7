# A TLA+ model of the ERNIC RDMA software stack

This directory models the software that drives the ERNIC RDMA engine
(`src/code/meta-user`): the kernel driver `xib`, its memory managers and the
users of both. File names below are relative to
`src/code/meta-user/recipes-modules/xib-module/files` unless they say otherwise.

## 1. Inventory

| Part | State | Operations | Interaction |
| --- | --- | --- | --- |
| Kernel QP receive queue (`verbs.c`) | cursors `prod`, `cons`, `gsi_cons`, `rq_wrptr_db_local`, `rqe_list`, receive buffers, doorbell word, `RQ_CONS_IDX`, `imm_inv_data` | `post_recv`, `xib_pop_rq`, receive half of `xib_poll_kernel_cq`, `xib_rst_rq`, `xib_drain_rq` | consumer under `rq_lock`, poll under `cq_lock`, hardware and DMA interrupt under neither |
| Kernel QP send queue (`main.c`, `rnic.c`, `verbs.c`) | `sq_cmpl_db_local`, `send_cq_db_local`, `wr_id_array`, `pl_buf_list`, SQD list, counters, producer and head registers | `__xib_post_send`, `xrnic_send_wr`, send half of the poll, SQD flush | consumer under `sq_lock`, poll under `cq_lock`, hardware under neither |
| Hardware handshake (`main.c`) | the registers the handover programs | `xib_enable_hw_accl` | called from `modify_qp` with no lock |
| QP life cycle (`main.c`, `verbs.c`) | QP state, bitmap of indices, `qp_list`, `gsi_qp`, `QP_CONF`, ring pointers and the override bit | create (GSI, kernel, user), modify, query, destroy with `xrnic_reset_user_qp` | rdma core threads, interrupt handlers |
| Interrupts and recovery (`rnic.c`) | `INT_STAT`, bits per kind and QP, ring of fatal errors, tasklets | `xib_irq`, event loops, `xib_fatal_event`, `xib_fatal_handler`, `xib_cnp_handler` | all QPs |
| GSI QP (`rnic.c`, `main.c`, `verbs.c`) | the rings of QP1, one send buffer for all frames | `xib_gsi_post_send`, tasklet, `xib_gsi_poll_cq`, `send_out_cnp` | tasklet, poll, posts and the tasklets of other QPs |
| AXI DMA notifications (`axidma.c`) | ring of buffer descriptors | `axidma_rq_recv` | writes `imm_inv_data` of a QP, invalidates regions |
| PD and MR (`main.c`, `verbs.c`, `rnic.c`) | two bitmaps, the table of regions in the hardware | alloc, reg, map, dereg, remote invalidate, rebase | consumers, peers, handshake driver |
| Flow control files (`main.c`) | three registers | nine pairs of show and store | sysfs |
| BRAM and coherent memory (`mem.c`) | sorted free list, allocated blocks, `free_mem` | `alloc_mem`, `free_mem_alloc`, fall back to DMA memory | every buffer of the driver |
| Kernel memory manager (`xib-kmm`) | nodes and their sorted chunk lists | ioctl alloc and free, open, close, kernel allocations | user memory manager |
| User memory manager (`recipes-apps/umm`) | table of chunks with block bitmaps, one mutex | create and delete a context, alloc, free, queues | ioctls of the kernel manager |
| Handshake driver (`hw-hs/files/hw_hs.c`) | context table, round scalars, registers of QPs in the handshake | ioctls to configure, commit, start, abort, reset; open, close | engine, `qp_list` of the driver |
| Handshake test (`xhw-hs-server`, `xhw-hs-client`) | list of connections, memory, configured QPs; table of QPs of the client | three threads on each side, ioctls of a handshake driver | connection manager, engine |
| Ping test (`recipes-apps/xrping`, `host_apps/xrping`) | the same, and the state and buffer of each ping | three threads on the server, four on the client | connection manager, verbs |
| Perftest server (`xkperftest-server`) | two connections, one work item each | cm handler, completion worker, exit | verbs of the driver |
| User provider (patches), other test programs, AXI timer, PL allocator | | | clients of the above |

What is hard here: the rings have no common lock, so the consumer, the poll, the
interrupt and the hardware interleave freely; a ring pointer runs over
`0..max_wr` or `1..max_wr` and wraps lazily in one place and eagerly in another;
full and empty rings look alike; a post can fail half way; the state word is read
once and changes at any time; memory managers are shared by processes that may
close without freeing. `PROJECT.json` lists the hazards one by one with the line
where each bites and the property that would catch it.

## 2. Modules

| Module | Models |
| --- | --- |
| `XibRecvQueue` | the receive queue: one action per loop iteration of `post_recv`, of the pop and of the report, plus the hardware and the DMA interrupt |
| `RecvService` | what a receive queue promises, with no ring in it |
| `XibRecvQueueCorrect` | the inductive invariant of `XibRecvQueue` and the mapping under which it implements `RecvService` |
| `RingLemmas` | arithmetic of positions in a ring, insertions and removals in lists, least counterexamples (proved) |
| `XibRecvQueueProofs` | the theorems on `XibRecvQueue`, the refinement of `RecvService` included |
| `XibSendQueue` | the send queue with failures, state changes and the SQD list |
| `XibSendQueueProofs` | the theorems on it, for every queue |
| `XibHwAccl` | the handover of a receive queue to the hardware handshake |
| `XibQpLife` | the life of QPs against interrupts, tasklets and fatal recovery |
| `XibQpLifeCorrect`, `XibQpLifeProofs` | its inductive invariants and the theorems |
| `XibGsi` | QP1: datagrams, sends through the shared buffer, congestion notifications, also in full rings |
| `XibGsiProofs` | the theorems on it |
| `XibMr` | protection domains and memory regions |
| `XibBram` | the block RAM free list, with calls that overlap |
| `XibPfc` | the flow control attributes and their registers |
| `HwHs` | the handshake driver, the engine and the QPs it takes |
| `UmmBitOps` | the bit map arithmetic of the user memory manager, with a reference definition of first fit |
| `XibUmm` | the user memory manager in one process: threads, the list of chunks, the blocks of a chunk |
| `XibKmm` | the kernel memory manager: one region, its holders, the count of open files |
| `MemoryProofs` | the theorems on the two memory managers and the bit maps |
| `KPerf` | the kernel perftest server |
| `XhwHs` | handshake server and client, composed with the driver calls of the server |
| `Xrping` | ping server and client, composed |
| `MCXibRecvQueue`, `MCXibQpLife`, `MCXibUmm` | instances for TLC |
| `MCDriverUmm` | the parts of `MCDriver` and `MCXibUmm` in one run |
| `MCXibSendQueue` | three instances of `XibSendQueue`: the ring, failing posts, the SQD list |
| `MCXibKmm` | `XibKmm` and, through `MCUmmBitOps`, the bit operations |
| `MCDriver` | `XibMr`, `HwHs`, `XibBram`, `XibPfc` and two instances of `XibGsi` |
| `DriverProofs` | the theorems on the parts of `MCDriver`: regions, handshake driver, flow control, block RAM, and QP1 through `XibGsiProofs` |
| `MCConsumers` | `KPerf`, `XhwHs` and `Xrping` |
| `SystemProofs` | the theorems on the parts of `MCConsumers`, and those on `MCXibSendQueue` through `XibSendQueueProofs` |

`MCXibSendQueue`, `MCXibKmm`, `MCDriver`, `MCDriverUmm` and `MCConsumers` put parts
side by side that share no state: `part` (`program` in `MCConsumers`) is chosen at the
start and only that part moves, so the state space is the sum of the parts, and a
property speaks of its part only.

### How state and actions correspond to the code

Variables have the names of the fields and registers they model. Work requests
and frames are numbers in the order the queue accepts them, so "the third receive
got the third frame" is an equation. `posted`, `arrived`, `popped`, `sent`,
`executed` and `reaped` are history: no guard of the driver reads them.

A call that takes several steps under a lock keeps a record of where it is
(`poll.pc`, `post.pc`). Two calls under the same lock do not overlap; calls under
different locks, the hardware and the interrupt do. The copy of a frame and the
move of the cursors are separate steps, as are filling a send entry and ringing
its doorbell; between them anything else may happen.

Receive queue: `PostRecv` and `PostRecvTooLong` are the two ends of an iteration
of `xib_kernel_qp_post_recv`; `PollBegin` reads the doorbell; `PopCopy` and
`PopConsume` are the body of the loop of `xib_pop_rq`; `Report` is one iteration
of the first loop of `xib_poll_kernel_cq`. `HwReceive` is external: it fills the
next buffer and publishes a pointer over `1..max_wr`, the convention
`axidma_rq_recv` relies on (`rq_pi_ptr - 1`). `axidma_rq_recv` serves one
notification.

Send queue: `PostBegin` is the entry of `__xib_post_send`; `PostWr` fills an entry;
`xrnic_send_wr` rings; `PostWrFails` is the exit after a failed staging (with the
entry already written); `PostSqd` and `PostSqdFails` are the SQD branch. `PollBegin`
reads the completion head, `Reap` is one completion, `Flush` one request of the
SQD list. `WqeOpcode` keeps the `u8` of `struct xrnic_wr`. Only sends are staged:
the macro tested before the staging of reads and writes is misspelled and never
defined, and the model follows the build.

Bit maps: a map is the set of its 1 bits; `find_zero_bits` and `update_bit_map`
keep the walk over ints, with the width of an int as a parameter. One step of
`scan` is one pass through the inner loop of the search.

User memory manager: a call locks and unlocks the mutex several times; each
stretch is an action. `AllocMem`, `FreeMem` and `FreeChunk` are the look-up
(`get_chunk_info`) of the three calls, `ReserveMemBlocks` and `ClearMemBlocks`
their work under the mutex; `CheckInUse`, `IoctlFree`, `ReadListHead` and
`DeleteChunk` are the rest of `free_chunk`, of which only the last holds the mutex.
Looking up an id that is not listed changes nothing and is left out. A step that
would touch a chunk after its `free()` sets `uaf` and ends the behaviour.

Kernel memory manager: `alloc_mem` and `free_mem` hold one spin lock throughout
and are one step each. `Fits` is the set of places in the list the loop accepts,
and the loop takes the first. `StartAt(0)` is the start of the first chunk, as
in the code, not the base of the region. The reads and writes of the volatile
`file_open_cnt` are separate steps. A `kmalloc` that fails changes nothing.

QP life cycle: every QP has a thread that calls create, modify and destroy for it;
`pc` says where it is. `CreateLoad` and `CreateStore` are the two halves of
`__set_bit` on the bitmap, which the unlocked release of a destroy can fall into.
`DestroyStop` to `DestroyDone` are the steps of `xrnic_reset_user_qp`, the disable,
the free and the removal from the list; the pointers of the rings only take the 0
while the override is on (`Zeroed`). `IrqEntry` reads and clears `INT_STAT`,
`IrqEvent`, `IrqMad`, `IrqFatal` and `IrqClear` are the handlers in the order of
`xib_irq`. `DestroyDone` sets `gsi_qp` to NULL before `GsiTaskletKilled` waits for the
tasklet, as `xib_destroy_qp` does. A step that would use a NULL or freed QP sets `crash`.

QP1: `HandlerBegin` and `HandlerFrame` are the tasklet, with the eager reset of its
pointer, against the hardware's pointer over `1..max_wr`; a frame is the number of its
request, and what the hardware sends is what `send_sgl` holds at that moment. Posts
and notifications test for no room, as in the code, so both may overrun the ring.

Block RAM: mem.c takes no lock, so a call is two steps: `AllocFind` is the search,
`alloc_mem` the split and the table, `FreeBegin` the tests of `free_mem_alloc` and the
step of that name the merge; a call may fail in between (`AllocFails`, `FreeFails`).
Rounding and splitting unit are two constants, as 256 and 4096 are in the code, so a
rest may go out with a grant; it is `lost` when the caller frees what it asked for.

Memory regions: a registration loads the bitmap under the lock (`TakesIndex`),
stores it (`RegStore`) and programs the entry (`RegProgram` or `MapMrSge`); the DMA
interrupt clears bit and entry without the lock (`AxidmaInvalidate`).

Handshake driver: `ernic` holds the registers of the QPs, `eng` the engine's table.
A commit writes the engine's set and, with `rebind`, the QP. `hh_reset` runs at
`HH_RESET` and at close.

Consumers: each thread is a program counter; a lock is a variable that names its
holder, and a thread that waits for a message with the lock held keeps it. An event
queue stands for the event channel of the connection manager. A poll that meets a
completion with an error returns and its caller goes on (`MainPollFails`, `PingError`).
A handler that returns an error makes the connection manager destroy the identifier,
also one that was accepted (`EstablishedFails` of `KPerf`). A process that ends
or is killed gives back its memory, its device file is closed, and its peers see
their connections go.

### The limit on the consumer

The driver reports `max_wr` as the capacity of each ring and checks nothing.
With `max_wr` requests outstanding a full ring looks like an empty one to
`xib_get_rq_recd`, to `cons != gsi_cons` and to `send_cq_db_local !=
cur_send_cq_head`. The properties are stated for consumers that keep one entry
free (`RecvCredit < rq_max_wr`, `SendCredit < sq_max_wr`). QP1 has no such limit in
its model; what is claimed of it ends where its rings are overrun (`rewound`, `full`).

### Provisos

The models of the memory managers, of QP1 and of the programs exclude nothing of the
following, and some properties hold only until it happens, because the code does not
survive it. A history variable records it, and the property says so:

- `overlap` in `XibUmm`: a `free_chunk` overlaps in time with another `free_chunk`,
  or with a call on the same chunk. The in-use check (umm.c:164) is made without
  the mutex, and `delete_chunk` reads the head of the list before it locks
  (umm.c:63), so memory of a returned chunk stays in use, or a freed chunk is read.
- `hole` in `XibKmm`: the first chunk of a region was freed before the others. The
  next request that fits before the new first chunk is placed on top of it
  (xib_kmm.c:280).
- `clash` in `XibKmm`: two processes are in open or close at once. A lost update
  of `file_open_cnt` lets a close free chunks of a process that is still there.
- `spoilt` in `XibBram`: a freed block is joined to one that it does not touch
  (mem.c:131), DMA memory at the end of the block RAM is freed into the manager
  (mem.c:320), or two calls overlap. Rests that nobody frees are no proviso: they are
  counted in `lost`, and with requests of 1 KB a block RAM of 256 KB serves 253 of them.
- `rewound` in `XibGsi`: the tasklet of QP1 counts a whole turn of the ring again,
  since it has set its pointer to 0 while the hardware's still reads `max_wr`
  (rnic.c:454). It then reports `max_wr` frames that did not land.
- `full` in `XibGsi`: an entry of the send ring is used again before it was polled.
- `gone` in `KPerf`: the connection manager has destroyed an identifier it had
  accepted, after `ib_modify_qp` failed (xkperftest_server.c:356). When its address is
  used again, the test for duplicates misses it, and a third context is written.
- `blind` in `XhwHs`: the server's poll met an error and it configures the engine from
  a buffer that was never filled (xhw_hs_server.c:136). What is claimed then is only
  the server's own memory. `Taken` is a constant beside it: QPs that other programs
  hold. With `Taken # {}` the number the server guesses for a QP (`ctx.qp_num`,
  xhw_hs_server.c:515) is not that of the QP, and the ring of another QP is set.

Without its proviso each property is violated within a few dozen steps. In `UmmBitOps` two
more limits show: `find_zero_bits` misses a run that begins after a used bit at the
start of an int when the int before ends with zeroes (map `{1, 3}`, six bits of
ints of three, two blocks), and it accepts a run past the end of a short last int
(run `umm_chunk_end`).

### What callers and hardware are assumed to respect

The later modules take a set `Discipline`; leaving a name out of it in the cfg
removes that assumption, and the property named here then fails.

| Name | Assumes | Otherwise |
| --- | --- | --- |
| `booted` | no RC QP before the probe has set index 0 aside | an RC QP gets QP1's index (`IndexIdentifiesQp`) |
| `gsi` | QP1 exists around all RC QPs | CNP and datagrams meet no QP1 (`NoCrash`) |
| `quiet` | a QP is destroyed after its traffic and interrupts | handlers meet a freed QP (`NoCrash`) |
| `serial` | one destroy at a time | the shared override bit is off too early (`NewQpStartsAtZero`, with four QPs: two that go and one that takes an index over) |
| `settled` (QPs) | no fatal error is served during the change to RTR | a stopped QP is enabled again (`FatalStopsOnlyFaulty`) |
| `rc` | no fatal error on QP1 | its fatal tasklet was never initialised (`NoCrash`) |
| `once` | a region a peer invalidates is not deregistered as well | the entry of the next owner is withdrawn (`EntrySound`) |
| `forget` | a region whose mapping failed is left alone | its index is released twice (`IndexNamesOneMr`) |
| `dma_last` | index 0 is free when a DMA region goes | another region's index is released (`IndexNamesOneMr`) |
| `own_key` | the handshake driver gets the key of a live region | another entry is rebased (`EntrySound`) |
| `distinct`, `keep`, `settled`, `fresh` | contexts name different QPs and rings, config-only commits keep them, none is changed during a round, rounds use contexts committed since the last reset | engine and ERNIC disagree (`EngineAndErnicAgree`) |
| `one_qp` | a context is rebound to another QP only after a reset | the first QP stays in the handshake (`ClosedRestoresQps`) |
| `outlive` | QPs outlive the open file | a reset follows a missing QP (`ClosedRestoresQps`) |

One is a constant: `Overlap = FALSE`, stores of one register do not overlap.

QP1's frames. All frames of QP1 are built in one buffer, and `send_sgl_busy`, which
`xib_gsi_post_send` tests (main.c:1717), is set nowhere. As soon as two sends are in
flight the first leaves with the frame of the second; `wire` in `XibGsi` shows it. No
property claims anything of these frames, because with a single send in flight nothing
could go wrong.

## 3. Runs

| Run | Question | Result |
| --- | --- | --- |
| `recv` | ring of 4, three receives outstanding, six posted, immediates: order, phantom frames, overruns, pending count, immediates, the inductive invariant, and, under fairness, the refinement of `RecvService` with "every frame is reported" | holds (357,229 states) |
| `send` | ring of 4 with chains; ring of 2 with posts that fail with `ENOMEM` or `EINVAL`; the SQD list with failing allocations: is what the hardware executes and the poll reports what was posted, do staging buffers stay with their requests, is the list exact, does every send and every post end? | holds (937,281), with `sq_mem = "ps"` where reads are mixed in |
| `kmm` | two processes and a kernel module, four pages, four allocations, opens and closes racing; every bit map of up to eight blocks with ints of three bits | holds (2,965,766; provisos above) |
| `qp_life` | QP1, a kernel QP and a user QP on three indices, two interrupts of any kind, an error ring about to wrap: indices, interrupts, buffers, recovery, ring pointers of a new QP | holds (746,436; disciplines above) |
| `driver` | regions, handshake driver, block RAM, flow control, QP1; beside them two threads of the user memory manager with three chunks of two blocks and failing mappings: grants, counters, list, chunks in use | holds (1,529,746, of which 743,437 are the user memory manager's; provisos above) |
| `consumers` | perftest server, handshake test and ping test, three QPs, with every failing call, completions with errors and a killed server: connections and what the exit leaves, messages answered, the engine's memory, no QP left in the handshake, pings | holds (1,151,057; provisos above) |
| `sqd_limit` | is a request of a successful post in SQD kept? | no: main.c:1855 |
| `rdma_staging` | with the default `sq_mem`, is a staging buffer freed only if it was allocated? | no: verbs.c:1143 against main.c:1921 |
| `umm_chunk_end` | does memory given out lie inside its chunk when the last int of the map is short? | no: bit_ops.c:94 |
| `hw_accl_pending` | does the handover count the pending frames? | no: main.c:1315 |
| `irq_lost` | is every interrupt served that arrives while a fatal error is handled? | no: rnic.c:555 |
| `hw_hs_wait` | does the server of the handshake test get the message it waits for? | no: xhw_hs_server.c:680 |

Bounds. Depths are powers of two from 2 on, as `check_qp_depths` requires; 4 is
the smallest where two requests are in flight on either side of the wrap, and the
numbers of requests let every cursor pass the end of its ring. `MaxEntries = 2`
lets a poll run out of budget with completions left. `MaxRecv`, `MaxSend` and
`MaxChain` bound the behaviour; no action of the driver depends on them. Ints of
three bits and eight blocks give runs over two borders of ints and every length of
the last one. Three chunks are the fewest with a first, a middle and a last one;
with four allocations of one or two pages a region of four pages gets gaps before,
between and after chunks, and requests that fit in none. `IdMod` exceeds the number
of allocations: a wrap takes 2^24 of them. `MaxAllocs` bounds the behaviour, and
`WordMod` keeps distances of overlapping chunks apart from real ones.
Three QPs are the fewest for which a QP in setup, one in the test and one still
waiting meet; two interrupts are the fewest of which one can arrive while the other
is served, and `ErrorsBefore = 3` puts the error ring at its end. The block RAM has 72
units, rounding to 2 and a splitting unit of 32; of its sizes 36 halves it, and 7 is
rounded and leaves in turn a rest that is split off and one that is swallowed. Two
callers are the fewest that overlap, and three buffers give one between two others.
DMA memory starts at the end of the block RAM (72) or beyond. In `driver`, QP1 has a
ring of three for five datagrams in one part and a ring of two for three sends and
notifications in the other, so the send ring is overrun. In `consumers` three
identifiers meet two contexts, three requests let one follow a failed one, and the
board has one QP more than the client wants. `hw_hs_wait` has two QPs and no failures.

Beside the runs, seen while modelling: an operation code the driver does not support
is stored in a `u8` before it is tested for being negative (main.c:1973), so the test
never rejects it; `wr_id_array` is allocated with 8 bytes per entry of 16
(verbs.c:431); the SQD list is extended under `sq_lock` and flushed under `cq_lock`
(verbs.c:1206), so a request linked during a flush can be lost; two polls of a QP
with two completion queues hold different locks and walk the same rings
(verbs.c:1075); `delete_context` frees chunks with the mutex held that `free_chunk`
takes (umm.c:691); a failed mapping leaves the kernel's chunk set aside (umm.c:207).

Fairness. Receive and send queue: a poll and a post that began run to their end
(they hold a spin lock); the consumer polls again, since `xib_comp_handler` calls the
completion handlers after every interrupt; the hardware completes what it was
handed. Nothing is assumed of the consumer's posts or of the arrival of frames.
`XibQpLife`: the interrupt line is level triggered, tasklets that were scheduled run,
the probe goes on. `KPerf`: tasklet and work queue run what was given to them; the
peer sends only when it likes. `XhwHs`: every thread is scheduled (weak fairness). A thread
that waits for `cm_list_lock` may starve, because `run_server` takes it again as soon
as it has let go of it (xhw_hs_server.c:679 to 709); that both programs end is
therefore not claimed. In the counterexample of `hw_hs_wait` nobody starves: the
server polls for the answer of its first connection with the lock held, the client
for the parameters of its second, which it met first in its table. Failures and kills
are never fair.

## 4. Proofs

The theorems hold for every value of the constants that satisfies the hypotheses
named with them: rings of every depth, any number of QPs, contexts, regions and
domains, chains and budgets of every length. Each hypothesis is a type of a
constant, a credit below the depth (Section 2, "The limit on the consumer") or a
discipline of the table in Section 2; the runs satisfy all of them.

| Module | Theorems | Hypotheses beyond the types of the constants |
| --- | --- | --- |
| `XibRecvQueueProofs` | `RecvInvariant`, `RecvTypeCorrect`, `RecvOrderCorrect`, `RecvNoPhantom`, `RecvNoOverrun`, `RecvPendingCount`, `RecvImmediates`, `RecvImplementsService` | `RecvCredit < rq_max_wr` |
| `XibSendQueueProofs` | `SendInvariant`, `SendTypeCorrect`, `SendOrderCorrect`, `SendSqdList` | `Credit`: `SendCredit < sq_max_wr` |
| | `SendBuffersSafe` | `FreesOnlyStaged` too: `sq_mem = "ps"`, or neither reads nor writes (run `rdma_staging` shows the rest) |
| `XibQpLifeProofs` | `QpTypeCorrect`, `QpInterruptNotLost` | none |
| | `QpIndexIdentifies`, `QpEnabledHasBuffers` | `booted` |
| | `QpFatalStopsOnlyFaulty` | `booted`, `quiet`, `settled` |
| | `QpNoCrash` | `booted`, `quiet`, `gsi`, `rc`; no creation runs out of buffers (it would free its QP twice) |
| | `QpNewStartsAtZero` | `booted`, `quiet`, `serial` |
| `XibGsiProofs` | `GsiMadsExact`, `GsiSendsReportedInOrder` | none. The provisos `rewound` and `full` are part of the properties |
| `DriverProofs` | `MrIndexNamesOne`, `DriverIndexNamesOneMr` | `Callers`: the disciplines `once`, `forget`, `dma_last` |
| | `MrEntrySound`, `DriverEntrySound` | `own_key` too |
| | `HsAgree`, `DriverEngineAndErnicAgree` | `outlive`, `distinct`, `keep`, `settled`, `fresh` |
| | `HsClosedRestores`, `DriverClosedRestoresQps` | `outlive`, `one_qp` |
| | `DriverStoredIsShown` | `~Overlap` |
| | `DriverBramExact` | none: any sizes, rounding and splitting unit. The proviso `spoilt` is part of the property |
| | the other `Driver...` theorems | as `XibGsiProofs` |
| `MemoryProofs` | `KmmInvariant`, `KmmTypeCorrect`, `KmmAvailableExact`, `KmmIdNamesOneChunk`, `KmmChunksDisjoint`, `KmmListSound`, `KmmOpenFileKeepsChunks`, `KmmRefusedOnlyWhenNoRoom` | `IdsSuffice`: fewer allocations than ids; `ProcsCountable`: fewer processes than `file_open_cnt` counts. The provisos `hole` and `clash` are part of the properties |
| | `UmmInvariant`, `UmmGrantsSound`, `UmmListsExact`, `UmmChunkStays` | `WholeMap`: a chunk is a whole number of blocks, its map a whole number of ints (`umm_chunk_end` shows what a short last int does), and `WidthOfInt`. The proviso `overlap` is part of `ChunkStays` |
| | `BitMapIsExact` | `WidthOfInt`: `2^BITS_IN_INT` is a number above `BITS_IN_INT`, a fact the prover has no rule for |
| `SystemProofs` | `ConsumerConnectionsSound` | `KperfOK`: two contexts, as the source defines, and an idle context names no identifier. The proviso `gone` is part of the property |
| | `ConsumerNoQpLeftInHandshake` | none |
| | `ConsumerEngineMemoryLive` | `HxOK`: if `rdma_create_id` may fail, the server waits for more than half of the client's QPs. `Taken = {}` and the proviso `blind` are part of the property |
| | `ConsumerPingsRight` | none |
| | `SendHardwareInOrder`, `SendStagingSafe`, `SendSqdListExact` | none: the queues of the composition satisfy `Credit` and `FreesOnlyStaged` |

The inductive invariants, and why they are needed:

**Receive queue.** None of the properties is inductive alone. `IInv` adds what the
code keeps implicitly: each cursor is the remainder of a free-running counter; the
counters are ordered, `delivered <= popped <= arrived <= posted <= delivered +
RecvCredit`; and requests and frames are where the cursors say. A step that stores
into the ring is then safe because two counters less than a turn apart have
different remainders (`ModDistinct`), and a poll's count is right because two
pointers less than a turn apart determine their distance (`RingPtrDistance`). The
local pointer needs a case of its own: between the copy and the increment it has
already wrapped. For the immediates `ImmInv` adds where each one may be: on its way
in the notification, in the entry of its frame, or reported. The refinement maps the
service's queue of outstanding receives to the numbers from `delivered` to `posted`
and its reports to those of the poll (`Mapped`); every action is then a step of
`RecvService` or leaves the mapped state alone (`ServiceStep`). This is the safety
part: the fairness of the service, that frames are reported, stays with TLC.

**Send queue.** `RingInv` has the same shape with three counters, `reaped <=
Len(executed) <= Len(sent) <= reaped + SendCredit`, where the doorbell and the
completion head are pointers over `1..sq_max_wr` and the head a poll has read is
the pointer of a count between `reaped` and `Len(executed)` (`CursorInv`). The
entries from `reaped + 1` on hold their requests (`EntryInv`), the entry filled
before its doorbell included, and the completion entries those that were executed
(`CqeInv`). A post that fails in the middle writes only the free entry
(`EntryFree`). `BufferInv` says that the staging buffer of a send waits in its
entry; a completion frees no other because requests are numbered as offered
(`NameInv`). `SqdInv` orders the requests flushed, those on the list and those yet
to be offered. `OpcodeValues` gives the operation codes as the `u8`
of the element holds them.

**QP life cycle.** `IndexInv` relates the bitmap, the word an allocation has loaded
and the owners of indices: every index that is owned is set in both, although
releases do not take the lock. `ConfInv`, `ServedInv` (what is still to be served
is for a QP that is up), `FatalInv`, `GsiInv` and `MovedInv` build on it, each with
the disciplines it needs and no more (`XibQpLifeCorrect`).

**Regions, handshake, QP1, flow control.** `MrInv` is the bitmap argument again, with
the lock holder's word and the invalidations on their way. `HsBaseInv` and
`HsAgreeInv` say that contexts are valid only while the device is open, that no two
valid contexts name a QP, and that a round runs on a valid one. `XibGsiProofs`
treats the two rings of QP1 as above, with the tasklet's eager wrap. For the flow
control files the arithmetic of the masks is proved field by field (`Writes...`):
a store changes the field of its own file and of no other.

**Block RAM.** `BramLists` says that the free list is sorted and apart, that the blocks
of the allocation table are apart from each other, that what is neither in one of
them nor lost is free, and that `free_mem` is its size. `BramHolders` gives every
buffer a block of the table that begins where it does and is large enough, and no
block two buffers; `BramCalls` says that a call under way is the only one, and that
the block it found is still listed. A free then meets at most the block that ends
where the freed one starts and the one that starts where it ends, and what it frees
less than the block becomes lost.

**Kernel memory manager.** `KmmInv` keeps the list sorted and apart (`KmmLayout`,
until the first chunk leaves a hole), the identifiers below `max_chunk` and each on
one chunk (`KmmIds`), `available_size` as what the chunks leave of the region
(`KmmSum`), and the count of open files as the number of processes that have
counted themselves (`KmmCount`, until two of them overlap). The unsigned
differences of the source are real ones while the list is sorted; that is what
makes the first fit sound. `KmmClosed` says that only holders are named.

**User memory manager.** `UInv` says that `head`, `tail` and `next` hold the chunks
that are recorded as one chain (`UList`), each once and ending in the tail; that a
chunk on its way from the kernel to the list belongs to one call (`UNew`); that a
chunk's bit map is exactly the blocks of the memory held on it and its count of free
blocks their complement (`UBlocks`); that the piece a free is about to clear is still
held and no second free has it (`UCalls`); and, until the first overlap, that every
call works on a chunk of the list and that nobody has memory on a chunk that is
leaving (`UFree`). The chain is needed because `delete_chunk` looks for the link
before the chunk: that a walk over `next` meets the chain and nothing else is
`WalkOfChain`, that taking out and appending keep a chain are `ChainRemoves` and
`ChainAppends`. `GrantsSound` rests on the search and the update.

**Bit maps.** `FindFreeRun` shows that a run `find_zero_bits` returns is free and
inside the ints of the map, also when it was put together over several ints;
`FindZeroBits` that it is inside the map where the map is whole ints, and
`UpdateBitMap` that the update, int by int, changes the run and nothing else. Both
walks are recursive functions. Each pass lowers a measure, so the function exists
(`SearchExists`), and what holds of its argument holds at the answer
(`SearchAnswers`, `FindKeeps`). For one block every pass leaves only used blocks
behind it, so the answer is the first fit (`FindSingleBlock`); in a map of one int
there is one pass, and no carry to lose (`FindInOneInt`). For more blocks in more
ints the code promises neither, see the limits above.

**Perftest server.** Until an accepted identifier is destroyed, `KperfConns` relates
`con_cnt` to the identifiers the connection manager has accepted, each with a context
of its own; `KperfAccl` says that the second QP is accelerated once two connections
are established, and no other is; `KperfKept` that every resource belongs to the
loaded module, to a context that counts, to the work queue or to a failed request.

**Handshake test.** `HxInv` follows one connection through the two programs: the
entry of the list, the events on their way, the QP of the client, the message with
its address, and the memory both sides have registered. The engine may only work
between the last message and the clean up, and the client frees its buffers when it
has counted every QP as done. A QP whose `rdma_create_id` fails is counted twice,
so a client can end while QPs it set up are still in the test; TLC finds this with
four QPs and a server that waits for two. `HxCount` bounds the count by what failed,
and under `HxOK` the client cannot end too early. What the client has set up for a
connection is claimed of those whose message was received (`blind = {}`), and that a
connection has the QP of its number where the lowest free number is the next one
(`Taken = {}`).

**Ping test.** Every ping is in one place: with the server's data thread, in a
message, a posted receive, a completion, or done. `RpRests` to `RpDone` give each
place its state of the control block on both sides; `RpRecv` says that a message
on its way meets a posted receive. The list and its lock (`RpConn`) are needed
because the threads of the server walk it and mark entries while others add to it.

Sums over lists. The prover has no induction over data. That `available_size` is
the region less the sizes on the list is proved by a function of partial sums that
satisfies the recursion step by step; that two such functions agree, by their
least point of disagreement (`RingLemmas`), since the order of the natural numbers
is what the solver knows.

Composition: `DriverProofs` and `SystemProofs` show that a step of the composition in
part `p` is a step of that part or a stutter, and prove or cite (through instances of
the proof modules of the parts) what the part keeps.

Only model-checked: liveness, fairness and with them the second half of the
refinement, which the prover does not treat. What `find_zero_bits` returns for a map
with a short last int is in `BitMapIsExact`, and the theorems on the user memory
manager leave such maps out.

## 5. Not modelled, and the plan

- `xib_rst_rq`, `xib_rst_cq_sq` and `xib_drain_rq`, which reset the rings of a QP in
  error: `modify_qp` calls the first two for attributes that only the NVMe over
  fabrics target of the patched kernel sets.
- The context of the user memory manager (`create_context`, `alloc_queues`,
  `delete_context`), the mapping of pages in `xib_kmm.c`, the external DDR of `mem.c`.
- The SQD list with a poll and a post that run concurrently, and a QP with two
  completion queues.
- Ioctls of the handshake driver that read counters and traces. The legacy driver
  `hw_hs_old.c`: neither the Makefile nor `hw-hs.bb` builds it. `XhwHs` takes from it
  only what the calls of the server (`HH_WRITE_QP_CFG` and the ioctls beside it) do,
  which `hw_hs.c` does not offer any more.
- `inv-imm-test-app` and `xlarge-mr-test`: the thread structure of the ping test with
  other payloads. The host's copy of the handshake client, the client half of the
  board's `xrping` and the server half of the host's: near copies of what is modelled.
- The user provider: a stack of patches to another project.
- The AXI timer, the PL allocator, `gpio-demo`, `peekpoke`: register access or thin
  wrappers without state of their own.
- Register programming, device tree parsing, address formatting and frame layout.

Next: the reset functions on top of `XibRecvQueue` and `XibSendQueue`; the context of
the user memory manager over `XibUmm` and `XibKmm`.
