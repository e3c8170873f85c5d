# Verification of the Patmos multicore hardware and software

TLA+ models of the parts of Patmos in which several cores, devices and DMA engines act on
the same data: the message passing library (`c/libmp`) with the DMA driver under it
(`c/libnoc`), the boot handshake (`c/bootloader`), threads on other cores
(`c/libcorethread`), and of the hardware the locking unit, the compare-and-swap and the
transactional memory, the three caches of a core, the way from the caches to the shared
memory, and the network on chip S4NOC with flow control over it. TLC checks them on small
instances; TLAPS proves the main safety properties of nine of them for all sizes.

## 1. The system and its parts

| Part | State | Operations that change it | What makes it hard |
|---|---|---|---|
| DMA driver `libnoc/noc.c` | DMA table, one entry per remote core | `noc_nbwrite`, `noc_write`, `noc_dma_done` | a transfer reads its source while the core goes on |
| Lock `libmp/lock.c` | a `LOCK_T` in each of two scratchpads | `acquire_lock`, `release_lock` | no core can read the other's memory; copies arrive late |
| Queuing port `libmp/queuing.c` | `qpd_t` on each side, ring of buffers, counters | `mp_nbsend`, `mp_send`, `mp_nbrecv`, `mp_recv`, `mp_nback`, `mp_ack`, `mp_ack_n` | wrapping counters, double buffering, time-outs |
| Sampling port `libmp/sampling.c` | `spd_t` on each side, 1 to 3 buffers | `mp_write`, `mp_read` (seven builds) | copying outside the lock, a build without a lock |
| Channel set-up `libmp/mp.c` | `chan_info` in main memory, `mp_alloc` | `mp_create_qport`, `mp_create_sport`, `mp_init_ports` | order of publication; cores wait for each other |
| Boot `bootloader.c`, `noc_sync` | `boot_info` in main memory | `main` on each core, `noc_sync` | the same status words in every round, memory survives reset |
| Core threads `libcorethread` | the slaves' entries of `boot_info` | `corethread_create`, `_exit`, `_join` | the same words for every thread |
| Locking unit `cmp/Hardlock` | `queueReg`, `curReg`, `reqReg` | one clock cycle | several cores in the same cycle |
| `cmp/CASPM`, `cmp/TransactionalMemory` | shared memory, registers or a buffer per core | one clock cycle | atomicity across cycles |
| Stack, data and method cache | tags, lines, counters | one clock cycle | transfers of whole bursts for parts of a line, frame or method |
| `ocp` joins, buffers and arbiters, `io` memory controllers | registers | one clock cycle | responses carry no name; counted slots |
| S4NOC `s4noc` | a register per output of a router, FIFOs | one clock cycle | a static schedule instead of tests |
| `ethlib` and others | | | not modelled, section 6 |

How they interact: `bootloader.c` starts all cores; the constructors of an application run
`noc_init` (with `noc_sync`) and `mp_init`; core 0 starts the other cores with
`corethread_create`; every core creates its ports and calls `mp_init_ports`; from then on
the ports use only the DMA, and sampling ports the lock, which itself uses the DMA. Every
core reaches the memory through its caches, a join of their two ports and an arbiter.
`PROJECT.json` lists every part with its status and reason.

## 2. Modules and how they correspond to the code

`map` in `PROJECT.json` gives the lines of every definition. Definitions after a comment
`Mutant:` are plausible wrong versions of the next definition; no specification uses them.
They show that a property can tell the code from a bug.

Software:

* **Noc**: the DMA table. An entry holds a transfer or nothing (its ACTIVE bit is clear).
  `noc_write` is one successful `noc_nbwrite`. The network interface is not in the
  repository; it is modelled from what the driver takes a cleared bit to mean.
* **Lock**: one action per access to scratchpad memory or the DMA table. A transfer carries
  *which* word is sent; the value is read when it is delivered (`Deliver`).
* **AbstractLock**: what callers rely on. `Lock` refines it with `ClientView`; `Sampling`
  uses it instead of `Lock`, so the two compose by refinement.
* **Queuing**: messages are their own number in every word, and the DMA moves one word per
  step with the flag last, so an overwritten or half-arrived buffer is visible.
  `CountRange` stands for 2^32. `Other` is the transfer of another port that uses the same
  DMA entry. `Recv` is one step although the code reads and clears the flag separately: the
  buffer at `recv_ptr` is not the target of a transfer while its flag is set (proved:
  `TransferInv`), so nothing happens to it in between. `mp_ack_n` raises `recv_count`
  (`AckAdd`), hands it to the DMA (`AckWrite`) or lowers it again (`AckTakeBack`) in steps of
  their own, because the DMA can read the word in between.
* **Sampling**: each value of `IMPL` is a pair of straight-line programs over the same few
  steps, so `mp_write` and `mp_read` are sequences of step names and each step is an action.
* **Ports**: `Steps` is the order in which a port is created, which differs between the four
  cases in the code; memory is counted in blocks, one per `mp_alloc`. `failed` records
  where `mp_alloc` returned NULL.
* **Boot**: one action per access to `boot_info`, on the master and the slaves.
* **CoreThread**: one action per access to the slaves' entries of `boot_info`. The loop of
  the workers belongs to the C library; `corethread.c` shows it as a comment.
* **ProdconsFlow**: `prodcons_flow.c`, one step per load or store of the network interface,
  in lock step with the cycles of **S4noc**.

Hardware. One step is one clock cycle; cycles in which nothing changes are stuttering
steps, except where cycles are counted.

* **Hardlock**: any set of cores that are not stalled issues a store. A core may issue its
  next command together with the response (the handbook's OCPcore).
* **CASPM**, **AtomicCAS**: reads and writes in the slots of a counter; AtomicCAS is a
  memory with one atomic step per command, which CASPM refines with `Call` and `Memory`.
* **TransactionalMemory**: buffers, turns, conflicts, overflow and commits; words are
  abstracted to whether another core has overwritten them since they were loaded.
* **StackCache**: the two pointers and the transfers; a word is abstracted to whether it is
  the one stored last to its address. `icache` is the instruction cache of the build: while
  a line cache fetches, the pipeline stalls the stack cache (`StallAccept`).
* **DataCache**: the caches and the two ways of writing are builds of one machine. A burst
  is one step, since the core is stalled meanwhile. Tags are read one cycle before they are
  used, as in the code.
* **MethodCache**: tags in a ring, transfer word by word; the pipeline is a counter of the
  cycles from the fetch of a method to its first call or return (`McExec`). `early` is
  history: a call has hit, or a tag was written, while space was still being given up.
* **OcpBurst**: the two ports of a core and their join, in both forms. **Arbiter** adds the
  round-robin arbiter with its buffers and three memories: on-chip memory, the bridge to DDR3
  memory, and the SRAM controller (**SRamCtrl**). On-chip and DDR3 memory always have this
  arbiter; any other memory has it when the configuration says `roundRobinArbiter`
  (`Patmos.scala:492`), which `default.xml:17` does and no configuration in the repository takes
  back. **NodeTdmArbiter** has the arbiters that count slots, used when it is false, the
  pipelined OR of their signals, and again **SRamCtrl**, for which the slots are timed.
* **S4noc**: `getSchedule` is computed from the rows of the table as in the code, with the
  entries no row sets; routers are their output registers, FIFOs the registers of
  `BubbleFifo`. A word is its sender, slot and number.

**HardwareBounds** puts the shared memories and the stack cache side by side, for what software
may assume of their time. **MC...** modules give the constants their values; **...Proofs** and
**SamplingWriter** hold the proofs. Four MC modules put parts that do not interact into one
model: the initial state chooses the part at work and the others rest, so one run explores each
part by itself.

## 3. Runs

| Run | Instance | States | Shows |
|---|---|---|---|
| `cores` | boot: 3 cores, 3 rounds, the second with `noc_sync`; sampling: five builds, 5 writes of 2 words; queuing: 3 buffers, counters of 4 values, 8 messages of 2 words, with and without time-outs; locking unit: 3 cores, 2 locks | 46,358 | same application everywhere, rounds do not overlap and end; atomic samples; messages whole, in order, none lost, blocking calls return; exclusion, no core passed twice, no starvation |
| `libmp` | lock: 2 cores, tickets below 8, no acquire above 6; ports: 3 cores, 2 queuing channels in opposite directions, 1 sampling channel, four memory sizes; threads: 2 workers, 2 threads on each | 132,878 | exclusion, barriers, ticket order, refinement of `AbstractLock` with its fairness; order of publication, start-up ends; `corethread_join` returns, with the right result |
| `hardware` | CAS: 2 cores, 2 addresses, 2 values; transactions: 2 cores, buffers of 2; stack cache: 4 words, bursts of 2; data caches: 1 set, 3 lines of 2 words, five builds; method cache: 8 words, 16 tags, 3 methods | 1,533,320 | refinement of `AtomicCAS`; serializability, isolated commits; words where they belong; errors reported; answers in time |
| `interconnect` | memory: 2 cores with 2 ports, bursts of 4; round-robin arbiter with on-chip, DDR3 and SRAM memory, time-division arbiter with SRAM, both joins; S4NOC: 4 and 9 cores, FIFOs of 4, one or two streams of 2 words; credits: 2 and 4, 5 tokens | 815,785 | bursts whole, to the right port and in time; words to the right core in order; no token lost |
| `lock_wrap` | tickets of 4 values | violation | exclusion fails when the ticket wraps to 0 |
| `thread_missed` | 1 worker, 2 threads | violation | `corethread_create` can wait for ever |
| `ports_race` | as in `libmp` | violation | a first message erased by the sink's initialisation |
| `boot_failed` | as in `cores` | violation | after a wrong checksum the master can wait for ever |
| `tm_conflict` | 2 cores, 2 words | violation | a conflict in the cycle of the load is missed |
| `dc_hold` | write-back cache | violation | a word of a write-back is lost if the first is not accepted at once |
| `mc_evict` | 16 words, 16 tags, 2 methods | violation | a return hits an overwritten method |
| `s4noc_stray` | 9 cores, one stream in slot 7 | violation | a word comes to a second core |

### Bounds

Tickets, messages, writes, rounds, threads and words are bounded by guards (`MaxNumber`,
`MaxSent`, `MaxWrites`, `MaxRounds`, `MaxThreads`, `MaxWords`, `LEN`). The bounds are larger
than what it takes to wrap every ring and counter at least once: 8 messages through 3
buffers and counters of 4 values, 5 samples through 3 buffers, 5 tokens with 4 credits. Two
words are enough for a torn sample or message, and two threads for a result that an earlier
one left. Two slaves are the least with which the master looks at one while the other moves
on. Three cores are the least with which a core can be passed by two others. Two buffer
entries let a transaction fill its buffer and overflow it. A stack of seven words over a cache
of four lets frames begin and end within a burst and exceed the cache. Three lines compete for one
set, so that every miss replaces.

In `interconnect` burst length, slot length and the delays of the SRAM controller are those
of the build (`burstLength` 4, `ctrlDelay` 16, two accesses of the chip per word); the DDR3
memory waits for at most `DdrDelay` = 1 cycle per word. Cycles of a burst are counted for
core 1 (`Watched`) up to `MaxWaits` = 100, above every bound that is checked. FIFOs of 4 are
those of `Patmos.scala:264`. Four credits are as many as a FIFO has registers; with five TLC
finds a lost token.

The SRAM behind the round-robin arbiter is checked with the join of a method cache, which all
configurations with that memory have; with the other join the state space is ten times as large
(5.2 million states, in which TLC finds no violation either).

In the data cache builds the memory of `hardware` accepts write bursts at once (`DcHolds`), as
the round-robin arbiter does; `dc_hold` has one that does not.

The method cache of `hardware` has the 16 tags of the default configuration. `HitIsResident`
does not hold for it (`mc_evict`); `ResidentUnlessEarly` is what does, and the constraint
`MCExplored` stops where its exception begins, at a call that hits or a tag that is written while
the space of another method is still being given up.

Deadlock is not checked in `cores` and `libmp`, where after the last message, round or thread
the bound leaves nothing to do, and in `MULTI_NOC_NONBLOCKING` a reader waits for a writer
that may have finished.

### Fairness

Every core keeps executing (weak fairness of its steps): Patmos cores run bare metal and the
loops concerned are busy waits. The network serves every DMA entry (weak fairness of
delivery): its schedule is static time division. A core that has a lock gives it back.
Nothing obliges an application to call a port, except that in the part `queuing` the sink
keeps receiving and acknowledging. `Sampling` uses the strong fairness of `AbstractLock`,
which `Lock` is checked to implement. `Hardlock` has a clock that ticks. In `Boot`
applications return. The other hardware needs no fairness: what must happen is stated as a
number of cycles.

### Timing assumptions

`bootloader.c` is not correct for arbitrary relative speeds and does not claim to be: it has
delays and comments such as "give the slaves some time to boot". `Boot` keeps these as named
guards. No other model has such guards; what goes wrong in `corethread.c` at unlucky speeds is a
finding (`thread_missed`).

* `InTimeReturn`: the 1 ms delay at the start of `main` is longer than the other slaves need
  to see the master's RETURN. (The comment in the code gives another reason for the delay.)
  Without it a core that loops back clears RETURN before another has seen it.
* `InTimeBoot`: when the master has cleared the slaves' entries, each slave has cleared the
  master's. Without it a late slave wipes out BOOT.
* `InTimeDownload`: the download takes longer than a slave needs to see BOOT. Without it a
  slave misses BOOT and waits for it for ever.
* `InTimeStart`: the start-up code of an application takes longer than the master needs to
  see INIT of all slaves. Without it a slave overwrites its INIT first.

Each is needed: with any one of them replaced by TRUE and the others kept, TLC finds
`RoundsEnd` (for `InTimeDownload` already `RunTogether`) violated on the instance of `cores`.
The run shows what the handshake guarantees under these assumptions, and only that. `InTimeStart` has no counterpart when the download failed,
because no application runs; this is the case of `boot_failed`. `ProdconsFlow` assumes that
the printing after the last token takes long enough for the consumer to be done, as its
comment says ("now, after the print, we should be done").

## 4. Findings

* `boot_failed`: with two slaves, after `download` returned NULL, the second slave can replace
  INIT by RETURN while the master still waits for the first (`bootloader.c:113`). Whether it
  happens depends on timing; nothing in the code delays the slave.
* `lock_wrap`: `n = remote_number + 1` (`lock.c:70`) wraps to 0, which means "not competing".
  It takes 2^32 handovers without a pause in contention.
* `ports_race`: a queuing sink publishes its id (`queuing.c:109`) before it clears its flags
  (128-136). A source must connect, send and have its message arrive within that time.
* `thread_missed`: `corethread_create` waits for INITDONE (`corethread.c:89`). A short thread
  replaces INITDONE by RETURN before the master looks; or the worker has not seen the NULL of the
  last `corethread_join` (line 115) when `funcpoint` is set again, for instance because the last
  thread still runs after its `corethread_exit`. Both cores then wait for each other. `ThreadsEnd`,
  in the `libmp` run, shows that nothing else can keep the calls from returning.
* `tm_conflict`: a load in `sSharedRead` takes the old word in the cycle in which another core
  commits a new one, and its read mark comes too late for the comparison
  (`TransactionalMemory.scala:94`).
* `dc_hold`: the write-back cache reads one word ahead (`DirectMappedCacheWriteBack.scala:137`)
  and does not offer the first word again. The time-division arbiter makes a write wait for
  its slot, and the priority join for the other cache; the round-robin arbiter alone accepts
  it at once.
* `mc_evict`: the method cache gives up one tag per cycle while it already writes the new
  method (`MCache.scala:238`). A tag that is written in this time also costs space: line 239
  overrides the new `freeSpaceReg` of line 223. With four tags neither happens, since all tags are
  given up before a method can return.
* `s4noc_stray`: entries of the schedule that no row sets are 0, which is NORTH
  (`Schedule.scala:67`), so a word can be passed on after it has arrived. Of the schedules of
  four and nine nodes only slot 7 of nine nodes is affected (excepted in `WordsDelivered` as
  `Stray`); evaluating the other tables in the same way shows such slots in each of them.

Other limits of the code that a property excepts by name, or that were met while modelling
and have no run:

* DOUBLE_NOC: before the first `mp_write` the index is -1; `mp_read` copies what is in front of the
  buffers and returns 1 (`sampling.c:246`), where `mp_test_sampling.c:102` expects 0.
* DOUBLE_NOC_WR: a read before the first write announces -1, and the writer then uses index
  `-1 ^ 1 = -2` (`sampling.c:319`); the bounds of the index leave that build out.
  MULTI_NOC_NONBLOCKING: `mp_read` waits for a further `mp_write` (`sampling.c:452`), so
  `SamplingReturns` leaves that build out, although `doc/noc/programming_exercise.tex:321` says
  that a sample "can be read multiple times or not read at all before the next update".
* `mp_init_ports` returns 1 also when the other end has published a NULL address because its
  core had no memory (`queuing.c:113`); `Connected` asks for addresses only if no core failed.
* Transactional memory: the commit of a full buffer never ends (`:201`; excepted in `TmInTime`
  as `Endless`), and a load of one more word with a full buffer gets no response (`:166`;
  excepted there as `stalled`).
* Stack cache: while the pipeline is stalled, `ena_in` holds back the command of a spill but not
  the read address, which moves on with `CmdAccept` (`StackCache.scala:232`, `:382`). The first
  word is then sent from the address of the second. This takes an instruction cache of type
  line, which can miss while a spill begins; `StackKept` asks that no word is lost with a method
  cache, and with a line cache is about the words not lost so (`Slips`). The configurations in the
  repository have a method cache.
* Data cache: a load issued in the cycle of the response to an invalidation still hits
  (`DirectMappedCache.scala:49`; outcome "late", excepted in `LoadsLatest`), although
  `patmos_handbook.tex:3639` calls invalidation sufficient. The two-way cache reads its
  replacement bits with the index of a line (`:60`) and writes them with that of a word (`:95`,
  `:138`), and after an error it invalidates the way the bit names (`:182`), so
  `ErrorsReported` leaves it out. The write-back cache answers an access with the error of the
  write-back that it causes (`DirectMappedCacheWriteBack.scala:185` and `:203`): the line of the
  access is then not filled, but its tag is valid (`:129`). A store whose fill fails leaves its
  line dirty, so that a later access to another line can meet this. Errors of write-backs are
  not modelled; `Allowed` excludes the accesses that would cause one.
* Method cache: the size of a method as large as the cache is read as a negative number
  (`MCache.scala:223`); methods are smaller in the runs.
* `Arbiter.scala:59` and `:66` count only DVA responses: after ERR it would wait for ever. The
  memories of the model answer with DVA only.
* `TdmArbiterWrapper` uses the slot length of the 16-bit SRAM for every memory behind
  time-division multiplexing (the TODO at `Patmos.scala:473` says so); `TimedForSRam` states it.
* S4NOC: `BubbleFifo` takes a word only every second cycle, so of two words that arrive in
  consecutive slots the second is lost; reading IN_SLOT always gives 0; the depths of the two
  FIFOs are swapped; output registers have no reset value (the comment in `S4Router.scala:65`
  assumes one, as the model does). CREDIT_SLOT_9 of `prodcons_flow.c` fits nine cores only.

## 5. Proofs

All proofs hold for every value of the constants that satisfies the named assumptions.

### libmp and libcorethread

* Lock, in **LibmpProofs**: `TypeCorrect`, `MutualExclusionHolds`, `BarriersAreMemoryBarriers`,
  `TicketOrder`, `LockRefinement` (safety part of the refinement), for any two ids and any width
  of the ticket. All but the first assume `MaxNumber < NumberRange`: a call of `acquire_lock`
  does not start while a ticket is at the bound, so none wraps; `lock_wrap` shows that this is
  needed. Mutual exclusion is not inductive. `IInv` adds what the DMA may hold (`DmaInv`), how
  long the other core sees `entering` (`EnteringInv`), when the copy of the ticket is current
  (`NumberInv`), and the two facts of the argument: a ticket still on its way to a core that has
  passed the `entering` loop is larger than that core's (`LateTicketInv`), and a core that may
  enter is before the other (`FirstInv`).
* Queuing ports, in **CoresProofs**: `QueuingTypeCorrect`, `ReceivedStayIntact`,
  `RecvAcceptsNext`, `SentIsNotLost`, `FlowControl`, `WriteBufferIsFree`, for any number and size of buffers and any
  counter width greater than the number of buffers. `IInv` says that counters and positions are
  the history modulo their ranges, `recv_count` with what has been added and not been sent
  (`CountersInv`), that acknowledged <= received <= sent, at most `num_buf` are outstanding, and
  no transfer reads `recv_count` while something is added (`OrderInv`), what the write buffers and the transfer hold, that
  every message not yet received is complete or in the DMA, and that no other flag is set.
  `SlotDistinct` (messages less than `num_buf` apart have different buffers) carries the argument.
* Sampling ports, in **SamplingWriter** (the invariant and the steps of `mp_write`) and
  **SamplingProofs** (those of `mp_read` and the deliveries): `SamplingTypes`, `SamplesAreAtomic`, `BuffersAreNotShared`, for each of the five
  implementations, samples of any size and any number of writes. The implementations have their
  steps in different orders. A table gives the position of each step (`LockW`, `SendW`,
  `PublishW`, `CopyR`, ...), the lemmas `WriteTable` and `ReadTable` show that it is the one of
  the model, and the invariant is stated over these positions: what is in the DMA and who holds the
  lock (`WriterInv`, `ReaderInv`), that the locked parts exclude each other (`Exclusion`), and that
  the buffer bound to `mp_read` holds one sample between `floor` and `Latest`, the number of
  the sample published last. Where the samples are is what the
  implementations differ in, so `Place` has one form for each. With one or two buffers the
  lock is needed: `mp_write` overwrites or publishes a buffer that `mp_read` could be using only
  while `mp_read` is outside. In TRIPLE_NOC `next` differs from `newest` and from `reading`, which
  names the buffer of `mp_read` before it releases the lock. MULTI_NOC_NONBLOCKING has no lock:
  `mp_read` asks for the following buffer, and copies the one before only when the writer has
  published a sample in the one asked for.
* Opening channels, in **PortsProofs**: `PortTypes` and `PortsAreConnected`, for any number of
  cores and channels. `PortsAssumption` demands that the two ends of a channel are on different
  cores, which `mp_init_ports` relies on: it takes a core that is the source for the source only.
  `PortInv` numbers the steps of the creation of a port and says what is true of its descriptor and
  of its entry in `chan_info` at each of them (`Progress`), so that an id that can be seen stands
  for a port that is past the steps before (`Published`), also for cores that gave up; and that
  `mp_init_ports` has copied what was published for all channels before the one it looks at
  (`CopyInv`).
* Core threads, in **LibmpProofs**: `ThreadTypeCorrect` and `JoinReturnsResult`, for any number of
  workers and threads, at any speed. `ThreadInv` follows the thread created last on a core through its
  life (`ThreadLife`), says what it leaves in `return_val` (`ThreadResult`), that a worker which is
  still behind an earlier thread meets only a `corethread_create` that waits, and that workers leave their loops only after `main` (`AtEnd`). A step concerns
  one core; `Same` carries the others.

### Boot loader

* In **CoresProofs**: `BootTypesHold`, `BootSameApplication`, `BootRunsTogether`,
  `BootNetworkReady`, for any number of slaves and rounds and any set of rounds whose application
  uses the network. `BootInv` follows the master: for each of its positions it says what
  `boot_info` holds (`MasterInv`), where a slave can be (`Whereabouts`), and what a slave at its
  position knows (`SlaveInv`). Of the timing assumptions the proofs use `InTimeBoot` (each slave has
  cleared the master's entry when the master writes BOOT) and `InTimeDownload` (each slave has seen
  BOOT when the download ends). `InTimeReturn` and `InTimeStart` are not used: these three
  invariants do not depend on them, `BootRoundsEnd` does.

### Hardware

* Locking unit, in **CoresProofs**: `LckTypeCorrect`, `HardlockExcludes` and `HardlockIsFair`, for any
  number of cores and locks. `Inv` ties where a core is in `lock`/`unlock` to its bits in
  `queueReg`, and says that a core inside has the turn; `TurnStays` shows that the encoder keeps
  the turn while the bit is set. For fairness `Rank` counts the cores from the one that has the
  turn to a waiting one: the turn only comes nearer to it (`TurnApproaches`), so a core that was
  granted the lock meanwhile lies behind (`PassedBehind`) and cannot be granted it again.
* CAS memory, in **HardwareProofs**: `CasTypeCorrect` and `CasImplementsAtomic`, the whole
  refinement, for any number of cores, addresses and values. `CasInv` says that only the core whose
  turn it is compares, writes or is answered, and that what it was given is what the memory holds
  (`TurnOf`). A cycle then is the atomic step of that core, or leaves the memory as the cores
  see it, while all others call, return or wait.
* Transactional memory, in **HardwareProofs**: `TmTypeCorrect`, `TmSerializable`, `TmIsolated`, for
  any number of cores and addresses and every power of two of buffer entries. `TmInv` says of each
  core that every word it loaded has a marked entry, so an overwritten one sets `conflict` unless
  the load was late (`Good`), and that a load from the shared memory excludes a commit that has
  begun (`NoneBegun`): the turn does not leave a core that commits.
* Stack cache, in **StackProofs**: `StackTypeCorrect`, `StackIsKept`, `StackBursts`, for every size
  of the cache, of a burst and of the stack (`StackSizes`). `ScInv` says where the
  words are between two operations (`ScIdle`) and how far a transfer has come: the words a spill has
  written are in the memory and still in the cache (`ScSpilling`), the words that have arrived
  in a fill are in the cache and those below `memTop` untouched (`ScFilling`). `ScLost` says
  that a word is lost to a stall only with a line cache. What it needs of the
  memory is that no two words of a part of the stack that fits into the cache share a line
  (`LineApart`). For the number of bursts the invariant compares the bursts so far with the distance
  covered, rounded to bursts (`ScBursts`); `BurstCount` turns this into the bound.
* Data caches, in **DataProofs**: `DataTypeCorrect`, `DataIsLatest`, `DataErrorsSeen`, for every
  build and any number of sets, words in a line and lines of the memory (`DataCacheSizes`). They
  assume `DcHolds \subseteq {FALSE}`, a memory that accepts a write burst at once; `dc_hold` shows
  that this is needed. `DcInv` says that the last byte stored to an address can be read below
  the cache, is about to be written there, or is in a dirty line (`MemInv`), and that a line in
  the cache has the last bytes (`CellInv`). A core issues an access in the cycle of the
  response to the one before, with tags from before that response; `ReqInv` says that the hit or
  miss found then still is one when it is used, with the exception of a load issued in the cycle
  of an invalidation. `BadInv` keeps the tags of lines that the memory answers with ERR invalid in
  the direct-mapped caches, also those that a failed store has left dirty. All responses are one lemma, `AnswerKeeps`.
* Time, in **HardwareProofs**: `CasIsInTime`, `TmIsInTime` and, with `StackBursts`,
  `BoundsAreKept`, which is `WorstCaseBounds` for any number of cores and any sizes. The cycles a
  core has waited are not bounded by themselves inductively; the invariants bound them by the turns
  that have passed: waited and remaining cycles together are at most a round (`CasWaits`), and a
  round is as many buffers as there are cores (`TmWaits`). A commit under way pays for its
  turn with the entries it has written (`Into`). Excepted, as in the run, are the commit of a full
  buffer, which does not end (`Endless`), and a load of one more word on a full buffer, which is
  not answered (`stalled`).

### Only model-checked

All liveness, with the fair part of the lock refinement: fairness is out of the prover's reach.
The method cache (`ResidentUnlessEarly`, and with it `HardwareTypeOK` as a whole): that no space is lost
is a sum over the tags, and what a sum is after a change of one term needs an induction over data.
The arbiters with their memories, the network on chip and the credits (`BurstsExact`, `SlotsExact`,
`BurstsInTime`, `WordsDelivered`, `FlowKept`), whose instances are those of the build; no invariant
for any delay and any schedule has been worked out. `LibmpTypeOK` and `CoresTypeOK`
are conjunctions over parts each of which has its own theorem. And the claims that do not hold, of
which a counterexample is the result.

## 6. Not modelled

Of the modelled parts: SINGLE_SHM (a sample in shared memory behind the data cache) and
MULTI_NOC_MP (a sampling port on a queuing port); channels from a core to itself; sampling
set-up in builds other than DOUBLE_NOC; the rest of `libnoc` (schedule loading, multicast,
interrupt and trap handlers); loads from the locking unit; the contents of `boot_info` that the
handshake does not read; `download` itself; error responses to write-backs and combined writes;
the other memory controllers; the S4NOC schedules of 16 nodes and more.

Of the rest of the repository: the pipeline and the simulator, whose state is data and whose
semantics the test suite compares with each other; device drivers and peripherals; file systems
and file formats; the Ethernet library. Its TCP compares no sequence numbers (`tcp.c:329`) and so
promises nothing for lost or repeated segments that a model could confirm, and the queues of
`tte.c` (a frame's address and size are written at `:447` while the timer interrupt may come)
depend on clock correction, which is arithmetic on time stamps. `mp_barrier` and `mp_broadcast`
are commented out in the source. `AsyncLock` rests on circuits without a clock. The schedules of
`SPMPool` have no reset value, and a read of one answers with the schedule as the response code
(`SPMPool.scala:149`). By far most lines of the repository are applications, benchmarks, tests,
board files, third-party libraries and tools, in which there is no protocol to check; the share
of all lines that the models cover is therefore small. `components` in `PROJECT.json` has every
part with its reason.

## 7. What could follow

`SharedSPM`, `oneway` and `twoway` on the model of the S4NOC; MULTI_NOC_MP on top of `Queuing`;
`download` composed with `Boot`; a proof of `BurstsExact` for any number of cores, and one that the
method cache executes only resident methods, for sizes the `mc_evict` run does not rule out.
