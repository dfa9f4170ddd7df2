# TLA+ models of the APE management firmware

These TLA+ modules model the firmware in `src/`. The firmware runs on the
APE, the management processor of a four-port NIC. It is single-core C: a main
loop, `loaderLoop` in `src/ape/main.c`, that two interrupt handlers may
preempt between any two instructions. It talks to hardware it does not
control: the RMU (packets from the BMC), the RX block pool, the transmit
FIFO towards the NC, the GRC reset logic, the RX CPUs, and a host debugger
that uses the shared-memory mailboxes. The modules below model each part, the
hardware around it, and the interleavings that make it hard to test.

## The system and its parts

| # | Part | Code | Module |
|---|------|------|--------|
| C1 | Register facade | generated headers, not in the repo | not modelled (registers appear as variables) |
| C2 | 1 kHz timer | not in the repo | `Timer1KHz` (from the spec) |
| C3 | RX block reader | `rx.c` `Network_RxLePatcket`, `Network_PassthroughRxPatcket` | `RxBlock`, abstract `RxPool` |
| C4 | Reset controller | `main.c` `handle_reset`, `wait_for_rx`, `wait_for_all_rx` | `Boot` |
| C5 | RMU packet pump | `main.c` `handleBMCPacket` | `RmuPump` |
| C6 | Power / reset IRQs | `main.c` `IRQ_VoltageSource`, `IRQ_PowerStatusChanged`, `resetInProgress` | `ApeLoop` |
| C7 | Loader mailbox | `main.c` `handleCommand` | `LoaderMailbox`, abstract `MailboxService` |
| C8 | Main loop | `main.c` `loaderLoop` | `ApeLoop` (extends `RmuPump`) |
| C9 | Bring-up | `main.c` `__start` | `Boot` |
| — | Simulator bindings | `src/simulator/bcm5719_MII_mmap.cpp`, `bcm5719_APE_sim.cpp` | `MIIMmap`, abstract `RegisterFile` (MII binding only) |

**How the parts interact.**

- The two IRQs stamp `gResetTime`, the one variable shared with the loop. A
  value of 0 means "no reset in progress".
- While the stamp is non-zero, the loop debounces:
  - it acknowledges the W1C GRC status bits and restamps;
  - once `GRC_RESET_TIMEOUT_MS` has passed, it clears the stamp, reloads the
    NC-SI stack (`wait_for_all_rx(); NCSI_reload`) and re-enables the GRC
    interrupt, which the handler had disabled.
- While the stamp is 0, the loop:
  - pumps RMU packets with pass-through allowed;
  - watches the host driver state and the port enable state, and reloads on a
    mode change.
- On every iteration, the loop polls the four loader mailboxes.
- `__start` decides between a full reset and a reload before the loop starts.

## Modules

- **`Timer1KHz`** (from the spec). A `TimeMod`-tick wrapping counter,
  `Age(t0, now) == (now - t0) % TimeMod`, and
  `Timer_didTimeElapsed1KHz`. The firmware's counter is 32 bits wide. The
  model narrows it, and scales every timeout with it, because the code only
  ever compares modular differences.
- **`RmuPump`**. `HandleBMCPacket(passthrough, Reload, NoReload)` is the whole
  function, and it makes one status read.
  - The New case has four outcomes, all in `ConsumeNew`: bad (ACK), NC-SI
    frame (read `Words(len)` words and hand them to the handler, reduced to
    the channel Enabled bit, or drain them with `DropPacket` when they
    overflow the 1024-word `buffer[]`), pass-through transmitted (TX may fail, which
    triggers a reload), and pass-through dropped.
  - The InProgress case either starts the watchdog or checks it; the check
    ends in `RMU_init` after `RMU_WATCHDOG_TIMEOUT_MS`.
  - The caller passes the reload as an action, so that `ApeLoop` can record
    it.
  - The RMU hardware starts packets (bounded by `MaxPackets`) and may hang
    InProgress forever.
  - The ghost `hwAge` is the saturating age of the hardware's InProgress
    state.
- **`ApeLoop`** (extends `RmuPump`). `pc` marks the loop's position between
  accesses to shared state:
  - `Setup` (340-351);
  - `Top` (355-375, the test of `gResetTime`, the status read, the ack and
    restamp, the elapsed test);
  - `A_Stamp` (369-371), between the two stores of the re-stamp
    `gResetTime = now; if (!gResetTime) gResetTime--;`. `gResetTime` is a
    plain `static uint32_t` that the IRQs also write, so the build may
    store the fixed-up value once or store 0 first. `StampInLoop` lets TLC
    choose either when the clock reads 0. An IRQ that runs in the window
    sees the 0 sentinel and stamps again. The fix-up step then reaches no
    state that the one-store build cannot reach, and `GrcIrqNotLost`
    holds across it. The window is benign;
  - `A_Clear` (378-379);
  - `A_Reload` (384-388);
  - `A_Pump` (391);
  - `B_Pump` (395-398);
  - `B_Host` (400-424);
  - `B_Reload` (427-428, `wait_for_all_rx(); NCSI_reload`);
  - `B_Refresh` (431-433, `host_state` re-read, `reset_allowed = false`).

  Each IRQ may run between any two loop steps when its NVIC pending and
  enable bits are set. Handlers do not nest, and the loop waits while one
  runs (`InHandler`). The hardware keeps running, though, so
  `IRQ_PowerStatusChanged` is two steps:
  - the status snapshot (291-292);
  - `IRQ_PowerStatusChangedAck` (294-318): the write-back of the snapshot
    (W1C, so only the bits it read are cleared), the pending clear, and
    the arming.

  A GRC reset can land between the two steps. The environment:
  - raises GRC resets on the ports (`MaxEvents`);
  - toggles VMAIN;
  - re-pends the GRC interrupt (the level-triggered case);
  - changes the host driver state and the enable state (`MaxHostChanges`);
  - drives the RMU.

  Ghost `owed` is TRUE from a GRC reset event until the next NCSI reload.
  Ghost `hostUnseen` is TRUE from a host driver state change until the loop
  next compares `host_state` with it. The host changes its driver state at
  most once per loop pass (`hostUnseen => InReload`), except while a
  reload's `wait_for_all_rx` runs, which takes up to a second per port.
- **`LoaderMailbox`**. `handleCommand` is split into the effect (76-111) and
  the ACK store (114), because the host can observe the state between them.
  - The loop polls the mailboxes in turn (437-440).
  - Each mailbox has a host debugger, written from the spec: it writes the
    arguments, then the command, waits for the ACK, and reads LoaderArg0.
  - Ghost `expected` is the word READ_MEM read.
  - The module also states `ImplementsService`: under the mapping
    `ServiceView`, it is an implementation of `MailboxService`. In the
    abstract service a command executes and is ACKed in one step.
  - `loaderLoop`'s setup (343-348) runs before the first poll:
    `StampLoader` sets SHM's `SegSig.Sig`, then `initSHM(m)` writes each
    segment's header (`FwStatus` = Ready, `SegSig` = 'APE!').
    `setupStep` orders these steps; `handleCommand` is enabled once it is
    past the last segment. The host may write a command during setup.
    `MultiChar` evaluates the multi-character constant as GCC does (first
    character most significant, by `FoldLeft`). The `Sig` field is taken
    to be the low byte, as spec §5 says.
- **`RxBlock`**. Each reader step is one iteration of its `do/while`.
  - Hardware: the pool allocates chains of up to `MaxChain` blocks. Every
    non-last block is full (`FullBlockBytes`); the last block holds
    `LastBlockBytes`. Retire records return `ChainFrom(Head, Count)`, a
    recursive walk of `next_block`. The NC drains the FIFO one word at a
    time.
  - The buffer reader copies `BlockWords(len)` per block and retires the
    whole chain once.
  - The pass-through reader decrements count, waits for FIFO room
    (`PtRoom`), pushes the block's words (`PushedWords`: words-1, then one
    more to BufferLast when count is 0), and retires the block alone.
  - `ImplementsRxPool` checks `RxBlock` against the abstract `RxPool`.
    `RxPool` has a free set and a queue of packets. A reader may give back
    the oldest packet's first block (`ReturnBlock`), or drop an emptied
    packet (`Pop`). It may also give back all of a packet's blocks and drop
    it in one step (`Consume`). The refinement mapping `PoolView` shortens
    the oldest packet by the blocks the pass-through reader has already
    retired. So `PtBlock` is a `ReturnBlock`, `PtFinish` is a `Pop`, and
    `LeFinish` is a `Consume`; every other step is a stutter. The fairness
    part (`WF(Serve)`) also says every waiting packet is served. It replaces
    the earlier `BlocksReturned` property and is stronger than it.
  - The busy waits are `PtSpin` and `NoPacket`, steps that change nothing.
- **`Boot`**. `__start` → `handle_reset` (bit-bang, ChipId spin, mux back to
  PCIe, `wait_for_all_rx` over `NumPorts` with the timer) → console reset →
  `NCSI_init` / `NCSI_reload` → `loaderLoop`. The chip leaves reset once
  clocked `ClockCycles` times. RX CPUs may never become ready.
- **`MIIMmap`** and **`RegisterFile`**. `MIIOffset` is the binding table of
  `init_bcm5719_MII_mmap`: each MII register's `ram_offset_t`, a byte offset.
  - `write_to_ram` stores a 32-bit word at that offset, and `read_from_ram`
    loads one. The backing memory is a byte array. `Init` picks the host
    byte order (little-endian x86, or the big-endian ppc64 build).
  - `ReadReg` narrows the word to r16.
  - `RegisterFile` is the contract a register-map mock owes the firmware:
    independent registers, where a write changes only its own register.
    `ImplementsRegisterFile` maps `regs` to `ReadReg` and checks
    `RegisterFile!Spec`.

## Runs

| run | cfg | expect | shows |
|-----|-----|--------|-------|
| rmu_pump | MCRmuPump.cfg | pass | `NoFifoResidue`: a New packet is never partly read. `WatchdogOnlyWhenStuck`: the watchdog resets only an RMU that has really been InProgress for the whole timeout. `RmuHangRecovered`: a hang always ends. |
| loop_safety | MCApeLoop.cfg | pass | `GrcIrqNotLost`: the GRC IRQ is never disabled while no debounce is pending. This holds across the tick-0 sentinel, the two-store re-stamp and the handler's read/ack window. |
| loop_grc_window | MCApeLoopGrcWindow.cfg | violation | `ResetEventTracked`: a reset event with no reload since is always visible to someone (a stamp, a handler snapshot, a pending reload, a deliverable IRQ). A GRC reset between the handler's status read (291) and its pending clear (298) is lost. |
| loop_liveness | MCApeLoopLive.cfg | pass | `ModeChangeServed`: once the host driver is started and the port leaves APE mode, the mode-change reload happens unless the host or port changes first; a debounce in progress only delays it. |
| loop_passthrough | MCApeLoopPassthrough.cfg | violation | Spec §8: "handleBMCPacket(true) only while gResetTime = 0". The IRQ arms the stamp between 355 and 397. |
| loop_debounce | MCApeLoopDebounce.cfg | violation | `DebounceRespected`: a VMAIN IRQ between 375 and 379 re-arms, and 379 clears the new stamp with no wait. |
| loop_restart | MCApeLoopRestart.cfg | violation | `StartReArms`: spec §4.C8 says "a subsequent START will re-arm" `reset_allowed`. A driver restart during the mode-change reload is read back as START at 431, and the flag stays false. |
| mailbox | MCLoaderMailbox.cfg | pass | `ReadResultValid`: a READ_MEM result is in place when the ACK is seen. `ImplementsService`: round-robin polling refines the atomic service, fairness included, so every command, unknown ones too, is executed and ACKed. |
| shm_signature | MCLoaderMailboxSig.cfg | violation | `LoaderSignaturePublished`: the LOADER sub-signature is visible on every segment while the loop runs. Violated in 4 states. |
| rx_block | MCRxBlock.cfg | pass | `RxDrainComplete`: no block retired twice or leaked. `PassthroughWordCount`: each frame has ceil(N/4) words with one BufferLast. `LeByteCount`: `*bytes` = 4·ceil(N/4). `ImplementsRxPool`: the readers give back only the oldest packet's blocks, in chain order, and serve every packet; the FIFO wait always ends (542k states, liveness included, in about 100 s). |
| boot | MCBoot.cfg | pass | `BootCompletes`: `loaderLoop` is always reached, across the RX wait's timer wrap and with RX CPUs that never answer. |
| mii_base | MCMIIMmapBase.cfg | violation | `ImplementsRegisterFile` for Control and Status: writing Status changes what Control reads. |

Each property of a passing run has a mutant in `PROJECT.json`: a fault
operator defined next to the definition it replaces (a dropped reset, an
off-by-one, a swapped order, a wrong FIFO reading, a non-modular
subtraction), and the run's cfg finds the property violated.

## Findings

1. **Stale read of `gResetTime` (main.c:355 → 397).** The branch is chosen
   on one read. `IRQ_PowerStatusChanged` can arm the stamp after that read,
   and `handleBMCPacket(true)` still forwards a pass-through packet after the
   reset has begun. The trace is 4 steps long.
2. **Lost VMAIN re-arm (main.c:375-379).** The loop has decided that the
   debounce has elapsed. `IRQ_VoltageSource` then stamps a new event, and
   line 379 sets `gResetTime = 0`. The reload runs with no debounce of the
   new event. This is a read-check-write race on the only variable the
   handlers share with the loop.
3. **Swallowed driver restart (main.c:431).** Spec §4.C8 calls
   `reset_allowed` one-shot, re-armed by "a subsequent START". Suppose the
   host driver unloads and starts again while the mode-change reload waits
   in `wait_for_all_rx`. Line 431 then reads START and line 433 clears the
   flag. Since `host_state` already equals START, line 400 never sees a
   transition. The next APE mode change is ignored until the driver
   changes state again. Dropping line 431 does not help: the cached value
   was already START.
4. **Overlapping MII registers in the simulator
   (bcm5719_MII_mmap.cpp:110-282).** Register n is bound at byte offset n,
   and the callbacks move 32-bit words. Writing Status (offset 1) overwrites
   byte 1 of Control, in either byte order. Only the registers spaced four
   or more bytes apart behave as a register file.
5. **Loader signature erased (main.c:344-345).** Line 344 stamps
   `SHM.SegSig.Sig` with LOADER "to signal ready". `initSHM(&SHM)` then
   stores the whole word as 'APE!' (335), so the low byte reads '!'. Ports
   1-3 are never stamped. Spec §4.C8 and §5 say each segment carries LOADER
   while the firmware runs. The stamp survives only if the generated header
   defines LOADER as 0x21. The run takes LOADER = 0x4C; any other byte
   gives the same trace.
6. **GRC reset lost in the handler's window (main.c:291-298).**
   `IRQ_PowerStatusChanged` snapshots `APE.Status`, writes the snapshot
   back and only then clears the NVIC pending bit. The trace:
   1. the handler is entered for a power-state change with no reset bit
      set and no debounce running;
   2. a GRC reset sets its bit and pends the IRQ;
   3. the handler acks only the bits it read;
   4. line 298 clears the new pend, and the empty snapshot arms nothing.

   The status bit stays set, nothing is pending, and `gResetTime` is 0, so
   no debounce and no reload follow until some later event. This holds if
   a new status bit pends the line once (edge). If the line is
   level-triggered, the NVIC pends it again on return and the reset is
   caught. The code and the spec do not say which. The environment's
   unfair `PowerStateChange` allows the re-pend without forcing it.
   Clearing the pending bit before reading the status would close the
   window in either case.

## Bounds and why they suffice

- **ApeLoop.**
  - `TimeMod = 4`, debounce `2`, watchdog `1`. These give timeouts that
    elapse, stamps taken at tick 0 (the sentinel case), and wraps inside a
    debounce.
  - One port: `resetInProgress` is an OR over ports.
  - `MaxEvents = 2` lets a second reset land during a debounce or a reload.
    `MaxHostChanges = 1` allows a mode change.
  - `MaxPackets = 1` in the safety run puts one packet's pump steps into
    every window between the IRQs. The liveness run uses 3 events and no
    packets.
  - The safety run reaches about 5.7M states in about 90 s.
- **ApeLoop, restart run.** No reset events or packets, and 3 host changes:
  one enable-state change that triggers the mode-change reload, then an
  unload and a start during it.
- **RmuPump.** `TimeMod = 8`, watchdog `2`, lengths {14, 64, 4100} (14 is
  not a multiple of 4; 4100 bytes is 1025 words, one more than `buffer[]`),
  and 2 packets, so that a second packet meets stale watchdog state.
- **LoaderMailbox.** Two mailboxes, two addresses and two values. That is
  enough for one host's WRITE_MEM to change the word another host's
  READ_MEM reads between the effect and the ACK. The setup runs in front
  of the service with both host actors active, which gives 53k states in
  about 15 s.
- **RxBlock.** 3 blocks, chains of up to 2, full blocks of 8 bytes, last
  blocks of 1 or 5 bytes, and a 2-word FIFO. Retired blocks are reused while
  a chain is still being walked. A full block exactly fills the FIFO, so the
  wait really waits.
- **MIIMmap.** Two values, 1 and 258, whose bytes differ, so that any
  overlap shows. The two adjacent registers, Control and Status, are the
  smallest case of the overlap.
- **Boot.** 4 ports, `TimeMod = 4` with a 2-tick RX timeout, so that waits
  straddle a wrap, and the real 38 cycles.

## Fairness

- **Loop, IRQs, timer, FIFO drain.** The main loop never blocks (spec
  "Suspension points"), and each deliverable IRQ is taken. The GRC
  handler's two steps are weakly fair. The loop and the VMAIN handler are
  strongly fair: they are disabled only while the GRC handler runs, which
  returns in microseconds, so they are enabled again and again. With weak
  fairness, an endless string of GRC re-pends could starve them, which the
  one-step handler never allowed.
  The timer ticks are weakly fair as well. `Tick` is guarded so that no live
  stamp is carried past a full wrap: the loop polls far more often than
  once per 2^32 ms. The NC drains its FIFO under weak fairness.
- **Environment.** The BMC, the host, GRC events and the RX CPUs get no
  fairness: they may stall forever, and a stalled RMU is exactly the case
  the watchdog is for.
- **Chip leaving reset.** Boot assumes the chip leaves reset once clocked,
  as spec test 1 states.

## Not modelled

- **Register facade and the APE simulator binding.** The facade is
  generated headers that are not in the repository. `bcm5719_APE_sim.cpp`
  binds every APE register to `base`, and the register passes its own
  offset at call time from those headers, so its layout cannot be checked.
  The MII index callbacks serve register arrays the MII binding never
  installs.
  Every APE register in that binding is plain memory. Write-1-to-clear
  registers such as `APE.Status`, and command registers such as
  `RxPoolRetire0`, therefore behave differently from the hardware that
  `ApeLoop` and `RxBlock` model. Checking the firmware against that binding
  would need the offsets from those headers.
- **`FwVersion` and `FwFeatures`.** `initSHM` writes them, but no step
  reads them and no property is about them.
- **The insides of external code.** NC-SI, network TX, console and NVRAM
  code are not in the repository; only their effect on modelled state is
  kept. One consequence: the model assumes a failed pass-through TX still
  consumes the packet's words.
- **Statistics.** The `NcsiChannelNcsiRx` counter.
- **Packet and frame contents.** Word values, frame bytes, the
  first/offset layout of RX blocks.
- **The debounce reload's internals.** The reload at 384-388 is one step;
  the host state is not read in that branch, so splitting it would show
  nothing new.

## Plan for later work

1. An abstract debounce specification ("a reload follows the last reset
   event by at least the timeout"), with `ApeLoop` refining it. It needs a
   debounce clock for each reset event. It would cover the two hazards no
   property reaches today. One is a reset landing between the status read
   at 357 and the pending clear at 378. The other is a reset during the
   disabled window (316-388) that only the status poll can see. Today the
   reload at 384 clears `owed` in both cases.
2. Compose `LoaderMailbox` with `ApeLoop`'s pc, so that mailbox commands run
   during the debounce. The setup part of `loaderLoop` is already composed
   with the mailbox.
3. Model `Count = 0` and zero-length RX blocks as an explicit
   hardware-fault run.
