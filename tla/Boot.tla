-------------------------------- MODULE Boot --------------------------------
(***************************************************************************)
(* Bring-up: __start(), handle_reset() and wait_for_all_rx() in            *)
(* src/ape/main.c, from reset to the call of loaderLoop().                 *)
(*                                                                         *)
(* A zero ChipId means the device is held in reset: the APE takes the      *)
(* clock mux, bit-bangs 38 cycles of a differential clock on GPIO pins 0   *)
(* and 1, polls ChipId until it reads non-zero, gives the mux back to PCIe *)
(* and waits for each port's RX CPU (Halted, the RCPU signature, or a      *)
(* timeout).  Then the console reset may force a full init, and the NC-SI  *)
(* stack is initialised or reloaded.  Each pc value is one loop iteration  *)
(* or one straight-line stretch between two register accesses that the     *)
(* hardware reacts to.                                                     *)
(***************************************************************************)
EXTENDS Integers, Timer1KHz

CONSTANTS
    NumPorts,                  \* DEVICE..DEVICE3 / SHM..SHM3
    RX_CPU_RESET_TIMEOUT_MS,   \* 1000 ms, scaled to model ticks
    ClockCycles                \* the 38 of the bit-bang loop

ASSUME NumPorts \in Nat \ {0}
ASSUME RX_CPU_RESET_TIMEOUT_MS \in 1 .. (TimeMod - 2)
ASSUME ClockCycles \in Nat \ {0}

VARIABLES
    pc,          \* where __start is
    now,         \* Timer_getCurrentTime1KHz()
    chipId,      \* DEVICE.ChipId.r32 # 0
    gpio,        \* APE.Gpio: Clock_P, Clock_N, mux (APE or PCIe)
    i,           \* the bit-bang loop counter
    rxReady,     \* rxReady[p]: RX CPU p Halted or its SHM shows RCPU
    port,        \* the port wait_for_all_rx is waiting on
    startTime,   \* wait_for_rx's startTime
    full_init,
    ncsi,        \* how the NC-SI stack was started
    hostStart    \* SHM.HostDriverState.bits.State == START

vars == <<pc, now, chipId, gpio, i, rxReady, port, startTime, full_init, ncsi,
          hostStart>>

Ports == 1 .. NumPorts

TypeOK ==
    /\ pc \in {"Start", "Toggle", "ChipWait", "WaitRx", "Console", "Ncsi", "Loop"}
    /\ now \in Ticks
    /\ chipId \in BOOLEAN
    /\ gpio \in [p : {0, 1}, n : {0, 1}, mux : {"APE", "PCIe"}]
    /\ i \in 0 .. ClockCycles
    /\ rxReady \in [Ports -> BOOLEAN]
    /\ port \in Ports
    /\ startTime \in Ticks
    /\ full_init \in BOOLEAN
    /\ ncsi \in {"none", "init", "reload_as_needed", "reload_never"}
    /\ hostStart \in BOOLEAN

----------------------------------------------------------------------------
(* __start and handle_reset.                                               *)

\* ChipId reads non-zero: handle_reset returns false, no reset.
NoReset ==
    /\ pc = "Start"
    /\ chipId
    /\ pc' = "Console"
    /\ full_init' = FALSE
    /\ UNCHANGED <<now, chipId, gpio, i, rxReady, port, startTime, ncsi, hostStart>>

\* NVIC pending cleared, gResetTime = 0, vector table switched (state the
\* main loop starts from), then handle_reset reads ChipId = 0.  The locks
\* are released and pins 0-2 driven: Clock_P = 1, Clock_N = 0, mux = APE.
StartReset ==
    /\ pc = "Start"
    /\ ~chipId
    /\ gpio' = [p |-> 1, n |-> 0, mux |-> "APE"]
    /\ pc' = "Toggle"
    /\ UNCHANGED <<now, chipId, i, rxReady, port, startTime, ncsi, hostStart, full_init>>

\* for (i = 0; i < 38; i++): invert both clock pins in one GPIO write.
Clock ==
    /\ pc = "Toggle"
    /\ IF i < ClockCycles
          THEN gpio' = [gpio EXCEPT !.p = 1 - @, !.n = 1 - @] /\ i' = i + 1
               /\ UNCHANGED pc
          ELSE pc' = "ChipWait" /\ UNCHANGED <<gpio, i>>
    /\ UNCHANGED <<now, chipId, rxReady, port, startTime, full_init, ncsi,
                   hostStart>>

\* do chip_id = DEVICE.ChipId.r32; while (!chip_id);  then the mux back to
\* PCIe and wait_for_all_rx() from the first port.
ChipReadable ==
    /\ pc = "ChipWait"
    /\ chipId
    /\ gpio' = [gpio EXCEPT !.mux = "PCIe"]
    /\ pc' = "WaitRx"
    /\ port' = 1
    /\ startTime' = now
    /\ UNCHANGED <<now, chipId, i, rxReady, full_init, ncsi, hostStart>>

\* One pass of wait_for_rx's loop that ends it: Halted, RCPU, or timeout.
\* The last port returns from handle_reset with true.
WaitRxDone ==
    /\ pc = "WaitRx"
    /\ rxReady[port] \/ Timer_didTimeElapsed1KHz(startTime, now, RX_CPU_RESET_TIMEOUT_MS)
    /\ IF port < NumPorts
          THEN port' = port + 1 /\ startTime' = now /\ UNCHANGED <<pc, full_init>>
          ELSE pc' = "Console" /\ full_init' = TRUE /\ UNCHANGED <<port, startTime>>
    /\ UNCHANGED <<now, chipId, gpio, i, rxReady, ncsi, hostStart>>

\* The polls that find nothing: the ChipId spin and wait_for_rx's loop.
Spin ==
    /\ \/ pc = "ChipWait" /\ ~chipId
       \/ pc = "WaitRx" /\ ~rxReady[port]
             /\ ~Timer_didTimeElapsed1KHz(startTime, now, RX_CPU_RESET_TIMEOUT_MS)
    /\ UNCHANGED vars

\* if (reset_ape_console()) full_init = true;
ConsoleReset ==
    /\ pc = "Console"
    /\ \E cold \in BOOLEAN : full_init' = (full_init \/ cold)
    /\ pc' = "Ncsi"
    /\ UNCHANGED <<now, chipId, gpio, i, rxReady, port, startTime, ncsi, hostStart>>

\* RMU_init(); NCSI_init() or NCSI_reload(AS_NEEDED / NEVER_RESET); then
\* loaderLoop().
NcsiStart ==
    /\ pc = "Ncsi"
    /\ ncsi' = IF full_init THEN "init"
               ELSE IF hostStart THEN "reload_never" ELSE "reload_as_needed"
    /\ pc' = "Loop"
    /\ UNCHANGED <<now, chipId, gpio, i, rxReady, port, startTime, full_init,
                   hostStart>>

----------------------------------------------------------------------------
(* The device.                                                             *)

\* The chip leaves reset once the recovery clock has run its 38 cycles.
DeviceLeavesReset ==
    /\ ~chipId
    /\ i = ClockCycles
    /\ chipId' = TRUE
    /\ UNCHANGED <<pc, now, gpio, i, rxReady, port, startTime, full_init, ncsi,
                   hostStart>>

\* An RX CPU halts or finishes its initialisation (or never does).
RxCpuReady(p) ==
    /\ ~rxReady[p]
    /\ rxReady' = [rxReady EXCEPT ![p] = TRUE]
    /\ UNCHANGED <<pc, now, chipId, gpio, i, port, startTime, full_init, ncsi,
                   hostStart>>

\* One millisecond; wait_for_rx polls far more often than the counter wraps.
Tick ==
    /\ pc = "WaitRx" => Age(startTime, now) + 1 < TimeMod
    /\ now' = NextTick(now)
    /\ UNCHANGED <<pc, chipId, gpio, i, rxReady, port, startTime, full_init, ncsi,
                   hostStart>>

----------------------------------------------------------------------------
Init ==
    /\ pc = "Start"
    /\ now \in Ticks
    /\ chipId \in BOOLEAN
    /\ gpio = [p |-> 0, n |-> 0, mux |-> "PCIe"]
    /\ i = 0
    /\ rxReady = [p \in Ports |-> FALSE]
    /\ port = 1
    /\ startTime = 0
    /\ full_init = FALSE
    /\ ncsi = "none"
    /\ hostStart \in BOOLEAN

Firmware == NoReset \/ StartReset \/ Clock \/ ChipReadable \/ WaitRxDone \/ ConsoleReset
                \/ NcsiStart

\* Once in loaderLoop, __start is done: the main loop is ApeLoop's.
Done == pc = "Loop" /\ UNCHANGED vars

Next == Firmware \/ Spin \/ DeviceLeavesReset \/ (\E p \in Ports : RxCpuReady(p))
            \/ Tick \/ Done

\* The APE runs __start to the end; the chip answers the clock it was given;
\* the timer keeps counting.  RX CPUs may never become ready.
Spec == Init /\ [][Next]_vars /\ WF_vars(Firmware) /\ WF_vars(DeviceLeavesReset)
             /\ WF_vars(Tick)

----------------------------------------------------------------------------
\* Bring-up always reaches loaderLoop: the ChipId spin ends once the chip
\* is clocked, and wait_for_rx ends by its timeout even when an RX CPU
\* never halts or signs in.
BootCompletes == <>(pc = "Loop")
=============================================================================
