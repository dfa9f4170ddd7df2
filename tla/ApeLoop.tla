------------------------------ MODULE ApeLoop ------------------------------
(***************************************************************************)
(* The APE main loop, loaderLoop() in src/ape/main.c, with the two         *)
(* interrupt handlers that preempt it, IRQ_VoltageSource() and             *)
(* IRQ_PowerStatusChanged(), and the RMU pump it calls (module RmuPump).   *)
(*                                                                         *)
(* The only state shared between the handlers and the loop is gResetTime: *)
(* 0 means "no reset being debounced", any other value is the 1 kHz tick   *)
(* at which the reset was last seen.  The loop is cut into steps at every  *)
(* read or write of gResetTime and of the NVIC, because an interrupt can   *)
(* arrive between any two of them; each handler is one atomic step.        *)
(*                                                                         *)
(* The loop's steps (pc):                                                  *)
(*   Setup     lines 340-351  sample host state, initSHM, enable the IRQs  *)
(*   Top       lines 355-375  branch on gResetTime; in branch A read the    *)
(*                            GRC status, re-arm or test the 150 ms timeout *)
(*   A_Stamp   lines 369-371  the fix-up store of a 0 stamp (see below)   *)
(*   A_Clear   lines 378-379  clear the pending GRC IRQ, gResetTime = 0     *)
(*   A_Reload  lines 384-388  wait_for_all_rx, NCSI_reload, re-enable IRQ   *)
(*   A_Pump    line  391      handleBMCPacket(false)                        *)
(*   B_Pump    lines 395-398  handleBMCPacket(true), NCSI_handlePassthrough *)
(*   B_Host    lines 400-424  host driver state / APE mode change test      *)
(*   B_Reload  lines 427-428  mode-change wait_for_all_rx, NCSI_reload      *)
(*   B_Refresh lines 431-433  re-read the host state, reset_allowed = false *)
(***************************************************************************)
EXTENDS Integers, FiniteSets, RmuPump

CONSTANTS
    GRC_RESET_TIMEOUT_MS,  \* 150 ms in the firmware, scaled to model ticks
    Ports,                 \* ports whose PortNGRCReset bit is modelled
    HostStates,            \* values of SHM.HostDriverState.State
    START,                 \* SHM_HOST_DRIVER_STATE_STATE_START
    MaxEvents,             \* bound on reset / voltage-source events
    MaxHostChanges         \* bound on host driver / APE mode changes

ASSUME GRC_RESET_TIMEOUT_MS \in 1 .. (TimeMod - 2)
ASSUME START \in HostStates
ASSUME MaxEvents \in Nat /\ MaxHostChanges \in Nat

VARIABLES
    gResetTime,       \* static uint32_t gResetTime
    grcStatus,        \* APE.Status/Status2 PortNGRCReset bits that are set
    pending,          \* NVIC pending bits: subset of {"VMAIN", "GRC"}
    enabled,          \* NVIC enabled bits
    pc,               \* the main loop's position (see above)
    host_state,       \* loaderLoop local: cached HostDriverState.State
    reset_allowed,    \* loaderLoop local
    hostDriverState,  \* SHM.HostDriverState.State, written by the host
    enableState,      \* what Network_checkEnableState(gPort) returns
    owed,             \* ghost: a reset event has had no NCSI_reload since
    events,           \* ghost: reset and voltage events so far
    hostChanges,      \* ghost: host driver and APE mode changes so far
    hostUnseen,       \* ghost: the host changed its driver state since
                      \* the loop last compared host_state with it
    grcIrqActive,     \* IRQ_PowerStatusChanged has read the status and
                      \* not yet written it back (lines 291-298)
    snapshot          \* its locals status/status2: the bits it read

loopVars == <<gResetTime, grcStatus, pending, enabled, pc, host_state,
              reset_allowed, hostDriverState, enableState, owed, events,
              hostChanges, hostUnseen, grcIrqActive, snapshot>>
irqVars == <<grcIrqActive, snapshot>>
allVars == <<now, rmuVars, loopVars>>

IRQs == {"VMAIN", "GRC"}

\* Fault: the zero tick not adjusted.
StampResetTimeRaw(t) == t

\* gResetTime = Timer_getCurrentTime1KHz(); if (!gResetTime) gResetTime--;
StampResetTime(t) == IF t = 0 THEN TimeMod - 1 ELSE t

\* resetInProgress(status, status2)
resetInProgress(status) == status # {}

\* An interrupt handler is running: the loop and the other IRQ wait.
InHandler == grcIrqActive

\* wait_for_all_rx(); NCSI_reload(AS_NEEDED): the ghost records the reload.
Reload == owed' = FALSE
NoReload == UNCHANGED owed

----------------------------------------------------------------------------
(* The main loop.                                                          *)

LoaderLoopSetup ==
    /\ pc = "Setup"
    /\ host_state' = hostDriverState
    /\ reset_allowed' = (hostDriverState = START)
    /\ enabled' = IRQs
    /\ pc' = "Top"
    /\ hostUnseen' = FALSE
    /\ UNCHANGED <<now, rmuVars, gResetTime, grcStatus, pending,
                   hostDriverState, enableState, owed, events, hostChanges, irqVars>>

\* gResetTime = Timer_getCurrentTime1KHz(); if (!gResetTime) gResetTime--;
\* gResetTime is a plain static shared with the IRQs, so the build may
\* store the fixed-up value once, or store 0 first and fix it up in a
\* second store (pc A_Stamp) that an IRQ can precede.
StampInLoop ==
    \/ /\ gResetTime' = StampResetTime(now)
       /\ pc' = "A_Pump"
    \/ /\ now = 0
       /\ gResetTime' = now
       /\ pc' = "A_Stamp"

\* if (gResetTime) { ... resetInProgress ... didTimeElapsed ... }
TopDebouncing ==
    /\ pc = "Top"
    /\ gResetTime # 0
    /\ \/ /\ resetInProgress(grcStatus)
          /\ grcStatus' = {}                       \* write back: W1C ack
          /\ StampInLoop
       \/ /\ ~resetInProgress(grcStatus)
          /\ Timer_didTimeElapsed1KHz(gResetTime, now, GRC_RESET_TIMEOUT_MS)
          /\ pc' = "A_Clear"
          /\ UNCHANGED <<grcStatus, gResetTime>>
       \/ /\ ~resetInProgress(grcStatus)
          /\ ~Timer_didTimeElapsed1KHz(gResetTime, now, GRC_RESET_TIMEOUT_MS)
          /\ pc' = "A_Pump"
          /\ UNCHANGED <<grcStatus, gResetTime>>
    /\ UNCHANGED <<now, rmuVars, pending, enabled, host_state, reset_allowed,
                   hostDriverState, enableState, owed, events, hostChanges, hostUnseen, irqVars>>

\* if (!gResetTime) gResetTime--;  the second store, rereading the variable.
FixResetTime ==
    /\ pc = "A_Stamp"
    /\ gResetTime' = StampResetTime(gResetTime)
    /\ pc' = "A_Pump"
    /\ UNCHANGED <<now, rmuVars, grcStatus, pending, enabled, host_state, reset_allowed,
                   hostDriverState, enableState, owed, events, hostChanges, hostUnseen, irqVars>>

ClearResetTime ==
    /\ pc = "A_Clear"
    /\ pending' = pending \ {"GRC"}
    /\ gResetTime' = 0
    /\ pc' = "A_Reload"
    /\ UNCHANGED <<now, rmuVars, grcStatus, enabled, host_state, reset_allowed,
                   hostDriverState, enableState, owed, events, hostChanges, hostUnseen, irqVars>>

HandleReset ==
    /\ pc = "A_Reload"
    /\ Reload
    /\ enabled' = enabled \cup {"GRC"}
    /\ pc' = "A_Pump"
    /\ UNCHANGED <<now, rmuVars, gResetTime, grcStatus, pending, host_state,
                   reset_allowed, hostDriverState, enableState, events, hostChanges, hostUnseen, irqVars>>

PumpDebouncing ==
    /\ pc = "A_Pump"
    /\ HandleBMCPacket(FALSE, Reload, NoReload)
    /\ pc' = "Top"
    /\ UNCHANGED <<gResetTime, grcStatus, pending, enabled, host_state,
                   reset_allowed, hostDriverState, enableState, events, hostChanges, hostUnseen, irqVars>>

\* else { Network_checkPortState(gPort); ...
TopSteady ==
    /\ pc = "Top"
    /\ gResetTime = 0
    /\ pc' = "B_Pump"
    /\ UNCHANGED <<now, rmuVars, gResetTime, grcStatus, pending, enabled,
                   host_state, reset_allowed, hostDriverState, enableState,
                   owed, events, hostChanges, hostUnseen, irqVars>>

PumpSteady ==
    /\ pc = "B_Pump"
    /\ HandleBMCPacket(TRUE, Reload, NoReload)
    /\ pc' = "B_Host"
    /\ UNCHANGED <<gResetTime, grcStatus, pending, enabled, host_state,
                   reset_allowed, hostDriverState, enableState, events, hostChanges, hostUnseen, irqVars>>

\* Fault: the gResetTime test inverted.
ModeChangeWantedInverted ==
    reset_allowed /\ ~enableState /\ gResetTime # 0

\* reset_allowed && !Network_checkEnableState(gPort) && !gResetTime
ModeChangeWanted ==
    reset_allowed /\ ~enableState /\ gResetTime = 0

CheckHostState ==
    /\ pc = "B_Host"
    /\ \/ /\ host_state # hostDriverState
          /\ host_state' = hostDriverState
          /\ reset_allowed' = (hostDriverState = START)
          /\ pc' = "Top"
       \/ /\ host_state = hostDriverState
          /\ ModeChangeWanted
          /\ pc' = "B_Reload"
          /\ UNCHANGED <<host_state, reset_allowed>>
       \/ /\ host_state = hostDriverState
          /\ ~ModeChangeWanted
          /\ pc' = "Top"
          /\ UNCHANGED <<host_state, reset_allowed>>
    /\ hostUnseen' = FALSE
    /\ UNCHANGED <<now, rmuVars, gResetTime, grcStatus, pending, enabled,
                   hostDriverState, enableState, owed, events, hostChanges, irqVars>>

\* wait_for_all_rx(); NCSI_reload(AS_NEEDED): up to a second per port, so
\* the host may change its driver state before the loop goes on.
ModeChangeReload ==
    /\ pc = "B_Reload"
    /\ Reload
    /\ pc' = "B_Refresh"
    /\ UNCHANGED <<now, rmuVars, gResetTime, grcStatus, pending, enabled,
                   host_state, reset_allowed, hostDriverState, enableState,
                   events, hostChanges, hostUnseen, irqVars>>

\* host_state = SHM.HostDriverState.bits.State; reset_allowed = false;
RefreshHostState ==
    /\ pc = "B_Refresh"
    /\ host_state' = hostDriverState
    /\ reset_allowed' = FALSE
    /\ pc' = "Top"
    /\ UNCHANGED <<now, rmuVars, gResetTime, grcStatus, pending, enabled,
                   hostDriverState, enableState, owed, events, hostChanges,
                   hostUnseen, irqVars>>

MainLoop ==
    /\ ~InHandler
    /\ \/ LoaderLoopSetup \/ TopDebouncing \/ FixResetTime \/ ClearResetTime
       \/ HandleReset \/ PumpDebouncing \/ TopSteady \/ PumpSteady
       \/ CheckHostState \/ ModeChangeReload \/ RefreshHostState

----------------------------------------------------------------------------
(* The interrupt handlers.  They do not nest and the loop does not run   *)
(* while one is active, but the hardware keeps going: IRQ_PowerStatusChanged *)
(* is two steps, its status read and the rest, with the hardware free to  *)
(* set a status bit and pend the IRQ again in between.                    *)

Deliverable(irq) == irq \in pending \cap enabled

IRQ_VoltageSource ==
    /\ ~InHandler /\ Deliverable("VMAIN")
    /\ pending' = pending \ {"VMAIN"}
    /\ gResetTime' = StampResetTime(now)
    /\ UNCHANGED <<now, rmuVars, grcStatus, enabled, pc, host_state,
                   reset_allowed, hostDriverState, enableState, owed, events, hostChanges, hostUnseen, irqVars>>

\* status = APE.Status; status2 = APE.Status2;
IRQ_PowerStatusChanged ==
    /\ ~InHandler /\ Deliverable("GRC")
    /\ grcIrqActive' = TRUE
    /\ snapshot' = grcStatus
    /\ UNCHANGED <<now, rmuVars, gResetTime, grcStatus, pending, enabled, pc,
                   host_state, reset_allowed, hostDriverState, enableState,
                   owed, events, hostChanges, hostUnseen>>

\* Write the snapshot back (W1C ack of the bits read), clear the pending
\* bit, and arm the debounce if none is running and a reset bit was read.
IRQ_PowerStatusChangedAck ==
    /\ InHandler
    /\ grcStatus' = grcStatus \ snapshot
    /\ pending' = pending \ {"GRC"}
    /\ IF gResetTime = 0 /\ resetInProgress(snapshot)
          THEN /\ gResetTime' = StampResetTime(now)
               /\ enabled' = enabled \ {"GRC"}       \* InterruptClearEnable
          ELSE UNCHANGED <<gResetTime, enabled>>
    /\ grcIrqActive' = FALSE
    /\ snapshot' = {}
    /\ UNCHANGED <<now, rmuVars, pc, host_state, reset_allowed,
                   hostDriverState, enableState, owed, events, hostChanges, hostUnseen>>

----------------------------------------------------------------------------
(* The hardware and the host.                                              *)

\* Port p enters a GRC reset: its status bit is set and the IRQ pends.
GrcReset(p) ==
    /\ events < MaxEvents
    /\ grcStatus' = grcStatus \cup {p}
    /\ pending' = pending \cup {"GRC"}
    /\ owed' = TRUE
    /\ events' = events + 1
    /\ UNCHANGED <<now, rmuVars, gResetTime, enabled, pc, host_state,
                   reset_allowed, hostDriverState, enableState, hostChanges, hostUnseen, irqVars>>

\* The main power rail switches between VMAIN and VAUX.
VoltageSourceChange ==
    /\ events < MaxEvents
    /\ pending' = pending \cup {"VMAIN"}
    /\ owed' = TRUE
    /\ events' = events + 1
    /\ UNCHANGED <<now, rmuVars, gResetTime, grcStatus, enabled, pc,
                   host_state, reset_allowed, hostDriverState, enableState,
                   hostChanges, hostUnseen, irqVars>>

\* A power-state change without a GRC reset; or, for a level-triggered
\* line, the GRC IRQ pending again because a reset bit is still set.
PowerStateChange ==
    /\ "GRC" \notin pending
    /\ pending' = pending \cup {"GRC"}
    /\ UNCHANGED <<now, rmuVars, gResetTime, grcStatus, enabled, pc,
                   host_state, reset_allowed, hostDriverState, enableState,
                   owed, events, hostChanges, hostUnseen, irqVars>>

\* A reload waits up to a second per port (wait_for_all_rx); every other
\* loop pass takes microseconds.
InReload == pc \in {"A_Reload", "B_Reload", "B_Refresh"}

\* The host driver loads, unloads or arms wake-on-LAN.  A driver takes far
\* longer than a loop pass to change state twice, except across a reload.
HostDriverStateChange ==
    /\ hostChanges < MaxHostChanges
    /\ hostUnseen => InReload
    /\ \E s \in HostStates \ {hostDriverState} : hostDriverState' = s
    /\ hostChanges' = hostChanges + 1
    /\ hostUnseen' = TRUE
    /\ UNCHANGED <<now, rmuVars, gResetTime, grcStatus, pending, enabled, pc,
                   host_state, reset_allowed, enableState, owed, events, irqVars>>

\* The host switches the port's APE mode (Network_checkEnableState).
EnableStateChange ==
    /\ hostChanges < MaxHostChanges
    /\ enableState' = ~enableState
    /\ hostChanges' = hostChanges + 1
    /\ UNCHANGED <<now, rmuVars, gResetTime, grcStatus, pending, enabled, pc,
                   host_state, reset_allowed, hostDriverState, owed, events, hostUnseen, irqVars>>

RmuHardware ==
    /\ BmcStartPacket \/ BmcEndPacket
    /\ UNCHANGED loopVars

\* Timestamps the firmware will still compare against the clock.
LiveStamps == RmuStamps \cup (IF gResetTime # 0 THEN {gResetTime} ELSE {})

LoopTick ==
    /\ TickWithin(LiveStamps)
    /\ UNCHANGED <<rmu, packetInProgress, inProgressStartTime, channelEnabled,
                   packets, loopVars>>

Environment ==
    \/ \E p \in Ports : GrcReset(p)
    \/ VoltageSourceChange \/ PowerStateChange
    \/ HostDriverStateChange \/ EnableStateChange \/ RmuHardware

----------------------------------------------------------------------------
(* After __start(): RMU_init() done, gResetTime = 0, pending IRQs cleared, *)
(* and NCSI_init()/NCSI_reload() has covered every earlier event.          *)
Init ==
    /\ RmuInit
    /\ gResetTime = 0
    /\ grcStatus \in SUBSET Ports
    /\ pending = {}
    /\ enabled = {}
    /\ pc = "Setup"
    /\ hostDriverState \in HostStates
    /\ host_state = hostDriverState      \* not yet sampled: any value
    /\ reset_allowed = FALSE
    /\ enableState \in BOOLEAN
    /\ owed = FALSE
    /\ events = 0
    /\ hostChanges = 0
    /\ hostUnseen = FALSE
    /\ grcIrqActive = FALSE
    /\ snapshot = {}

Next ==
    \/ MainLoop \/ IRQ_VoltageSource \/ IRQ_PowerStatusChanged
    \/ IRQ_PowerStatusChangedAck
    \/ LoopTick \/ Environment

\* The loop never blocks, a pending enabled IRQ is taken, a running handler
\* finishes, and time passes.  The loop and the VMAIN handler are disabled
\* only while the GRC handler runs, which returns in microseconds; the NVIC
\* then resumes the loop or takes the pending VMAIN IRQ, so they are
\* strongly fair: being enabled again and again, they do run.
Fairness ==
    /\ SF_allVars(MainLoop)
    /\ SF_allVars(IRQ_VoltageSource)
    /\ WF_allVars(IRQ_PowerStatusChanged)
    /\ WF_allVars(IRQ_PowerStatusChangedAck)
    /\ WF_allVars(LoopTick)

Spec == Init /\ [][Next]_allVars /\ Fairness

----------------------------------------------------------------------------
\* The GRC interrupt, disabled by IRQ_PowerStatusChanged while a reset is
\* debounced, is never left disabled: whenever it is off, gResetTime is
\* non-zero (so the loop will finish the debounce and re-enable it), the
\* loop is about to store the fixed-up stamp (A_Stamp, an IRQ may store
\* first), or the loop is between clearing gResetTime and re-enabling the
\* interrupt.
GrcIrqNotLost ==
    pc # "Setup" /\ "GRC" \notin enabled =>
        gResetTime # 0 \/ pc \in {"A_Stamp", "A_Reload"}

\* A reset or voltage-source event that has not been followed by an
\* NCSI_reload is never forgotten: it is still pending at an enabled IRQ,
\* read by the running IRQ_PowerStatusChanged, recorded in gResetTime, the
\* loop is about to store the fixed-up stamp, or the loop is about to
\* reload (spec section 9: "GRC reset asserted: arm debounce; reinit").
ResetEventTracked ==
    owed => \/ gResetTime # 0
            \/ InHandler /\ resetInProgress(snapshot)
            \/ pc \in {"A_Stamp", "A_Reload", "B_Reload"}
            \/ \E irq \in IRQs : Deliverable(irq)
            \/ pc = "Setup" /\ pending # {}

\* An APE mode change while the host driver is started is acted on: once
\* reset_allowed is set and the port has left APE mode, the loop reaches
\* the mode-change reload (lines 424-428), unless the host or the port
\* changes first.  A debounce in progress (gResetTime != 0) only delays it.
ModeChangeServed ==
    (pc \notin {"Setup", "B_Refresh"} /\ reset_allowed /\ ~enableState)
        ~> (pc = "B_Reload" \/ ~reset_allowed \/ enableState)

\* Pass-through frames are suppressed while a reset is debounced: the
\* loop calls handleBMCPacket(true) only when gResetTime is 0
\* (spec section 8, "Reset debounce exclusivity").
PassthroughOnlyWhenSteady == pc = "B_Pump" => gResetTime = 0

\* The loop clears gResetTime only once 150 ms have elapsed since the
\* value it clears (spec section 5: the main loop may clear it only when
\* it has observed elapsed_since(150 ms)).
DebounceRespected ==
    [][gResetTime # 0 /\ gResetTime' = 0
         => Timer_didTimeElapsed1KHz(gResetTime, now, GRC_RESET_TIMEOUT_MS)]_allVars

\* A host driver that (re)enters START re-arms the mode-change reset
\* (spec section 5: reset_allowed is one-shot, "a subsequent START will
\* re-arm it"): while the host sits in a START written since the loop last
\* compared, either host_state still differs from it, so line 400 will
\* see the transition, or reset_allowed is already set.
\* (Before Setup host_state has not been sampled.)
StartReArms ==
    pc # "Setup" /\ hostUnseen /\ hostDriverState = START
        => host_state # hostDriverState \/ reset_allowed
=============================================================================
