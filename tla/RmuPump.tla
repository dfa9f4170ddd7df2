------------------------------ MODULE RmuPump ------------------------------
(***************************************************************************)
(* The RMU packet pump, handleBMCPacket() in src/ape/main.c, together with *)
(* an abstraction of the RMU hardware that delivers BMC-to-NC packets.     *)
(*                                                                         *)
(* The RMU exposes one status word (BmcToNcRxStatus).  A packet is first   *)
(* InProgress, then New with its length, Bad and Passthru bits; its words  *)
(* are read out of BmcToNcReadBuffer and, once the last word is read, the  *)
(* RMU is Idle again.  The pump keeps two statics, packetInProgress and    *)
(* inProgressStartTime, which implement the 10 ms RMU watchdog.            *)
(*                                                                         *)
(* HandleBMCPacket(passthrough, Reload, NoReload) is the whole function;   *)
(* the caller passes what "wait_for_all_rx(); NCSI_reload(AS_NEEDED)" and  *)
(* "no reload" do to its own variables, so that the main loop can compose  *)
(* it.  Spec is the pump alone, called with either argument.               *)
(***************************************************************************)
EXTENDS Integers, FiniteSetsExt, Timer1KHz

CONSTANTS
    RMU_WATCHDOG_TIMEOUT_MS, \* 10 ms in the firmware, scaled to model ticks
    PacketLengths,           \* byte lengths the BMC may send
    MaxPackets               \* bound on the packets the BMC starts

ASSUME RMU_WATCHDOG_TIMEOUT_MS \in 1 .. (TimeMod - 2)
ASSUME PacketLengths \subseteq Nat \ {0}
ASSUME MaxPackets \in Nat

VARIABLES
    now,                  \* Timer_getCurrentTime1KHz()
    rmu,                  \* the RMU's BmcToNcRxStatus and read FIFO
    packetInProgress,     \* static bool packetInProgress
    inProgressStartTime,  \* static uint32_t inProgressStartTime
    channelEnabled,       \* gPort->shm_channel->NcsiChannelInfo.Enabled
    hwAge,                \* ghost: ms the RMU has been InProgress (saturating)
    packets               \* ghost: packets started by the BMC so far

rmuVars == <<rmu, packetInProgress, inProgressStartTime, channelEnabled, hwAge,
             packets>>

\* Fault: the word count rounded down instead of up.
WordsTruncated(bytes) == bytes \div 4

\* DIVIDE_RND_UP(bytes, sizeof(uint32_t))
Words(bytes) == (bytes + 3) \div 4

\* The words the RMU holds for a packet of the given length (hardware).
PacketWords(bytes) == (bytes + 3) \div 4

RmuIdle == [state |-> "Idle", bad |-> FALSE, pt |-> FALSE, len |-> 0, fifo |-> 0]

RmuStatus ==
    [state : {"Idle", "InProgress", "New"}, bad : BOOLEAN, pt : BOOLEAN,
     len : PacketLengths \cup {0}, fifo : 0 .. PacketWords(Max(PacketLengths))]

\* Reading k words of BmcToNcReadBuffer: the RMU returns to Idle once the
\* last word of the packet has been read.
ReadWords(k) ==
    rmu' = IF rmu.fifo <= k THEN RmuIdle ELSE [rmu EXCEPT !.fifo = @ - k]

\* RMU_resetBadPacket(): ACK and drop the bad packet (RMU code, not in src).
RMU_resetBadPacket == rmu' = RmuIdle

\* RMU_init(): reinitialise the RMU state machine, dropping anything in it.
RMU_init == rmu' = RmuIdle

\* uint32_t buffer[1024]: the words an NC-SI frame may have.
BufferWords == 1024

\* Fault: the drain loop bounded by the buffer instead of the packet.
DropPacketCapped(bytes) ==
    ReadWords(IF Words(bytes) > BufferWords THEN BufferWords ELSE Words(bytes))

\* while (words--) { (void)APE_PERI.BmcToNcReadBuffer.r32; }: read the
\* packet out of the RMU and drop it.
DropPacket(bytes) == ReadWords(Words(bytes))

\* handleNCSIFrame(frame), NC-SI module: the only NC-SI commands modelled
\* are Enable Channel and Disable Channel, which set the channel's Enabled.
handleNCSIFrame == channelEnabled' \in BOOLEAN

\* Network_TX_transmitPassthroughPacket(bytes, port): streams the packet's
\* words from the RMU to the network; TRUE or FALSE (TX wedged).
Network_TX_transmitPassthroughPacket(bytes) == ReadWords(Words(bytes))

----------------------------------------------------------------------------
(* The three cases of handleBMCPacket, selected by the one status read.    *)

\* The packet is consumed: ACKed if Bad, else read out (for the NC-SI
\* handler, or dropped) or streamed to the network.
ConsumeNew(passthrough, Reload, NoReload) ==
    \/ /\ rmu.bad
       /\ RMU_resetBadPacket
       /\ UNCHANGED channelEnabled
       /\ NoReload
    \/ /\ ~rmu.bad /\ ~rmu.pt
       \* "Dropping NCSI packet" when it overflows buffer[], else read into
       \* buffer[] and handed to handleNCSIFrame().
       /\ IF Words(rmu.len) > BufferWords
             THEN DropPacket(rmu.len) /\ UNCHANGED channelEnabled
             ELSE ReadWords(Words(rmu.len)) /\ handleNCSIFrame
       /\ NoReload
    \/ /\ ~rmu.bad /\ rmu.pt
       /\ channelEnabled /\ passthrough
       /\ Network_TX_transmitPassthroughPacket(rmu.len)
       /\ Reload \/ NoReload                    \* returned FALSE / TRUE
       /\ UNCHANGED channelEnabled
    \/ /\ ~rmu.bad /\ rmu.pt
       /\ ~(channelEnabled /\ passthrough)
       /\ DropPacket(rmu.len)                   \* "Dropping PT"
       /\ UNCHANGED channelEnabled
       /\ NoReload

\* Fault: the New case leaves packetInProgress set.
HandleNewKeepsWatch(passthrough, Reload, NoReload) ==
    /\ rmu.state = "New"
    /\ UNCHANGED <<packetInProgress, inProgressStartTime>>
    /\ ConsumeNew(passthrough, Reload, NoReload)

\* stat.bits.New: clear packetInProgress and consume the packet.
HandleNew(passthrough, Reload, NoReload) ==
    /\ rmu.state = "New"
    /\ packetInProgress' = FALSE
    /\ UNCHANGED inProgressStartTime
    /\ ConsumeNew(passthrough, Reload, NoReload)

\* stat.bits.InProgress, first observation: start the watchdog.
HandleInProgressStart ==
    /\ rmu.state = "InProgress"
    /\ ~packetInProgress
    /\ packetInProgress' = TRUE
    /\ inProgressStartTime' = now
    /\ UNCHANGED rmu

\* Fault: every InProgress poll restarts the watchdog.
HandleInProgressWatchRestart ==
    /\ rmu.state = "InProgress"
    /\ packetInProgress
    /\ IF Timer_didTimeElapsed1KHz(inProgressStartTime, now, RMU_WATCHDOG_TIMEOUT_MS)
          THEN RMU_init /\ packetInProgress' = FALSE /\ UNCHANGED inProgressStartTime
          ELSE UNCHANGED <<rmu, packetInProgress>> /\ inProgressStartTime' = now

\* stat.bits.InProgress, already watching: reset the RMU after the timeout.
HandleInProgressWatch ==
    /\ rmu.state = "InProgress"
    /\ packetInProgress
    /\ IF Timer_didTimeElapsed1KHz(inProgressStartTime, now, RMU_WATCHDOG_TIMEOUT_MS)
          THEN RMU_init /\ packetInProgress' = FALSE
          ELSE UNCHANGED <<rmu, packetInProgress>>
    /\ UNCHANGED inProgressStartTime

HandleBMCPacket(passthrough, Reload, NoReload) ==
    /\ \/ HandleNew(passthrough, Reload, NoReload)
       \/ /\ HandleInProgressStart \/ HandleInProgressWatch
          /\ UNCHANGED channelEnabled
          /\ NoReload
       \/ /\ rmu.state = "Idle"
          /\ UNCHANGED <<rmu, packetInProgress, inProgressStartTime, channelEnabled>>
          /\ NoReload
    /\ UNCHANGED <<now, hwAge, packets>>

----------------------------------------------------------------------------
(* The RMU hardware.                                                       *)

BmcStartPacket ==
    /\ rmu.state = "Idle"
    /\ packets < MaxPackets
    /\ rmu' = [rmu EXCEPT !.state = "InProgress"]
    /\ hwAge' = 0
    /\ packets' = packets + 1
    /\ UNCHANGED <<now, packetInProgress, inProgressStartTime, channelEnabled>>

\* The packet completes.  A hung RMU is one that never takes this step.
BmcEndPacket ==
    /\ rmu.state = "InProgress"
    /\ \E bad, pt \in BOOLEAN, len \in PacketLengths :
          rmu' = [state |-> "New", bad |-> bad, pt |-> pt, len |-> len,
                  fifo |-> PacketWords(len)]
    /\ UNCHANGED <<now, packetInProgress, inProgressStartTime, channelEnabled,
                   hwAge, packets>>

\* Timestamps the pump will still compare against the clock.
RmuStamps == IF packetInProgress THEN {inProgressStartTime} ELSE {}

\* One millisecond passes.  The firmware polls the RMU far more often than
\* the counter wraps, so time never carries a live timestamp past a wrap.
TickWithin(stamps) ==
    /\ \A t \in stamps : Age(t, now) + 1 < TimeMod
    /\ now' = NextTick(now)
    /\ hwAge' = IF rmu.state = "InProgress"
                   THEN IF hwAge < RMU_WATCHDOG_TIMEOUT_MS THEN hwAge + 1 ELSE hwAge
                   ELSE hwAge

----------------------------------------------------------------------------
(* The pump on its own, called by a loop that may pass either argument.    *)

RmuInit ==
    /\ now \in Ticks
    /\ rmu = RmuIdle                     \* RMU_init() in __start
    /\ packetInProgress = FALSE
    /\ inProgressStartTime = 0
    /\ channelEnabled \in BOOLEAN
    /\ hwAge = 0
    /\ packets = 0

vars == <<now, rmuVars>>

Pump == \E pt \in BOOLEAN : HandleBMCPacket(pt, TRUE, TRUE)

Tick ==
    /\ TickWithin(RmuStamps)
    /\ UNCHANGED <<rmu, packetInProgress, inProgressStartTime, channelEnabled,
                   packets>>

PumpNext == Pump \/ BmcStartPacket \/ BmcEndPacket \/ Tick

PumpSpec == RmuInit /\ [][PumpNext]_vars /\ WF_vars(Pump) /\ WF_vars(Tick)

----------------------------------------------------------------------------
TypeOK ==
    /\ now \in Ticks
    /\ rmu \in RmuStatus
    /\ packetInProgress \in BOOLEAN
    /\ inProgressStartTime \in Ticks
    /\ channelEnabled \in BOOLEAN
    /\ hwAge \in 0 .. RMU_WATCHDOG_TIMEOUT_MS
    /\ packets \in 0 .. MaxPackets

\* A New packet is never partly read: every path through the New case of
\* handleBMCPacket reads exactly DIVIDE_RND_UP(PacketLength, 4) words, so
\* the RMU is never left with the tail of one packet in front of the next.
NoFifoResidue == rmu.state = "New" => rmu.fifo = PacketWords(rmu.len)

\* The watchdog (RMU_init from the InProgress case) only fires on an RMU
\* that has really been InProgress, without a New, for the whole timeout:
\* packetInProgress must not carry the start time of an earlier packet.
WatchdogOnlyWhenStuck ==
    [][rmu.state = "InProgress" /\ rmu'.state = "Idle"
         => hwAge >= RMU_WATCHDOG_TIMEOUT_MS]_vars

\* A hung RMU (InProgress that never becomes New) is always recovered:
\* the pump eventually resets it with RMU_init.
RmuHangRecovered == (rmu.state = "InProgress") ~> (rmu.state # "InProgress")
=============================================================================
