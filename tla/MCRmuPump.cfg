CONSTANTS
    TimeMod <- MCTimeMod
    RMU_WATCHDOG_TIMEOUT_MS <- MCWatchdog
    PacketLengths <- MCPacketLengths
    MaxPackets = 2
SPECIFICATION PumpSpec
INVARIANT NoFifoResidue
PROPERTY WatchdogOnlyWhenStuck
PROPERTY RmuHangRecovered
