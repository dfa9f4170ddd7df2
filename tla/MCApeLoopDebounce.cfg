CONSTANTS
    TimeMod <- MCTimeMod
    RMU_WATCHDOG_TIMEOUT_MS <- MCWatchdog
    GRC_RESET_TIMEOUT_MS <- MCGrcTimeout
    PacketLengths <- MCPacketLengths
    HostStates <- MCHostStates
    START = "START"
    Ports = {p0}
    MaxEvents = 2
    MaxPackets = 0
    MaxHostChanges = 0
SPECIFICATION Spec
PROPERTY DebounceRespected
