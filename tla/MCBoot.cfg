CONSTANTS
    TimeMod <- MCTimeMod
    RX_CPU_RESET_TIMEOUT_MS <- MCRxTimeout
    NumPorts = 4
    ClockCycles = 38
SPECIFICATION Spec
PROPERTY BootCompletes
