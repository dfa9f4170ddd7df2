CONSTANTS
    Regs <- MCBaseRegs
    Vals <- MCVals
SPECIFICATION Spec
PROPERTY ImplementsRegisterFile
