CONSTANTS
    Mailboxes <- MCMailboxes
    Addrs <- MCAddrs
    Vals <- MCVals
    READ_MEM = READ_MEM
    WRITE_MEM = WRITE_MEM
    CALL = CALL
    Unknown = Unknown
    LOADER <- MCLoader
SPECIFICATION Spec
INVARIANT ReadResultValid
PROPERTY ImplementsService
