CONSTANTS
    Blocks <- MCBlocks
    MaxChain = 2
    FullBlockBytes = 8
    LastBlockBytes <- MCLastBlockBytes
    FifoCap = 2
SPECIFICATION Spec
INVARIANT TypeOK
INVARIANT RxDrainComplete
INVARIANT PassthroughWordCount
INVARIANT LeByteCount
PROPERTY ImplementsRxPool
