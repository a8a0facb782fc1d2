SPECIFICATION HalvesSpec
CONSTANTS
    main = main
    t1 = t1
    t2 = t2
    Caller <- MCCaller
    First = main
    Body <- MCBody
    SizeOf <- MCSizeOf
    Capacity = 6
    Freed = Freed
    MaxCalls = 2
    Batch = 3
    BufferSize = 32
    StaticLen = 2
    LineLen = {1, 3}
    MaxLines = 7
SYMMETRY Symmetry
INVARIANTS
    HalvesTypeOK
    CurlInitialisedOnce
    HandlesAreAccountedFor
    LastChunkIsReadBack
    LinesAreSentOnce
    NothingSkipped
    RecordsFit
CHECK_DEADLOCK FALSE
