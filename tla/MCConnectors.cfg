SPECIFICATION Spec
CONSTANTS
    Modulus = 16
    Process = {p1, p2}
    MaxMoves = 3
    MaxSamples = 3
    MaxFiles = 4
    Unset = Unset
    Garbage = {0, 1}
    Sockets = 2
    Cores = 2
    ResourcesAsked <- MCResourcesAsked
    PowerAsked <- MCPowerAsked
    Requests <- MCRequests
    Processors <- MCProcessors
    Devices = 2
    Channels = 2
    BoardWanted <- MCBoardWanted
    Buffers <- MCBuffers
    MaxRows = 2
    Parts = 60
    Chips <- MCChips
    TemperatureWanted <- MCTemperatureWanted
    Gpus = 2
    NvmlWanted <- MCNvmlWanted
    MaxFailing = 2
SYMMETRY Symmetry
INVARIANTS
    TypeOK
    FiguresUnderTheirNames
    TemperaturesAreOwn
    AveragesSinceReport
    TrafficCountedOnce
    CpuRateIsPercentage
    ReportsWhatWasAsked
    ReportsWhatSucceeded
    FiguresAddUp
    EnergyCountedOnce
    InstructionsCountedOnce
    ProcessTimeWithinSystem
    LinesAddUp
CHECK_DEADLOCK FALSE
