SPECIFICATION FairSpec
CONSTANTS
    Name = {"timings", "default", "update_configuration", "A", "B"}
    Key <- MCKeys
    Value = {1, 2, 3, 5}
    Missing = Missing
    NoValue = NoValue
    PoolCap = 1
    SecondNs = 2
    PluginName <- MCNames
    Files <- TwoFiles
    PluginCount = 1
    BulkSize = 1
    MaxSamples = 2
    MaxEdits = 2
    MaxSignals = 1
INVARIANT
    IntervalsAreConfigured
PROPERTIES
    SignalStopsAgent
    StableFileApplies
CHECK_DEADLOCK FALSE
