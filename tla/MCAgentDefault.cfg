SPECIFICATION Spec
CONSTANTS
    Name = {"timings", "default", "update_configuration", "A", "B"}
    Key <- MCKeys
    Value = {1, 2, 3, 5}
    Missing = Missing
    NoValue = NoValue
    PoolCap = 1
    SecondNs = 2
    PluginName <- MCNames
    Files <- DefaultFile
    PluginCount = 1
    BulkSize = 1
    MaxSamples = 0
    MaxEdits = 0
    MaxSignals = 0
INVARIANT
    DefaultIntervalApplies
CHECK_DEADLOCK FALSE
