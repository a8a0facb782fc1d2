SPECIFICATION Spec
CONSTANTS
    Name = {"timings", "default", "update_configuration", "A", "B"}
    Key <- MCKeys
    Value = {1, 2, 3, 5}
    Missing = Missing
    NoValue = NoValue
    PoolCap = 1
    SecondNs = 2
    PluginName <- MCNames
    Files <- OneFile
    PluginCount = 2
    BulkSize = 2
    MaxSamples = 4
    MaxEdits = 0
    MaxSignals = 2
INVARIANTS
    TypeOK
    NoHookAfterUnload
    StopIsPrompt
PROPERTY
    DeliversSamples
CHECK_DEADLOCK FALSE
