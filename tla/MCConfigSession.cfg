SPECIFICATION Spec
CONSTANTS
    Name = {"plugins", "timings", "a", "b"}
    Key <- MCKeys
    Value = {"on", "off"}
    Files <- MCFiles
    Missing = Missing
    NoValue = NoValue
    PoolCap = 3
    MaxParses = 3
    MaxEdits = 3
INVARIANTS
    TypeOK
    LookupsShowFile
CHECK_DEADLOCK FALSE
