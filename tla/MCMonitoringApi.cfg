SPECIFICATION FairSpec
CONSTANTS
    Known = {"disk_io", "power"}
    Unknown = {}
    Fatal = {"power"}
    Skipping = {"power"}
    User = "user_defined"
    MaxLines = 2
    MaxUser = 1
    MaxStarts = 2
    MaxSends = 2
INVARIANTS
    TypeOK
    EndLeavesDataOnDisk
    LossNeedsFailedRequest
    
PROPERTY
    EndTerminates
CHECK_DEADLOCK FALSE
