SPECIFICATION Spec
CONSTANTS
    Known = {"disk_io", "power"}
    Unknown = {"gpu"}
    Fatal = {"power"}
    Skipping = {"power"}
    User = "user_defined"
    MaxLines = 1
    MaxUser = 1
    MaxStarts = 2
    MaxSends = 2
INVARIANT
    SendLosesNothing
CHECK_DEADLOCK FALSE
