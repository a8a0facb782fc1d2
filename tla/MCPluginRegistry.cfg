SPECIFICATION Spec
CONSTANTS
    Plugin = {p1, p2, p3}
    Foreign = {dot}
    MaxSlots = 4
    None = None
SYMMETRY Symmetry
INVARIANTS
    TypeOK
    HookMatchesName
    HooksStayMapped
    HooksAreReleased
    IndicesInBounds
CHECK_DEADLOCK FALSE
