SPECIFICATION Spec
CONSTANTS
    Procs = {p1, p2}
    None = None
    Moves = {"move", "fa"}
    BufSize = 4
    MaxBytes = 4
    MaxOpens = 1
    MaxWrites = 0
INVARIANT AckIsExpected
CHECK_DEADLOCK FALSE
