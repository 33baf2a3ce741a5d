SPECIFICATION FairSpec
CONSTANTS
    Procs = {p1, p2}
    None = None
    Moves = {"move"}
    BufSize = 4
    MaxBytes = 4
    MaxOpens = 2
    MaxWrites = 1
INVARIANTS
    TypeOK
    CountsOpens
    OpenIsServed
PROPERTIES
    ImplementsFifo
    ReadInOrder
    ReaderWakes
CHECK_DEADLOCK FALSE
