SPECIFICATION FairSpec
CONSTANTS
    e1 = e1
    e2 = e2
    u1 = u1
    u2 = u2
    u3 = u3
    Eds = {e1, e2}
    Urbs = {u1, u2, u3}
    Type <- MCType
    Ep <- MCEp
    Size <- MCSize
    Periodic = {u3}
    Nil = Nil
    MaxPages = 1
    PerPage = 4
    MaxUrbs = 2
    SubmitWhole = TRUE
    FreeSettled = TRUE
    Prompt = TRUE
    MayDie = TRUE
INVARIANTS
    TypeOK
    InFlightTdsAreLive
    EveryTdCounted
    FreedEdUnreachable
    NothingLeftStopped
    LinkedOnce
PROPERTY EveryUrbReturned
CHECK_DEADLOCK FALSE
