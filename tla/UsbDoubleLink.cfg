SPECIFICATION Spec
CONSTANTS
    e1 = e1
    e2 = e2
    u1 = u1
    u2 = u2
    u3 = u3
    Eds = {e1}
    Urbs = {u1, u2}
    Type <- MCType
    Ep <- MCEp
    Size <- MCSize
    Periodic = {}
    Nil = Nil
    MaxPages = 1
    PerPage = 4
    MaxUrbs = 2
    SubmitWhole = FALSE
    FreeSettled = TRUE
    Prompt = TRUE
    MayDie = FALSE
INVARIANT LinkedOnce
CHECK_DEADLOCK FALSE
