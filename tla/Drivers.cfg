SPECIFICATION Spec
CONSTANTS
    t1 = t1  t2 = t2  t3 = t3  t4 = t4  t5 = t5  null = null  i1 = i1  i2 = i2
    MaxPages = 2
    PerPage = 2
    Threads <- MCThreads
    Kernel <- MCKernel
    Null = null
    Rates = {176900, 191700, 206400}
    Settings = {176900, 191700}
    Sockets = {0}
    Access = {100, 255, 600}
    Prompt = TRUE
    Irqs <- MCIrqs
    Ints = {1, 2, 3}
    EdgesWhileMasked = FALSE
    MaxPinChanges = 2
    Tds = {1, 2, 3}
    MaxParts = 4
INVARIANTS HandedOutOnce NoneLost DramInSpec MecrLongEnough BusAgrees AlwaysListening ChainAlive
    RunsWhatWasFilled
PROPERTIES ImplementsDevice EverySourceFetched TruthIsTold
CHECK_DEADLOCK FALSE
