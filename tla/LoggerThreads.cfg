\* Three threads of one process, restarts, a file that cannot be opened.
CONSTANTS
    Writers = {w1, w2, w3}
    Nobody = Nobody
    MaxCalls = 2
    MaxRestarts = 1
    Runtimes = {"start", "end"}
SPECIFICATION FairSpec
INVARIANTS
    TypeOK
    RowsWhole
    HeadersByRuntime
    RowsInCallOrder
PROPERTIES
    IsAppendLog
    EveryCallReturns
