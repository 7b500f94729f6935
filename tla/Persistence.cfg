SPECIFICATION Spec
CONSTANTS
    c1 = c1
    n1 = n1
    n2 = n2
    Contracts = {c1}
    Times = {1, 2}
    Ranks = {1, 2}
    Shas = {1}
    Notes = {n1, n2}
    PartLength = 2
    MaxBatch = 2
    Dates = {1, 2, 3}
    PnLs <- MCPnLs
    RollingWindow = 2
    MinSessions = 2
    MaxWrites = 2
    MaxCalls = 3
SYMMETRY Symmetry
CHECK_DEADLOCK FALSE
INVARIANTS
    StoreKeeps
    StoreTells
    LedgerIsSound
