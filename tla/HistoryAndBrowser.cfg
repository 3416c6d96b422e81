CONSTANTS
    c1 = c1
    x1 = x1
    r1 = r1
    r2 = r2
    r3 = r3
    n1 = n1
    n2 = n2
    None = None
    OldConvs = {c1}
    OldAnswers = {x1}
    Requests <- MCRequests
    Notes <- MCNotes
    ann = ann
    bob = bob
    Accounts <- MCAccounts
    MaxCalls = 3
    MaxSessions = 2
    Nobody = Nobody
SPECIFICATION AllSpec
SYMMETRY Symmetry
INVARIANTS
    RenameStands
    SavedMeansStored
    FailuresHaveACause
    ActsAsShown
PROPERTIES
    HistoryKept
CHECK_DEADLOCK FALSE
