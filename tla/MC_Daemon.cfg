CONSTANTS
    i1 = i1
    i2 = i2
    Ids <- MC_Ids
    Ranks <- MC_Ranks
    Names <- MC_CaseNames
    Alphabet <- MC_Alphabet
    Lower <- MC_Lower
    Args <- MC_Args
    Custom <- MC_Custom
    UsageLogModes = {TRUE, FALSE}
    NoExecModes = {TRUE, FALSE}
    Histories <- MC_Histories
    CaseModes = {TRUE, FALSE}
    WaitOnModes = {TRUE, FALSE}
    SetupWrites = FALSE
    Sustained = FALSE
    MaxFsOps = 1
    MaxRequests = 2

SPECIFICATION Spec
INVARIANT TypeOK
INVARIANT MenuLinesOrdered
PROPERTY ShownLineLaunchesItsApp
SYMMETRY IdSymmetry
\* the daemon legitimately blocks in poll() once nothing more happens
CHECK_DEADLOCK FALSE
