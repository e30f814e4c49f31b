CONSTANTS
    i1 = i1
    i2 = i2
    Ids <- MC_Ids
    Ranks <- MC_Ranks
    Names <- MC_Names
    Alphabet <- MC_Alphabet
    Lower <- MC_Lower
    Args <- MC_Args
    Custom <- MC_Custom
    UsageLogModes = {TRUE}
    NoExecModes = {FALSE}
    Histories <- MC_NoHistory
    CaseModes = {FALSE}
    WaitOnModes = {TRUE}
    SetupWrites = FALSE
    Sustained = FALSE
    MaxFsOps = 1
    MaxRequests = 2

SPECIFICATION Spec
INVARIANT LookupFindsTypedName
CHECK_DEADLOCK FALSE
