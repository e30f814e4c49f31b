\* Liveness of the poll loop: one desktop identity under two roots; the
\* file system and the FIFO clients may act for ever, with up to two events
\* pending in the watcher and one unread byte in the FIFO.
CONSTANTS
    i1 = i1
    i2 = i2
    Ids = {i1}
    Ranks <- MC_Ranks
    Names <- MC_Names
    Alphabet <- MC_Alphabet
    Lower <- MC_Lower
    Args <- MC_Args
    Custom <- MC_Custom
    UsageLogModes = {FALSE}
    NoExecModes = {FALSE}
    Histories <- MC_NoHistory
    CaseModes = {FALSE}
    WaitOnModes = {TRUE}
    SetupWrites = FALSE
    Sustained = TRUE
    MaxFsOps = 2
    MaxRequests = 1

SPECIFICATION Spec
PROPERTY ChangesEventuallyApplied
PROPERTY CatalogRefinement
PROPERTY FifoEventuallyServed
\* the daemon legitimately blocks in poll() once nothing more happens
CHECK_DEADLOCK FALSE
