\* Every path of execute_app for every argv of up to two arguments of up to
\* three characters.
CONSTANTS
    ArgChars <- MC_ArgChars
    MaxArgs = 2
    MaxArgLen = 3
    Queries <- MC_Queries
    Wrapper <- MC_Wrapper
    Terminal <- MC_Terminal
    Shell <- MC_Shell
    I3Modes = {TRUE, FALSE}

SPECIFICATION Spec
INVARIANT LaunchPreservesArgv
\* execute_app does not return: the process image is replaced
CHECK_DEADLOCK FALSE
