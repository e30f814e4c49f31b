\* Every path of execute_app for every argv of one argument of up to two
\* characters.
CONSTANTS
    ArgChars <- MC_ArgChars
    MaxArgs = 1
    MaxArgLen = 2
    Queries <- MC_Queries
    Wrapper <- MC_Wrapper
    Terminal <- MC_Terminal
    Shell <- MC_Shell
    I3Modes = {FALSE}

SPECIFICATION Spec

INVARIANT WrapperGetsCommand
\* execute_app does not return: the process image is replaced
CHECK_DEADLOCK FALSE
