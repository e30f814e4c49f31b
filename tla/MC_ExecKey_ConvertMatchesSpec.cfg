CONSTANTS
    ExecChars <- MC_ExecChars
    MaxLen = 4

SPECIFICATION Spec
INVARIANT ConvertMatchesSpec
CHECK_DEADLOCK FALSE
