CONSTANTS
    ExecChars <- MC_ExecChars
    MaxLen = 6

SPECIFICATION Spec
INVARIANT TypeOK
INVARIANT ValidatedNeverThrows
INVARIANT ArgvRoundTrip
\* convert_exec_to_command returns or throws: final states have no successor
CHECK_DEADLOCK FALSE
