\* Every string of up to 6 characters over letter, quote, blank, backslash
\* and double quote; size_t of 8 bits is wide enough for these lengths.
CONSTANTS
    Chars <- MC_Chars
    MaxLen = 6
    SizeWidth = 8

SPECIFICATION Spec
INVARIANT TypeOK
INVARIANT QuoteRoundTrip
\* sq_quote returns: the final states have no successor
CHECK_DEADLOCK FALSE
