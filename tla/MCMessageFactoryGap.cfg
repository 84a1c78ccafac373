\* A SignedMessageFactory whose signing may fail after the sequence was
\* taken; up to five builder calls between set_sequence calls.
CONSTANTS
    SeqValues = {0, 1, 3}
    MaxCalls = 5
    SignFaults = TRUE
    Signed = TRUE
INIT Init
NEXT Next
INVARIANT SequenceNumbering
