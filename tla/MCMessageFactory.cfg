\* An unsigned factory (fevm builders only): signing is not involved; up to
\* five builder calls between set_sequence calls, so every mix of up to five
\* sends and read-only calls is reached.
CONSTANTS
    SeqValues = {0, 1, 3}
    MaxCalls = 5
    SignFaults = FALSE
    Signed = FALSE
INIT Init
NEXT Next
INVARIANT SequenceNumbering
