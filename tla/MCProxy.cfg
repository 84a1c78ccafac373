\* All three broadcast modes, with transport failures.
CONSTANTS
    r1 = r1
    r2 = r2
    r3 = r3
    Requests <- MCRequests
    Modes = {"async", "sync", "commit"}
    TransportFaults = TRUE
    NoReq = NoReq
SPECIFICATION Spec
PROPERTY OkSequencesAscend
\* The request set is finite: once every request is answered and the
\* mempool is drained, nothing is left to do.
CHECK_DEADLOCK FALSE
