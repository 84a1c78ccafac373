\* Sync mode without transport failures.
CONSTANTS
    r1 = r1
    r2 = r2
    r3 = r3
    Requests <- MCRequests
    Modes = {"sync"}
    TransportFaults = FALSE
    NoReq = NoReq
SPECIFICATION Spec
INVARIANT NonceInSync
\* The request set is finite: once every request is answered and the
\* mempool is drained, nothing is left to do.
CHECK_DEADLOCK FALSE
