\* Async mode only, no transport failures: broadcast answers as soon as the
\* node has the message. The request set is finite, so the system stops.
CONSTANTS
    r1 = r1
    r2 = r2
    r3 = r3
    Requests <- MCRequests
    NoReq = NoReq
    Modes = {"async"}
    TransportFaults = FALSE
SPECIFICATION Spec
CHECK_DEADLOCK FALSE
INVARIANT NonceInSync
