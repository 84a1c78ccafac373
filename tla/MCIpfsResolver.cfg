\* Three Cids, two failed attempts each before the content must be there,
\* and a resolver service that may stop.
CONSTANTS
    c1 = c1
    c2 = c2
    c3 = c3
    Tasks <- MCTasks
    MaxAttempts = 2
    ServiceFaults = TRUE
SPECIFICATION Spec
INVARIANT TaskAccounted
PROPERTY EventuallyResolved
\* The run loop blocks on an empty queue: once every task is resolved,
\* dropped or waiting for content, nothing is left to do.
CHECK_DEADLOCK FALSE
