\* Input and output that overflow pipes and goroutines, background processes,
\* hang-ups.
SPECIFICATION FairSpec
CONSTANTS
    PipeCap = 1
    SocketCap = 1
    Input = 2
    Output = 3
    Background = TRUE
CHECK_DEADLOCK FALSE
INVARIANT WritersHoldLock
INVARIANT CleanEnd
PROPERTY HangupEndsUnlessStuck
PROPERTY OutputDelivered
