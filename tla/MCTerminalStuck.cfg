\* A shell that does not read its input.
SPECIFICATION FairSpec
CONSTANTS
    PipeCap = 1
    SocketCap = 1
    Input = 2
    Output = 2
    Background = FALSE
CHECK_DEADLOCK FALSE
PROPERTY HangupEndsSession
