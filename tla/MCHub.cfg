\* One dashboard that may stop reading or leave at any time, a queue of two, one change.
SPECIFICATION FairSpec
CONSTANTS
    c1 = c1
    c2 = c2
    Conn = {c2}
    Stallable = {c2}
    QueueCap = 2
    SocketCap = 1
    Changes = 1
CHECK_DEADLOCK FALSE
INVARIANT NoWriteAfterClose
PROPERTY TicksInOrder
PROPERTY EventuallyCurrent
PROPERTY LeaversForgotten
PROPERTY PublishersNeverWait
