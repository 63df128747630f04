\* Finding: a dashboard connects while another has stopped reading.
SPECIFICATION FairSpec
CONSTANTS
    c1 = c1
    c2 = c2
    Conn = {c1, c2}
    Stallable = {c2}
    QueueCap = 1
    SocketCap = 1
    Changes = 0
CHECK_DEADLOCK FALSE
PROPERTY ConnectionAccepted
