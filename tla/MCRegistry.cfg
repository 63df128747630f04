\* Structure: every interleaving of calls, failed saves, crashes and restarts.
SPECIFICATION Spec
CONSTANTS
    n1 = n1
    n2 = n2
    a1 = a1
    a2 = a2
    noMac = noMac
    NodeID = {n1, n2}
    MAC = {a1, a2, noMac}
    NoMAC = noMac
    Addr = {"here"}
    Token = {"tok"}
    Timeout = 1
    ReapPeriod = 1
    SaveFaults = {"kept", "torn", "crash"}
    MaxOctet = 4
SYMMETRY Symmetry
INVARIANT TypeOK
INVARIANT UniqueMeshIPs
INVARIANT UniqueMACs
INVARIANT Allocation
INVARIANT StalenessBound
