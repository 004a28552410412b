SPECIFICATION GenSpec
CONSTANTS
    StartIPs <- MCStartIPs
    Requests <- MCRequests
    PortBase = 16384
INVARIANTS
    AddressesDistinct
    ObjectsAsRequested
CHECK_DEADLOCK FALSE
