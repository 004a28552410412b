SPECIFICATION GenSpec
CONSTANTS
    StartIPs <- CarryStartIPs
    Requests <- SmallRequests
    PortBase = 16384
INVARIANTS
    AddressesSequential
CHECK_DEADLOCK FALSE
