SPECIFICATION Spec
CONSTANTS
    Nil = Nil
    ip1 = ip1
    ip2 = ip2
    Addr = {"a1", "a2"}
    IP = {ip1, ip2}
    Port = {80}
    Timeout = {10}
    Service = {"s1"}
    PortName = {"http"}
    Protocol = {"TCP"}
    IPLists <- MCLists
    UpdatedSets = {}
INVARIANTS
    RefusedToEveryone
