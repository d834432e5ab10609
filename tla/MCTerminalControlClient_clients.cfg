SPECIFICATION Spec
CONSTANTS
    Terminals = {t1}
    Devices = {d1, d2}
    d1 = d1
    d2 = d2
    c1 = c1
    c2 = c2
    Owners = {host}
    Host = host
    Sizes = {small, large}
    MaxLeases = 4
    None = None
    Clients = {c1, c2}
    DeviceOf <- MCDeviceOf
    Transports = {"ipc", "http"}
    MaxMoves = 3
    MaxFaults = 1
SYMMETRY Symmetric
INVARIANTS
    SettledClientsKnowTheLease
PROPERTIES
    TakeoverNeedsAUser
CHECK_DEADLOCK FALSE
