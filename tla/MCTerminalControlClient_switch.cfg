SPECIFICATION Spec
CONSTANTS
    Terminals = {t1}
    Devices = {d1, d2}
    d1 = d1
    d2 = d2
    c1 = c1
    c2 = c2
    Owners = {host}
    Host = host
    Sizes = {small}
    MaxLeases = 4
    None = None
    Clients = {c1}
    DeviceOf <- MCDeviceOf
    Transports = {"ipc"}
    MaxMoves = 4
    MaxFaults = 0
INVARIANTS
    ControlOutlivesSelection
CHECK_DEADLOCK FALSE
