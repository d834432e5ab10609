SPECIFICATION Spec
CONSTANTS
    Terminals = {t1, t2}
    Sessions = {s}
    SessionOf <- MCSessionOf
    Clients = {}
    Requests = {r}
    Devices = {d1, d2}
    Owners = {o}
    Sizes = {small}
    MaxChunks = 0
    SerialStarts = FALSE
    MaxLeases = 2
    None = None
CHECK_DEADLOCK FALSE
INVARIANTS
    OneControllerPerSession
