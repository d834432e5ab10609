SPECIFICATION TimerSpec
CONSTANTS
    Terminals = {t1, t2, t3}
    Sessions = {s}
    SessionOf <- MCSessionOf
    Clients = {}
    Requests = {r1, r2}
    Devices = {d1}
    Owners = {o}
    Sizes = {small}
    MaxChunks = 0
    SerialStarts = TRUE
    MaxLeases = 1
    None = None
CHECK_DEADLOCK FALSE
INVARIANTS
    AckMeansStopped
    OneTerminalPerSession
PROPERTIES
    StopIsAnswered
    ForcedStopEndsTerminal
