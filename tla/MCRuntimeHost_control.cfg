SPECIFICATION Spec
CONSTANTS
    Terminals = {t1}
    Sessions = {s}
    SessionOf <- MCSessionOf
    Clients = {c}
    Requests = {r}
    Devices = {d1, d2}
    Owners = {o}
    Sizes = {small, large}
    MaxChunks = 2
    SerialStarts = TRUE
    MaxLeases = 3
    None = None
CHECK_DEADLOCK FALSE
INVARIANTS
    LeaseSizeIsPtySize
    ListenersKnowTheLease
PROPERTIES
    ClientsSeeOrderedOutput
    LeaseEndsByDesign
    ImplementsLeases
    GenerationsOrderObservations
    InputsFollowTenures
    ImplementsSessionControl
