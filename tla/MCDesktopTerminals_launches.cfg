CONSTANTS
    s1 = s1
    s2 = s2
    s3 = s3
    Agents = Agents
    Sessions = {s1, s2, s3}
    Terminals = {t1, t2, t3}
    None = None
    Providers = {Agents}
    ProviderOf <- AgentOf
    MaxLaunches = 2
SPECIFICATION Spec
INVARIANTS NoGhosts EntriesNameTerminals AgentSpawnsAreApart NoStartIsStuck
PROPERTIES RestartsReplace
SYMMETRY Symmetry
CHECK_DEADLOCK FALSE
