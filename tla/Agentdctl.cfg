CONSTANTS
    a1 = a1  b1 = b1  b2 = b2  c1 = c1  c2 = c2
    Agents = {a1}
    Bodies = {b1, b2}
    None = None
    Clients = {c1, c2}
    Flags <- MCFlags
SPECIFICATION FairSpec
INVARIANTS TypeOK InTurnNothingLost
PROPERTIES CommandsEnd DaemonReachable
