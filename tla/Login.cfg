\* Players who share agents, log out themselves, return, and a server that crashes
CONSTANTS
    p1 = p1
    p2 = p2
    a1 = a1
    a2 = a2
    Uid = {p1, p2}
    Agent = {a1, a2}
    NoAgent = NoAgent
    Instances <- All
SPECIFICATION FairSpec
INVARIANTS AgentExclusive SessionKnown NeverAlreadyLogin AgentServes
PROPERTY LoginEnds
CHECK_DEADLOCK FALSE
