\* A player returns while his old agent is still logging out: is his data there?
CONSTANTS
    p1 = p1
    p2 = p2
    a1 = a1
    a2 = a2
    Uid = {p1, p2}
    Agent = {a1, a2}
    NoAgent = NoAgent
    Instances <- Returning
SPECIFICATION Spec
INVARIANT DataLoaded
CHECK_DEADLOCK FALSE
