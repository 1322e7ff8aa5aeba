\* Two logins at a time: is the subid unique?
CONSTANTS
    p1 = p1
    p2 = p2
    a1 = a1
    a2 = a2
    Uid = {p1, p2}
    Agent = {a1, a2}
    NoAgent = NoAgent
    Instances <- Overlapping
SPECIFICATION Spec
INVARIANT UniqueSubid
CHECK_DEADLOCK FALSE
