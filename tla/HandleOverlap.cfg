\* Launches overlap: a context whose handle is still 0 is rehashed.
CONSTANTS
    Ctx = {c1, c2, c3}
    NoCtx = NoCtx
    Name = {1}
    HandleMask = 15
    DefaultSize = 1
    MaxIndex = 6
SYMMETRY CtxSymmetry
SPECIFICATION Spec
INVARIANT RehashAssertion
CHECK_DEADLOCK FALSE
