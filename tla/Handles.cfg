\* The table grows from 2 to 4 slots; handles wrap at 3 and are given out again.
CONSTANTS
    Ctx = {c1, c2, c3, c4}
    NoCtx = NoCtx
    Name = {1, 2}
    HandleMask = 3
    DefaultSize = 2
    MaxIndex = 4
SYMMETRY CtxSymmetry
SPECIFICATION Spec
INVARIANTS Findable NamesLead SweepMissesNobody RehashSound
CHECK_DEADLOCK FALSE
