\* A 5-bit clock: 2 near slots and four levels of 2; delays up to half the range.
CONSTANTS
    Timer = {x, y}
    NearShift = 1
    LevelShift = 1
    MaxDelay = 15
SPECIFICATION Spec
INVARIANT NobodyLate
PROPERTIES FiresWhenDue GoesOff
