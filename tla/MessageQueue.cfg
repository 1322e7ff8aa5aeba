\* Capacity 2 grows to 4 and 8; the threshold 1 doubles up to 8.
CONSTANTS
    Msg = {m1, m2}
    NoMsg = NoMsg
    DefaultSize = 2
    MqOverload = 1
    MaxLength = 5
SPECIFICATION Spec
INVARIANT RingHoldsFifo
PROPERTIES PopsOldest WarnsPerDoubling
