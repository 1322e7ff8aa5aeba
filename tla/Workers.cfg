\* Two workers; the callbacks of one of them may never return.
CONSTANTS
    Worker = {w1, w2}
    Stuck = {w1}
    Nobody = Nobody
    MaxWork = 2
    Services = 2
SPECIFICATION FairSpec
PROPERTIES WorkGetsDone ShutsDown
