\* A clock of four ticks and intervals of two; three events, a ring of two and a
\* channel of one; two askers that may be dropped, and one viewer.
SPECIFICATION HubSpec
CONSTANTS
    Pushers = {p1, p2}
    Askers = {a1, a2}
    Viewers = {v1}
    Half = 1
    MaxTime = 3
    Keep = 2
    Capacity = 1
    MaxEvents = 3
INVARIANTS RateHeld FramesInOrder NoSilentGap
PROPERTIES FetchShared
SYMMETRY Symmetry
CHECK_DEADLOCK FALSE
