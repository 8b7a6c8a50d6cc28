\* Two keys, two checks, a burst of one; idle buckets go after two of four ticks,
\* one tick before they would be full again.
CONSTANTS
    Keys = {alice, bob}
    Checkers = {c1, c2}
    Burst = 1
    Cost = 3
    Rate = 1
    Idle = 2
    SweepEvery = 1
    MaxTime = 4
    alice = alice
    bob = bob
    c1 = c1
    c2 = c2
SPECIFICATION LimiterSpec
SYMMETRY Symmetry
VIEW View
INVARIANTS RateHeld
PROPERTIES RefusedForOwn
CHECK_DEADLOCK FALSE
