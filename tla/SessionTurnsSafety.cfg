\* Two requests and three sessions, one of them reached by nested runs; the store holds one.
SPECIFICATION FairSpec
CONSTANTS
    Tasks = {t1, t2}
    Keys = {k1, k2, k3}
    NestedKeys = {k2}
    Locks = {l1, l2, l3}
    None = None
    Capacity = 1
    MaxApprovals = 1
    MaxTurns = 2
    MaxOwn = 3
    MaxSuspensions = 1
    MaxMessages = 3
    MaxBytes = 100
INVARIANTS HistoryKept OneLifePerTurn OwnTurnMovable OneTurnAtATime
PROPERTIES EveryWaitEnds
CHECK_DEADLOCK FALSE
