\* Two connections under a ceiling of three: both may be sockets at once, yet
\* an upgrade may find no place while the other is under way; three turns of
\* which one can be queued, and one reply.
SPECIFICATION FairSpec
CONSTANTS
    Conns = {c1, c2}
    MaxConns = 3
    MaxQueued = 1
    MaxReplies = 1
    MaxTurns = 3
INVARIANTS TurnsKept DrainWaits
PROPERTIES EveryDrainEnds
CHECK_DEADLOCK FALSE
