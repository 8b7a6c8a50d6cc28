\* Two threads and two requests; a behaviour or a run may call two tools at once, two deep.
SPECIFICATION PoolFairSpec
CONSTANTS
    MaxJobs = 3
    Threads = 2
    MaxDepth = 2
    MaxCalls = 2
    MaxWidth = 2
    MaxRoots = 2
INVARIANTS StopHolds NoLateMove
PROPERTY EndsUnlessFull
CHECK_DEADLOCK FALSE
