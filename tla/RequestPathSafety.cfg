\* Two requests at a time, one key that is let through once between refills; see MCRequestPath.
CONSTANTS
    Keys = {"admin", "address"}
    Checkers = {r1, r2}
    Burst = 1
    Cost = 1
    Rate = 1
    Idle = 1
    SweepEvery = 1
    MaxTime = 1
    Table <- MCTable
    Holds <- MCHolds
    Shapes <- MCShapes
    Anonymous = {"drive"}
    Address = "address"
    r1 = r1
    r2 = r2
SPECIFICATION Spec
VIEW View
INVARIANTS GuessesPaid
PROPERTIES PermittedOnly RecordedAsSent
CHECK_DEADLOCK FALSE
