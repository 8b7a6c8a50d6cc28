\* Two runs on one session: a triage agent hands over to a specialist; answers with two calls, suspensions, compactions.
SPECIFICATION FairSpec
CONSTANTS
    triage = triage
    specialist = specialist
    look = look
    delete = delete
    read = read
    write = write
    star = star
    NoRun = NoRun
    Garbled = Garbled
    Agents = {triage, specialist}
    Tools = {look, delete}
    Scopes = {read, write}
    Wild = star
    ToolsOf <- SplitTools
    HandoffsOf <- OneWay
    ScopesOf <- DeclareAll
    Required <- NeedWrite
    Gated = {delete}
    Callers <- RootCaller
    Keep = 1
    MaxSteps = 2
    MaxParked = 1
    MaxCalls <- Asks
    MaxTurns = 2
    MaxMessages = 4
    MaxBytes = 100
VIEW View
INVARIANTS GateHolds RunsOnce ToolPairsWhole
PROPERTIES AuthorityShrinks RunEnds
CHECK_DEADLOCK FALSE
