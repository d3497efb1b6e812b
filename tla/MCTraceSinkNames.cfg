SPECIFICATION Spec
CONSTANTS
    Contracts <- MCContracts
    Pins <- MCPins
    Fixed <- MCFixed
    TakeInputs <- MCTakeInputs
    NrosBase = 20
    Levels = {1, 2}
    Jobs = {"marker", "violation", "timer", "take"}
    InputOf <- MCInputOf
    TimerLevel = 1
    Seconds = {1}
    MaxJobs = 3
VIEW View
INVARIANTS
    NamesTrue
    ViolationsTrue
    TicksWhole
CHECK_DEADLOCK FALSE
