SPECIFICATION Spec
CONSTANTS
    Contracts <- MCContracts
    Pins <- MCPins
    Fixed <- MCFixed
    TakeInputs <- MCTakeInputs
    NrosBase = 20
    Levels = {1, 2}
    Jobs = {"take"}
    InputOf <- MCInputOf
    TimerLevel = 1
    Seconds = {1, 2}
    MaxJobs = 3
VIEW View
INVARIANTS
    TakesTrue
CHECK_DEADLOCK FALSE
