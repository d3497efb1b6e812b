SPECIFICATION JustLatchedSpec
CONSTANTS
    CallMrmSpan = 2
    ExecSpan = 2
    ComfortableSpan = 2
    FloorSpan = 3
    ResponseSpan = 2
    UseResponse = TRUE
    FreshSpan = 1
    Drop = 1
    MaxSpeed = 1
    DirectPeriod = 1
    ResumePeriods = 2
    HandlerPeriod = 2
    OperatorPeriod = 1
    SwtWait = 0
    Slots = {1}
    HandlerArms = {}
    Causes = {}
    UseExecutor = FALSE
INVARIANTS
    BrakeNeverSilent
    HandoverTimed
PROPERTIES
    FloorResolves
