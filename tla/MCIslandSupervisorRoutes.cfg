SPECIFICATION Spec
VIEW RoutesView
CONSTANTS
    CallMrmSpan = 2
    ExecSpan = 2
    ComfortableSpan = 1
    FloorSpan = 1
    ResponseSpan = 1
    UseResponse = TRUE
    FreshSpan = 0
    Drop = 1
    MaxSpeed = 0
    DirectPeriod = 1
    ResumePeriods = 1
    HandlerPeriod = 1
    OperatorPeriod = 1
    SwtWait = 0
    Slots = {0}
    HandlerArms = {0, 2}
    Causes = {"hook"}
    UseExecutor = TRUE
INVARIANTS
    DuesCovered
    CausesCovered
    ExecutorJudged
