SPECIFICATION Spec
VIEW FloorView
CONSTANTS
    CallMrmSpan = 2
    ExecSpan = 2
    ComfortableSpan = 2
    FloorSpan = 4
    ResponseSpan = 3
    UseResponse = TRUE
    FreshSpan = 1
    Drop = 1
    MaxSpeed = 2
    DirectPeriod = 1
    ResumePeriods = 1
    HandlerPeriod = 2
    OperatorPeriod = 1
    SwtWait = 0
    Slots = {1}
    HandlerArms = {3}
    Causes = {"swt"}
    UseExecutor = FALSE
INVARIANTS
    FloorStructure
PROPERTIES
    NoFalseFault
