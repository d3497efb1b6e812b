SPECIFICATION Spec
CONSTANTS
    Wrap = 3
    TableSha = "table"
    TableIds <- MCTableIds
    Required <- MCRequired
    ReportSpan = 2
    Policy <- MCPolicy
    TriggerMarker = 3
    ArmMarker = 4
    NrosViolation = 277
    Emits <- MCEmits
    HbPeriod = 1
    Pre = 2
    Half = 30
    Capacity = 130
    ProvenanceLen = 30
    SpinKeep = 2
    MaxTime = 3
    MaxEvents = 5
INVARIANTS
    TimesTrue
    PassMeansComplete
    RearmFresh
    SpansTrue
CHECK_DEADLOCK FALSE
