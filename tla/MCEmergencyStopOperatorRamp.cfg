SPECIFICATION Spec
CONSTANTS
    TargetAcceleration <- MinusThree
    MaxDt = 2
    Controls <- DrivingControls
    HostAges <- ClockAges
    Garbage <- AnyGarbage
    DirectPeriod = 1
    ResumeSpan = 2
    Horizon = 6
    MaxRequests = 2
INVARIANTS
    OneSource
PROPERTIES
    DirectNeverEases
    SameRamp
