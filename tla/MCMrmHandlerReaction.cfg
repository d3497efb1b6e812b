SPECIFICATION StartedSpec
VIEW ReactionView
CONSTANTS
    Period = 1
    MaxJitter = 0
    ReadLag = 0
    AvailTimeout = 1
    InitTimeout = 1
    TakeoverTimeout = 2
    RecoveryTimeout = 0
    UseTakeoverRequest = TRUE
    UseComfortableStop = TRUE
    UsePullOver = TRUE
    UseEmergencyHolding = TRUE
    TurningHazardOn = FALSE
    Modes = {"AUTONOMOUS", "STOP"}
    SendOutcomes = {TRUE, FALSE}
    AvailSamples <- ReactionSamples
    ModeSamples = {"AUTONOMOUS", "STOP"}
    StatusSamples = {}
    MayLatch = TRUE
INVARIANTS
    TypeOK
    StateBehavior
    LossAnswered
    OperatorCalled
    FloorSupervised
    TakeoverBounded
PROPERTIES
    NoDowngrade
    HpcLossDischarged
    HoldingKept
