SPECIFICATION Spec
VIEW View
CONSTANTS
    Period = 1
    MaxJitter = 1
    ReadLag = 1
    AvailTimeout = 1
    InitTimeout = 2
    TakeoverTimeout = 2
    RecoveryTimeout = 1
    UseTakeoverRequest = FALSE
    UseComfortableStop = TRUE
    UsePullOver = FALSE
    UseEmergencyHolding = FALSE
    TurningHazardOn = TRUE
    Modes = {"AUTONOMOUS"}
    SendOutcomes = {TRUE}
    AvailSamples <- StartupSamples
    ModeSamples = {"AUTONOMOUS"}
    StatusSamples = {"AVAILABLE", "NOT_AVAILABLE"}
    MayLatch = FALSE
INVARIANTS
    LossSeen
    InitBounded
PROPERTIES
    FreshRun
