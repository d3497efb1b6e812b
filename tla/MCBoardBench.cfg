SPECIFICATION Spec
CONSTANTS
    ButtonRing = 2
    Contexts = {"takeover"}
    InjectTicks = {2}
    MaxTicks = 6
    MaxInjects = 2
    SpinLevels = {1, 2}
    Bins = 4
    SpinRing = 1
    Ms = 2
    LateFrom = 2
    Lates <- MCLates
    MaxIntervals = 2
    Period = 100
    Gaps = {98, 100, 107}
    Durations = {3, 12}
    LimitDelays = {0, 20}
    SampleGap = 100
    Delays = {4, 40, 90}
    MaxMarkers = 4
    Images <- MCImages
    Contract <- MCContract
    Sampled = {"availability"}
    Lanes = {"control_mode"}
    Values = {0, 1}
    MaxSamples = 3
    MaxStarts = 2
INVARIANTS
    InjectPresses
    SegmentTrue
    LayoutTrue
    BudgetsTrue
    TailTrue
    ViewTrue
PROPERTY
    LinesAreFeed
CHECK_DEADLOCK FALSE
