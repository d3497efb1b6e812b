SPECIFICATION Spec
CONSTANTS
    Period = 2
    MaxJitter = 1
    Duration = 4
    Timeout = 3
    EnableAutoParking = TRUE
    RouteStates = {"UNSET", "SET", "ARRIVED"}
INVARIANTS
    ParkWatched
    ParkReported
PROPERTIES
    ParkEarned
