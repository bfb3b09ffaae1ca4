CONSTANTS
    Catalogue <- LateCatalogue
    Forward = {}
    Orders <- MCOrders
    EventOrders = {TRUE}
    MaxSystems = 2
    MaxOrderings = 1
    MaxSteps = 2
    LateConflicts = TRUE
    Retry = FALSE
SPECIFICATION Spec
INVARIANT NoRace
