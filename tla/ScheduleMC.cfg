CONSTANTS
    Catalogue <- MCCatalogue
    Forward = {"saver"}
    Orders <- MCOrders
    EventOrders = {TRUE}
    MaxSystems = 3
    MaxOrderings = 1
    MaxSteps = 2
    LateConflicts = FALSE
    Retry = FALSE
SPECIFICATION Spec
INVARIANTS NoRace PlanExact OrderKept LabelsInOrder EmitFirst CyclesAreReal
