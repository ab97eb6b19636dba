CONSTANTS
    Shapes <- FourShapes
    MaxChanges = 2
    MaxFaults = 2
    MaxRestarts = 2
SPECIFICATION Spec
INVARIANTS TypeOK OfflineStartHasEntities
