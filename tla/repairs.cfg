CONSTANTS
    Slots = {0, 1}
    Wanted = {"first", "second"}
    Others = {"other", "twin"}
    Looks <- OneLook
    MaxCycles = 3
    MaxMoves = 2
    MaxRestarts = 1
SPECIFICATION MCSpec
PROPERTIES RepairsAreDue WarningsSettle
