CONSTANTS
    Events <- TwoEvents
    Presses = {p1}
    EventOf <- AllFirst
    Debounce = 2
    RetryFor = 1
    Slots = {0, 1}
    Options <- OneThenOther
    MaxSaves = 1
    MaxFaults = 1
    MaxRestarts = 1
SPECIFICATION MCSpec
INVARIANTS TypeOK RemovalErases NoPressIsHeardTwice
PROPERTIES OptionsTakeEffect EntitiesArrive CallbacksComeBack OnlyAPressSwallowsAPress
