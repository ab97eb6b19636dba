CONSTANTS
    u1 = u1
    u2 = u2
    NoCaller = NoCaller
    NoParam = NoParam
    OtherParam = OtherParam
    Slots = {0, 1, 2}
    Inputs <- MCInputs
    Triggers <- MCTriggers
    ActionTypes <- MCActionTypes
    OwnUrls = {u1, u2}
    Callers = {c1}
    FactorySlots <- MCFactorySlots
    WboxSlots <- MCWboxSlots
    MaxEdits = 0
    KeepsParam = TRUE
SPECIFICATION Spec
INVARIANT SyncEstablishes
INVARIANT SyncIsIdempotent
INVARIANT WantedStaysLive
INVARIANT NeverDoubleBooked
INVARIANT PacingIsNotInherited
INVARIANT RefusalIsHonest
