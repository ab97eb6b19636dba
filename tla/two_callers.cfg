CONSTANTS
    u1 = u1
    u2 = u2
    NoCaller = NoCaller
    NoParam = NoParam
    OtherParam = OtherParam
    Slots = {0, 1}
    Inputs <- MCInputs
    Triggers <- MCTriggers
    ActionTypes <- MCActionTypes
    OwnUrls = {u1}
    Callers = {c1, c2}
    FactorySlots <- MCFewSlots
    WboxSlots <- MCWboxSlots
    MaxEdits = 1
    KeepsParam = FALSE
SPECIFICATION FairSpec
INVARIANT TypeOK
INVARIANT PlanIsFresh
INVARIANT RemovalErases
PROPERTY NeverClobbers
PROPERTY OwnershipSpec
PROPERTY EveryRequestReturns
