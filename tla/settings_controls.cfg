CONSTANTS
    Relays = {0, 1}
    Calls = {c1, c2}
    Requests <- AllRequests
    Edits <- SomeEdits
    Limits = {10}
    Slips = {}
    Settle = 2
    MaxMoves = 3
SPECIFICATION Spec
INVARIANTS TypeOK AcknowledgedIsShown
PROPERTY SiblingsSurvive
