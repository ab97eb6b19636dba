CONSTANTS
    Relays = {0, 1}
    Calls = {c1, c2}
    Requests <- RestartRequests
    Edits <- SomeEdits
    Limits = {10}
    Slips = {}
    Settle = 2
    MaxMoves = 2
SPECIFICATION Spec
PROPERTY EverySiblingSurvives
