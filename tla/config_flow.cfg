CONSTANTS
    u1 = u1
    a = a
    b = b
    NoParam = NoParam
    OtherParam = OtherParam
    NoDevice = NoDevice
    Slots = {0, 1}
    Inputs <- OneInput
    Triggers <- TwoTriggers
    ActionTypes <- FewActionTypes
    OwnUrls = {u1}
    Devices = {a, b}
    Hosts = {h1, h2, h3}
    Reports = {a}
    Tables <- FewTables
    Flows = {f1, f2}
    Dialogs = {g1, g2}
    Selections <- BothEvents
    Settings = {0, 1}
    MaxMoves = 2
SPECIFICATION Spec
INVARIANT SavedSectionsSurvive
PROPERTIES EntriesAreKept AdmissionIsHonest
SYMMETRY Interchangeable
