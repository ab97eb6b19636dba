CONSTANTS
    Tasks = {t1, t2}
    Writers = {w1, w2}
    Writable <- OnlySettings
    Settle = 1
    Slow = 2
    MaxChanges = 2
    MaxFaults = 1
SPECIFICATION Spec
INVARIANTS TypeOK RequestSurvives
PROPERTY OwnWriteHolds
SYMMETRY TasksAndWriters
