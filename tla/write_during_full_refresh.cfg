CONSTANTS
    Tasks = {t1}
    Writers = {w1}
    Writable <- OnlySettings
    Settle = 1
    Slow = 3
    MaxChanges = 1
    MaxFaults = 0
SPECIFICATION Spec
INVARIANT WriteForcesTheNextCycle
