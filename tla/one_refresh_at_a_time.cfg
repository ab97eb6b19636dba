CONSTANTS
    Tasks = {t1}
    Writers = {w1}
    Writable <- AllPayloads
    Settle = 1
    Slow = 2
    MaxChanges = 2
    MaxFaults = 2
SPECIFICATION FairSpec
PROPERTIES SnapshotNeverGoesBack SettlesOnDevice
