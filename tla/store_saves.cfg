SPECIFICATION Spec
CONSTANTS
    Process = {p1, p2}
    None = None
    Retention = {"none", "days", "all"}
    RetainDays = 1
    Breaks = "dead"
    MaxVersion = 3
    MaxClock = 1
SYMMETRY Symmetry
INVARIANTS StoreTypeOK OneWriter LockHeld CleanIsOnDisk SavedIsKept
CHECK_DEADLOCK FALSE
