SPECIFICATION DbiSpec
CONSTANTS
    Process = {p}
    Table = {t1}
    None = None
    Kinds = {"sqlite"}
    Serializable = {"sqlite"}
    ReadOnly = {}
    Fails = {"commit"}
    MaxVersion = 4
    MaxFaults = 1
PROPERTIES EndKeepsData
CHECK_DEADLOCK FALSE
