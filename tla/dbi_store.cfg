SPECIFICATION DbiSpec
CONSTANTS
    Process = {p, q, r}
    Table = {t1, t2}
    None = None
    Kinds = {"sqlite", "mysql", "pgsql"}
    Serializable = {"sqlite"}
    ReadOnly = {"sqlite", "mysql", "pgsql"}
    Fails = {"ddl", "dml", "commit"}
    MaxVersion = 3
    MaxFaults = 3
INVARIANTS DbiTypeOK DataKept OpenIsWhole OneWriter
CHECK_DEADLOCK FALSE
SYMMETRY Symmetry
CONSTRAINT BeforeOverlap
