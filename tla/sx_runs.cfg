SPECIFICATION SxSpec
CONSTANTS
  Dialogs = {a, b}
  LastDay = 2
  Limits = {0, 2}
  Leads <- MCLeads
  Backend = "sql"
  MaxEvents = 3
  MaxDeferred = 2
INVARIANTS SxTypeOK CreatedOnce NoneSkipped CountsExact
CHECK_DEADLOCK FALSE
SYMMETRY Symmetry
