SPECIFICATION Spec
CONSTANTS
  AutoSavepoint = FALSE
  Calls = {"txn_do", "svp", "dbh", "disconnect"}
  Faults = {"sqlError", "commitError", "savepointError", "outage"}
  MaxWrites = 2
  MaxFrames = 3
INVARIANTS ClaimsDurable UndoneInvisible InFlightInvisible
