SPECIFICATION Spec
CONSTANTS
  AutoSavepoint = TRUE
  Calls = {"txn_do", "guard", "eval", "disconnect", "disconnectInScope"}
  Faults = {"drop", "rollbackError", "savepointError", "ackLost"}
  MaxWrites = 2
  MaxFrames = 3
PROPERTIES RollbackFailureTold
