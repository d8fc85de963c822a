SPECIFICATION Spec
CONSTANTS
  AutoSavepoint = FALSE
  Calls = {"txn_do", "guard", "eval", "disconnect"}
  Faults = {"drop", "sqlError", "commitError"}
  MaxWrites = 3
  MaxFrames = 3
INVARIANTS TypeOK AbortedInvisible DepthMatches
PROPERTIES ImplementsAtomicTxn ExceptionsArrive
