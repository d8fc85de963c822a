SPECIFICATION Spec
CONSTANTS
  AutoSavepoint = TRUE
  Calls = {"txn_do", "guard", "eval", "dbh", "disconnect"}
  Faults = {"sqlError", "commitError", "outage"}
  MaxWrites = 3
  MaxFrames = 4
INVARIANTS UndoneInvisible
PROPERTIES ImplementsAtomicTxn
