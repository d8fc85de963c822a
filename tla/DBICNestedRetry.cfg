SPECIFICATION Spec
CONSTANTS
  AutoSavepoint = TRUE
  Calls = {"txn_do"}
  Faults = {"drop"}
  MaxWrites = 2
  MaxFrames = 3
INVARIANTS ClaimsDurable
