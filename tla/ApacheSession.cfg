SPECIFICATION Spec
CONSTANTS
  Procs = {p1, p2, p3}
  Sids = {s1}
  Classes = {"File", "FileWin32", "FlexMySQL"}
  Modes = {"all", "any"}
  Faults = {"crash", "sqlError", "clean"}
  MaxVisits = 3
  MaxCleans = 1
SYMMETRY Symmetry
INVARIANTS TypeOK ReadsWhole TransactionsKept NobodyStuck
PROPERTIES DeletedStaysDeleted
CHECK_DEADLOCK FALSE
