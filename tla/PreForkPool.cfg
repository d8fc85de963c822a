SPECIFICATION Spec
CONSTANTS
  Pids = {p1, p2, p3}
  MinServers = 1
  MaxServers = 2
  MinSpare = 1
  MaxSpare = 1
  LeaveChildren = {TRUE, FALSE}
  Faults = {"crash", "accept"}
  PipeSize = 2
  MaxRestarts = 1
SYMMETRY Symmetry
INVARIANTS TypeOK TallyExact BeliefTrue WithinMax 
CHECK_DEADLOCK FALSE
