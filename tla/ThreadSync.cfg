SPECIFICATION Spec
CONSTANTS
  Threads = {t1, t2, t3}
  Calls = {"enqueue", "dequeue", "dequeue_nb", "insert", "extract", "down", "down_nb", "down_force", "up"}
  Counts = {2}
  Amounts = {1, 2}
  Initial = 0
  MaxItems = 4
  MaxValue = 2
INVARIANTS TypeOK DequeueAwake DownAwake ItemsOnce ExtractsWindow
PROPERTIES OrderKept ItemsServed UnitsServed
CHECK_DEADLOCK FALSE
