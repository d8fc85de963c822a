SPECIFICATION Spec
CONSTANTS
  Threads = {t1, t2, t3}
  Nobody = Nobody
  Kinds = {"plain", "recursive"}
  Faults = {"waitFails", "throws"}
  MaxDepth = 2
  MaxLost = 1
INVARIANTS TypeOK OneToken OnceFirst
PROPERTIES ImplementsLock EveryoneServed
CHECK_DEADLOCK FALSE
