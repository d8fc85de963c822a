SPECIFICATION Spec
CONSTANTS
  Clients = {c1, c2}
  Slots = {s1, s2}
  Addresses = {a1, a2}
  VerifyAddress = TRUE
  OneAtATime = FALSE
  Calls = {"put", "unbind", "clearFlash", "delete", "change"}
  Faults = {"crash", "lost"}
  TTL = 0
  MaxCalls = 1
  MaxTime = 2
  MaxRequests = 3
  MaxSids = 3
  None = None
SYMMETRY Symmetry
INVARIANTS NoCrossTalk DeletedStaysDeleted AddressKept
CHECK_DEADLOCK FALSE
