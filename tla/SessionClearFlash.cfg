SPECIFICATION Spec
CONSTANTS
  Clients = {c1}
  Slots = {s1}
  Addresses = {a1}
  VerifyAddress = FALSE
  OneAtATime = TRUE
  Calls = {"put", "clearFlash"}
  Faults = {}
  TTL = 1
  MaxCalls = 1
  MaxTime = 2
  MaxRequests = 3
  MaxSids = 3
  None = None
INVARIANT SessionSeen
CHECK_DEADLOCK FALSE
