SPECIFICATION Spec
CONSTANTS
  Clients = {c1}
  Slots = {s1}
  Addresses = {a1}
  VerifyAddress = FALSE
  OneAtATime = TRUE
  Calls = {"session", "put", "flash", "putFlash", "keepFlash", "valid", "expires", "delete", "change"}
  Faults = {}
  TTL = 1
  MaxCalls = 3
  MaxTime = 3
  MaxRequests = 3
  MaxSids = 3
  None = None
INVARIANTS TypeOK SessionSeen FlashSeen
CHECK_DEADLOCK FALSE
