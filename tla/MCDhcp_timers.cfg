SPECIFICATION FairSpec
CONSTANTS
  A = A
  Server = {A}
  Other = Other
  NoAddress = NoAddress
  LeaseOptions <- MixedLeases
  UninitSeconds <- AnySeconds
  Word <- MCWord
  MaxXid = 2
  ResponseTimeout = 0
  Timeout = 2
  MaxBegins = 1
  MaxLate = 2
PROPERTIES
  CallsReturn
CHECK_DEADLOCK FALSE
