SPECIFICATION Spec
CONSTANTS
  A = A
  B = B
  Server = {A, B}
  Other = Other
  NoAddress = NoAddress
  LeaseOptions <- PlainLease
  UninitSeconds <- ZeroSeconds
  Word <- MCWord
  MaxXid = 3
  ResponseTimeout = 0
  Timeout = 1
  MaxBegins = 2
  MaxLate = 1
INVARIANTS
  TypeOK
  AddressIsGranted
  RequestsOfferedAddress
SYMMETRY ServerSymmetry
CHECK_DEADLOCK FALSE
