\* One publisher, two publishes of each record, two addresses, two schemes.
SPECIFICATION FairRecordsSpec
CONSTANTS
  p = p
  q = q
  h1 = h1
  h2 = h2
  a1 = a1
  a2 = a2
  Ed25519 = Ed25519
  Falcon512 = Falcon512
  Device <- MCDevice
  Publisher <- MCPublisher
  Handle <- MCHandle
  ours = h1
  Address <- MCAddress
  ADDRESS_SET_MAX = 2
  Scheme <- MCScheme
  Base = Ed25519
  MaxTime = 2
INVARIANTS
  FindsOnePublish
  StatementsAreBound
PROPERTIES
  Located
CHECK_DEADLOCK FALSE
