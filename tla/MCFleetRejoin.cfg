\* The FleetChain instance, asked whether a device that comes back is at the
\* floor the Add was checked against.
SPECIFICATION Spec
CONSTANTS
  d1 = d1
  d2 = d2
  d3 = d3
  Ed25519 = Ed25519
  Falcon512 = Falcon512
  SphincsPlus = SphincsPlus
  Device <- MCDevice
  Scheme <- MCScheme
  Base <- MCBase
  Capable <- MCCapable
  MaxCheckpoint = 2
PROPERTY
  JoinersAreAtTheFloor
CHECK_DEADLOCK FALSE
