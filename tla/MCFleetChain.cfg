\* Three devices, three schemes, two checkpoints: the chain's length is not
\* bounded, since the folded state is finite.
SPECIFICATION FairSpec
CONSTANTS
  d1 = d1
  d2 = d2
  d3 = d3
  Ed25519 = Ed25519
  Falcon512 = Falcon512
  SphincsPlus = SphincsPlus
  Device <- MCDevice
  Scheme <- MCScheme
  Base <- MCBase
  Capable <- MCCapable
  MaxCheckpoint = 2
INVARIANTS
  TypeOK
  SomeoneCanSign
  SteadyMembersCanSign
  StragglerCanCatchUp
PROPERTIES
  PromotionCompletes
  CapabilityNeverFalls
\* A chain whose live members all left without consent takes no further op.
CHECK_DEADLOCK FALSE
