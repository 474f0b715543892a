\* Slice: four slots, six keys, two epochs: runs collide, close up and overflow.
\* Registry: three devices and three plans: two that race and one that finds the result.
SPECIFICATION StoreSpec
CONSTANTS
  d1 = d1
  d2 = d2
  d3 = d3
  Slots <- MCSlots
  Key <- MCKey
  Here <- MCHere
  slot_of <- MC_slot_of
  MaxEpoch = 2
  Offered <- FromPeers
  Pubkey <- MCPubkey
  Founders <- MCFounders
  Sibling <- MCSibling
  Joiner <- MCJoiner
  Leaver <- MCLeaver
  MaxPlans = 3
INVARIANTS
  SliceTypeOK
  Findable
  LayoutHasNoHistory
  RunIsDense
  NothingToDoMeansInSync
  UndisturbedPlansConverge
PROPERTY
  KeepsItsPromise
CHECK_DEADLOCK FALSE
