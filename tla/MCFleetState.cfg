\* Two devices, one friend, one setting, two instants and two mints.
SPECIFICATION FairStateSpec
CONSTANTS
  d1 = d1
  d2 = d2
  f1 = f1
  Device <- MCDevice
  Faulty <- MCFaulty
  MayUpgrade <- MCMayUpgrade
  Friend <- MCFriend
  Setting <- MCSetting
  Value <- MCValue
  Trust <- MCTrust
  Stored <- MCStored
  MaxTime = 2
  MaxEdits = 2
  MaxKey = 2
INVARIANTS
  MergeIsACRDT
  StateSurvivesTheWire
  NoUpdateIsLost
PROPERTIES
  SeenForeignStays
  Settles
CHECK_DEADLOCK FALSE
