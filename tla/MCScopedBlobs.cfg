\* Two devices, two readers, two purposes, two versions, two readings of a clock.
SPECIFICATION FairBlobsSpec
CONSTANTS
  d1 = d1
  d2 = d2
  friend = friend
  fleet = fleet
  avatar = avatar
  status = status
  Device <- MCDevice
  Reader <- MCReader
  Purpose <- MCPurpose
  MaxVersions = 2
  MaxStamp = 2
CONSTRAINT
  MCFirst
INVARIANTS
  OnlyTheGranted
  ShowsItsPurpose
PROPERTIES
  RetainedReadersFollow
CHECK_DEADLOCK FALSE
