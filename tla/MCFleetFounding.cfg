\* Two devices, a contact, two generations of at most three operations and an unlock.
SPECIFICATION FairFoundingSpec
CONSTANTS
  a = a
  b = b
  friend = friend
  Device <- MCDevice
  Reader <- MCReader
  Clock <- MCClock
  MaxOps = 3
  MaxGenerations = 2
INVARIANTS
  FoundersStand
  VerdictIsTrue
PROPERTIES
  HistoryStands
  PinsAreVouched
  ReadersCatchUp
CHECK_DEADLOCK FALSE
