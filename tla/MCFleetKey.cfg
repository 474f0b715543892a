\* Three devices and three revisions: an establish, a grow and a mint.
SPECIFICATION KeySpec
CONSTANTS
  d1 = d1
  d2 = d2
  d3 = d3
  Device <- MCDevice
  Enrolled <- MCEnrolled
  Joiner <- MCJoiner
  Leaver <- MCLeaver
  Lockable <- MCLockable
  Caller <- MCCaller
  MaxRevision = 3
PROPERTIES
  RevisionNamesOneKey
  OldKeysStayDead
