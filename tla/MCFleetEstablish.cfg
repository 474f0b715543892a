\* The instance of MCFleetKey.cfg, asked what an establish may replace.
SPECIFICATION KeySpec
CONSTANTS
  d1 = d1
  d2 = d2
  d3 = d3
  Device <- MCDevice
  Enrolled <- MCEnrolled
  Joiner <- MCJoiner
  Leaver <- MCLeaver
  Lockable <- MCLockable
  Caller <- MCCaller
  MaxRevision = 3
PROPERTY
  EstablishNeverReplaces
