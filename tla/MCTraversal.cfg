\* Two networks, one contact, two strangers, one change of place.
SPECIFICATION FairTraversalSpec
CONSTANTS
  home = home
  cafe = cafe
  office = office
  sibling = sibling
  s1 = s1
  s2 = s2
  Net <- MCNet
  Family <- MCFamily
  Subnet <- MCSubnet
  Observer <- MCObserver
  Trusted <- MCTrusted
  Site <- MCSite
  PeerNet = office
  QUORUM = 2
  MAX_PENDING = 1
  PATH_TTL = 2
  KEEPALIVE_INTERVAL = 1
  MappingLife = 2
  MaxMoves = 1
INVARIANTS
  NobodyAimsAtAForeignLan
PROPERTIES
  AdoptionIsCorroborated
  ReflexiveSettles
  PeersConnect
