\* Two members sponsor, retire and lock a third device, mint two epochs, and build a call up to three times.
SPECIFICATION FairClientSpec
CONSTANTS
  d1 = d1
  d2 = d2
  d3 = d3
  c1 = c1
  c2 = c2
  Ed25519 = Ed25519
  Falcon512 = Falcon512
  Device <- MCDevice
  Scheme <- MCScheme
  Base <- MCBase
  Capable <- MCCapable
  MaxCheckpoint = 2
  Client <- MCClient
  Home <- MCHome
  Intent <- SponsorIntent
  Attempts = 3
  Mobile <- Guests
  Enrolled <- Couple
  Founder = d1
INVARIANTS
  OkMeansDone
  RefusalsAreReal
  SingleWinner
  FleetLives
PROPERTIES
  CallsEnd
