\* The instance of MCFleetClient.cfg, asked whether a caller that is told it is the
\* minter of an epoch is.
SPECIFICATION ClientSpec
CONSTANTS
  d1 = d1
  d2 = d2
  d3 = d3
  c1 = c1
  c2 = c2
  Ed25519 = Ed25519
  Falcon512 = Falcon512
  Device <- MCDevice
  Scheme <- MCScheme
  Base <- MCBase
  Capable <- MCCapable
  MaxCheckpoint = 2
  Client <- MCClient
  Home <- MCHome
  Intent <- SponsorIntent
  Attempts = 3
  Mobile <- Guests
  Enrolled <- Couple
  Founder = d1
INVARIANT
  MinterOwnsItsEpoch
