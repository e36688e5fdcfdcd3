CONSTANTS
  a = a
  b = b
  Addrs = {a, b}
  k = k
  Keys = {k}
  Bootstrap <- MCBootstrap
  Exchanges <- MCExchanges
  OnDisk <- MCOnDisk
  MAX_PENDING_HANDSHAKES = 1
  MAX_PEERS = 1
  MAX_SESSIONS = 1
  SEED_SIZE = 64
  MaxHandshakes = 2
  MAX_PEER_STATES = 1
  MAX_ATTEMPTS = 0
  MIN_MISSES_FOR_INACTIVE = 1
  Suspicious = 1
  MaxMisses = 1
  RuleSources <- MCRuleSources
  MaxHeartbeats = 1
SPECIFICATION FairHeartbeatSpec
CHECK_DEADLOCK FALSE
INVARIANTS
  
  EphemeralOnce
  SessionOfTrust
PROPERTIES
  PendingLeaves
  OrphanLeaves
