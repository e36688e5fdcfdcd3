CONSTANTS
  Addrs = {a, b}
  WINDOW_WORDS = 2
  MAX_SESSIONS = 1
  Timeouts = {0}
  Counters = {0, 1, 63, 64, 65, 129, 200}
  MaxKeys = 2
  MaxDraws = 1
  MaxNow = 1
SPECIFICATION SessionSpec
CHECK_DEADLOCK FALSE
INVARIANTS
  WindowExact
  ReplayRefused
