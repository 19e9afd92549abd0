SPECIFICATION RSpec
CONSTANTS
  w1 = w1
  w2 = w2
  Clients = {w1, w2}
  Feed = w1
  Tickers = {"T1", "T2"}
  Channels = {"ticker", "orderbook_delta"}
  MaxConnections = 1
  MaxAttempts = 2
  OneTask = TRUE
  MaxDrops = 2
  Duration = 7
  Quiet = 3
  MaxGap = 3
  MaxLines = 3
INVARIANTS ReadyHasNoHole NoMissedSubscription SlotAccounting
PROPERTY ReconnectEnds
CHECK_DEADLOCK FALSE
