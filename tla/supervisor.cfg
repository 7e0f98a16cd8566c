CONSTANTS
  Users = {u1}
  Confs = {c1, c2}
  Keys = {k1, k2}
  Window = 3
  Limit = 2
  Base = 1
  MaxBackoff = 2
  MaxSeq = 1
  MaxFaults = 1
  NoEntry = NoEntry
SPECIFICATION FairSpec
INVARIANTS TypeOK OneEngine OnePoll RestartMeansNew Throttled
PROPERTY Applied
