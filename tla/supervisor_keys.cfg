CONSTANTS
  Users = {u1}
  Confs = {c1}
  Keys = {k1, k2}
  Window = 3
  Limit = 2
  Base = 1
  MaxBackoff = 2
  MaxSeq = 0
  MaxFaults = 0
  NoEntry = NoEntry
SPECIFICATION FairSpec

PROPERTY KeysApplied
