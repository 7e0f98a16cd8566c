CONSTANTS
  Strategies = {s1}
  MarketOf <- SharedMarket
  Lot = 2
  MaxBar = 2
  MaxPosts = 3
  MaxCrashes = 1
  CrashPoints = {"heal", "top", "poll", "resolve", "gate", "post", "record", "noreply", "setpos"}
  HealBars = 1
  Dedup = FALSE
  Immediate = TRUE
  ReportsFill = TRUE
  MayDelay = TRUE
  NoRequest = NoRequest
SPECIFICATION Spec
INVARIANTS Ledger OneLiveOrder PositionIsLedger BookAgrees
