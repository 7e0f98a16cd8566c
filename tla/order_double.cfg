CONSTANTS
  Strategies = {s1}
  MarketOf <- SharedMarket
  Lot = 1
  MaxBar = 1
  MaxPosts = 2
  MaxCrashes = 1
  CrashPoints = {"heal", "top", "poll", "resolve", "gate", "post", "record", "noreply", "setpos"}
  HealBars = 1
  Dedup = FALSE
  Immediate = TRUE
  ReportsFill = TRUE
  MayDelay = FALSE
  NoRequest = NoRequest
SPECIFICATION Spec
INVARIANT NeverTwice
