CONSTANTS
  Strategies = {s1,s2}
  MarketOf <- SharedMarket
  Lot = 1
  MaxBar = 1
  MaxPosts = 2
  MaxCrashes = 1
  CrashPoints = {"heal", "top", "poll", "resolve", "gate", "post", "record", "noreply"}
  HealBars = 1
  Dedup = FALSE
  Immediate = FALSE
  ReportsFill = TRUE
  MayDelay = FALSE
  NoRequest = NoRequest
SPECIFICATION FairSpec
INVARIANT KillBound
PROPERTIES ImplementsLog KillHalts
