\* The rows of one user: subscription, bot settings and engine, the owner's console.
SPECIFICATION AccountsSpec
CONSTANTS
  Machines = {"billing", "account", "console"}

  PAID_TIERS = {"plus"}
  SubIds = {s1, s2}
  EventTypes = {{"PAYMENT", "SUCCESS"}, {"PAYMENT", "DECLINE"}, {"PAYMENT", "CANCEL"}, {"EXPIR"}}
  MONTH = 2
  PRICING_ENABLED = TRUE
  MaxTime = 3
  MaxEvents = 2
  MaxCalls = 1
  MaxGrants = 1
  MaxDeaths = 1

  Exchanges = {x1, x2}
  Ids = {1}
  MaxRequests = 2
  MaxFailures = 1
  MaxTrades = 1

  STALE_AFTER = 3
  StalledAfter = 4
  Plans = {"free", "plus"}
  MaxAdminPresses = 3
  MaxPollFaults = 3
SYMMETRY Alike
INVARIANTS
  AccountsTypeOK AppliedOnce AccessWasPaid DryUntilConfirmed NeverStuckStale
  AlwaysAWayOut OffWithinAPoll 
PROPERTY
  ExpiredStaysOut
CHECK_DEADLOCK FALSE
