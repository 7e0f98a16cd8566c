\* A position is open when the user turns the bot off.
SPECIFICATION AccountSpec
CONSTANTS
  Exchanges = {"coindcx"}
  Ids = {1}
  MaxRequests = 1
  MaxFailures = 0
  MaxTrades = 1
PROPERTY StillManaged
CHECK_DEADLOCK FALSE
