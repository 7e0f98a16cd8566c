\* The exchange is switched, and with it the currency of what is booked.
SPECIFICATION ScreensSpec
CONSTANTS
  Machines = {"read"}

  Markets = {btc, eth}
  FirstMarket = btc
  Windows = {hour, day}
  FirstWindow = hour
  LIVE = tape2m
  NoPrice = none
  MaxChoices = 2
  MaxFetches = 3
  MaxDrops = 2

  Keys = {k1, k2}
  MaxHits = 2
  Window = 2
  SweepAbove = 1
  MaxNow = 5
  MaxRequests = 7

  Tabs = {t1, t2}
  Chats = {"7", "x"}
  Numeric = {"7"}
  Currencies = {"INR", "USD"}
  MaxClicks = 4
  MaxFaults = 1

  Pages = {p1, p2}
  Venues = {"coindcx", "binance"}
  MaxPresses = 3
  MaxPanelFaults = 1

  BookVenues = {"coindcx", "binance"}
  YEAR = 4
  APRIL = 1
  MaxTradeRows = 3
  MaxToday = 2

  Equities <- Books
  StatHours = {1, 9}
  POINTS = 2
  MaxSnaps = 5
  MaxHour = 2
INVARIANT OneCurrency
CHECK_DEADLOCK FALSE
