\* The strategy pages: list, replay, builder, quiz, automatic pick, comparison.
SPECIFICATION StudioSpec
CONSTANTS
  Machines = {"replay", "page", "build", "quiz", "pick", "find"}

  SimTemplates <- All
  SimParams <- TinySets
  SimExits <- TinyExits
  Candles <- TinyCandles
  Length <- TinyLength
  Friction <- Quarter
  BuyKeep <- Keep
  Folds = 3
  MAX_RULES = 4

  Exchange = "coindcx"
  TryTemplates = {"vol_expansion", "donchian_ls"}
  TryValues = {0, 20400}
  TryMarkets <- SomeMarkets
  TryWeights = {25000}
  Ids = {1, 2}
  MaxFailures = 1
  MaxOther = 1
  MaxMoves = 4

  Pairs = {"btc", "eth"}
  FirstPair = "btc"
  Klines <- SomeKlines
  Trades <- SomeTrades
  Lines <- SomeLines
  TryWindows <- SomeWindows
  TryIntervals = {"1d", "1h"}
  MinBars = 2
  FoldBars = 3
  TryKinds = {"sma_cross"}
  TryNumbers = {0, 10000}
  TryFields = {"slow"}
  TryExits = {"target", "stop"}
  MaxClicks = 3
  SaveIds = {1}
  SaveFailures = 1

  PickExchange = "coindcx"
  Live <- Results
  FirstRows <- Starts
  PickIds = {1, 2, 3, 4, 5, 6, 7, 8, 9}
  PickFailures = 1
  PickMoves = 6

  Coins2 = {"BTC", "ETH"}
  Scores <- Table
  Ranges = {90, 365}
  FirstRange = 90
  FinderClicks = 5
  FinderFaults = 1
INVARIANTS
  PageHonest ReplayHonest LockStep BuilderHonest AdviceHonest
PROPERTY
  RemovesConfirmed
CHECK_DEADLOCK FALSE
