SPECIFICATION FairSpec
CONSTANTS
  h1 = h1
  h2 = h2
  h3 = h3
  Hashes = {h1, h2, h3}
  HeadingOnly = {h3}
  round_size = 2
  daily_token_budget = 1
  Estimate = 1
  MaxCost = 1
  Kinds = {"card", "outage", "pool_stop"}
  BackoffLevels = 1
  MaxChanges = 3
  MaxStops = 1
INVARIANTS
  AsksPendingOnly
  BudgetKept
  NewsIsHeard
  NoSpin
PROPERTIES
  PauseTakesHold
  Drains
