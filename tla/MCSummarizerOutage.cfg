SPECIFICATION Spec
CONSTANTS
  h1 = h1
  h2 = h2
  h3 = h3
  Hashes = {h1, h2, h3}
  HeadingOnly = {h3}
  round_size = 2
  daily_token_budget = 3
  Estimate = 2
  MaxCost = 2
  Kinds = {"card", "bad_answer", "outage", "pool_stop"}
  BackoffLevels = 2
  MaxChanges = 4
  MaxStops = 1
PROPERTIES
  OnlyAnswersFail
