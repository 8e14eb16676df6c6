SPECIFICATION FairSpec
CONSTANTS
  Requests = 2
  initial_concurrency = 2
  max_concurrency = 2
  max_retries = 1
  BackoffSteps = 1
  HasEscalation = TRUE
  AIMD_SUCCESS_WINDOW = 1
  Kinds = {"ok", "malformed", "rate_limited", "error", "fatal_pool"}
INVARIANTS
  ReportedOnce
  InFlightExact
  WithinLimits
  NoLostWakeup
  StopNamesItsCause
  CallsAccounted
  UsageAddsUp
PROPERTIES
  RunReturns
