SPECIFICATION Spec
CONSTANTS
  Requests = 3
  initial_concurrency = 2
  max_concurrency = 3
  max_retries = 0
  BackoffSteps = 1
  HasEscalation = FALSE
  AIMD_SUCCESS_WINDOW = 2
  Kinds = {"ok", "fatal_pool"}
PROPERTY
  InFlightCallsFinish
