SPECIFICATION Spec
CONSTANTS
  U64MAX = 15
  Prices <- ListPrices
  Error = Error
  Invalid = Invalid
  Panic = Panic
  Blank <- Spaces
  Folded <- Straight
  Lower <- LowerCase
  Width <- Utf8
  Digits <- Decimal
  NoDoc = NoDoc
  NotFound = NotFound
  Unreadable = Unreadable
  NoModel = NoModel
  Depth = 2
  PlainFloor = 3
  FilteredFloor = 3
  Stopwords = {}
  Star = "*"
  NotFinite = NotFinite
  RankBound = 3
  AgeBound = 1
  PAGES_NEEDED = 2
  FETCH_CAP = 2
  TopRanks = 5
INVARIANTS
  EligibleMatchesAnswer
  ExplainShowsWinners
  ShortRankingIsComplete
  OnePopulation
  FailuresAreResults
  PairedByQuestion
  KeptIsGrounded
  ReadsAgree
  CutsAreClean
  TroubleIsJudgedAlike
CHECK_DEADLOCK FALSE
