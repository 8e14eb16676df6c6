SPECIFICATION FairSpec
CONSTANTS
  Hashes = {1, 2, 3}
  Card <- Cards
  DaemonText = "v1"
  RebuildText = "questions-first+with-entities"
  EMBED_BATCH = 2
  EMBED_STEP = 2
  MaxErrors = 1
  MaxEdits = 2
INVARIANTS
  VectorsOfTheirCards
PROPERTIES
  CardsGetVectors
CHECK_DEADLOCK FALSE
