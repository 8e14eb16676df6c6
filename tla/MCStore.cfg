SPECIFICATION Spec
CONSTANTS
  d1 = d1
  d2 = d2
  h1 = h1
  h2 = h2
  k1 = k1
  k2 = k2
  NoCard = NoCard
  Docs = {d1, d2}
  Contents <- MCContents
  Hashes = {h1, h2}
  SectionsOf <- MCSectionsOf
  Cards = {k1, k2}
  Rowids <- MCRowids
  MaxEvents = 4
SYMMETRY Symmetry
CHECK_DEADLOCK FALSE
INVARIANTS
  ForeignKeys
  RawIndexExact
  CardIndexExact
  RowsAreContent
  TimelineReplays
PROPERTIES
  CardsAreKept
  ImplementsKnowledgeIndex
