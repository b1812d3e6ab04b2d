\* A procedure that was called ends: the system may stop.
CONSTANTS
  MaxInt = 200
  Patterns <- MCPatterns
  Strings <- MCStrings
  IndexNameLength = 2
  IndexURLs <- MCIndexURLs
  Hrefs <- MCHrefs
  Tags <- MCTags
  NoError = NoError
  Slices <- MCSlices
  None = None
  p = p
  q = q
  Chars = {p, q}
  Null = Null
  MaxHeap <- MCMaxHeap
  MaxLen = 2
  Cases <- MCCases
  Pages <- MCPages
  Rank <- MCRank
SPECIFICATION Spec
CHECK_DEADLOCK FALSE
INVARIANTS
  TypeOK
  DefectNeedsLength
  MatchesAreFound
  TextIsKept
  DefectsAreReported
  SlicesAreRight
  GroupingIsComplete
  TypesHaveTheirRoutines
PROPERTIES
  Progress
  CopiesAreRight
