CONSTANTS
  Pages <- MCDetails
  Rank <- MCRank
SPECIFICATION TocSpec
CHECK_DEADLOCK FALSE
INVARIANT TypesAreGroups
