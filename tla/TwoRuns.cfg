SPECIFICATION MCSpec
CONSTANTS
  Runs = {1, 2}
  Commands = {1, 2}
  Names = {1, 2}
  ShortNames = {}
  s1 = s1
  s2 = s2
  Shas = {s1, s2}
  Absent = Absent
  Bare = Bare
  Plain = Plain
  Releases <- MCReleases
  Inodes <- MCInodes
  None = None
INVARIANTS
  MCTypeOK
  DoneMatches
  LossIsReported
  OneGetsThrough
  ProgramSurvives
  OneIsInstalled
PROPERTIES
  WantedSurvive
  RunsEnd
