SPECIFICATION Spec
CONSTANTS
  Names = {1, 2, 3}
  ShortNames = {}
  s1 = s1
  s2 = s2
  Shas = {s1, s2}
  Absent = Absent
  Bare = Bare
  Plain = Plain
  Releases <- MCReleases
INVARIANT
  WantedLeaveAttic
