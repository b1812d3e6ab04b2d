SPECIFICATION Spec
CONSTANTS
  Names = {1, 2}
  ShortNames = {}
  s1 = s1
  s2 = s2
  Shas = {s1, s2}
  Absent = Absent
  Bare = Bare
  Plain = Plain
  Releases <- MCReleases
  Branches = {1, 2, 3}
  Main = 3
  c0 = c0
  c1 = c1
  c2 = c2
  c3 = c3
  Commits = {c0, c1, c2, c3}
  History <- MCHistory
  Published <- MCPublished
  Listing <- MCListing
  r1 = r1
  r2 = r2
  NimRefs = {r1, r2}
  Installed = {r1}
  VersionOf <- MCVersionOf
  Pinned <- MCPinned
  NoListing <- MCNoListing
  Detached = Detached
INVARIANT
  RefreshUpdates
