CONSTANTS
  specs = specs
  sub = sub
  sources = sources
  a = a
  b = b
  s = s
  Dirs = {specs, sub, sources}
  Files = {a, b, s}
  SpecsDir = specs
  Roots = {specs, sources}
  Parent <- MCParent
  Rank <- MCRank
  KindOf <- MCKindOf
  Versions <- MCVersions
  InitDirs = {specs, sub}
  QueueMax = 2
  MaxEdits = 3
SPECIFICATION FairSpec
INVARIANTS
  Fresh
  LatestAgrees
PROPERTIES
  EventuallyFresh
CHECK_DEADLOCK FALSE
