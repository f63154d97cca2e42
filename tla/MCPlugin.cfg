SPECIFICATION FairSpec
CONSTANTS
  a = a
  b = b
  c = c
  d = d
  m = m
  n = n
  Plugins <- MCPlugins
  Contents <- MCContents
  Depends <- MCDepends
  Careful = TRUE
  MaxRefs = 9
  MaxInits = 2
INVARIANTS PluginInv DependsInited CountCoversDependents LibraryOpen
PROPERTY CallsReturn
