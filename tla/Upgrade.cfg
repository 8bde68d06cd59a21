CONSTANTS
  c1 = c1
  w1 = w1
  w2 = w2
  t1 = t1
  t2 = t2
  r1 = r1
  r2 = r2
  Broken = Broken
  Missing = Missing
  None = None
  Commands = {c1}
  Workers = {w1, w2}
  Current = 1
  MaxVersion = 2
  Interval = 1
  StaleLock = 0
  MaxNow = 2
  MaxKeys = 1
  MaxCrashes = 1
  Terminals = {t1, t2}
  Releases = {1, 2, 3}
  UnixFaults = 2
  WindowsFaults = 2
  MaxStarts = 3
  Cores <- SmallCores
  Prereleases <- SmallPrereleases
  MaxPart = 3
  MaxNumber = 2
  MaxU64 = 99
  Sets <- SmallSets
  MaxSets = 3
  SetFaults = 2
  Runs = {r1, r2}
  RunFaults = 2
  MaxEdits = 2
SPECIFICATION Spec
SYMMETRY Symmetry
CHECK_DEADLOCK FALSE
INVARIANTS TypesOK LockExcludes NewerIsSemver ReplacedWhole
PROPERTIES AlwaysInstalled UserDecides 
