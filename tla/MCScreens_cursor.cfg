CONSTANTS
  None = None
  r1 = r1
  r2 = r2
  Skills = {1, 2}
  Comparisons = {r1, r2}
  PageLines <- SmallPages
  Sizes <- SmallSizes
  MaxLoads = 2
  Reports <- SmallReports
  FilterTexts = {{"b"}}
  MaxJobs = 3
  Listed = 3
  FilterMatches <- SmallMatches
  MaxFilter = 2
  Stages = {"resolving", "downloading"}
  Delay = 1
  MaxTicks = 2
SPECIFICATION Spec
CHECK_DEADLOCK FALSE
INVARIANT CursorInViewport
