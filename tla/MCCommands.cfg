CONSTANTS
  p1 = p1
  p2 = p2
  p3 = p3
  a1 = a1
  a2 = a2
  a3 = a3
  None = None
  Skills = {1, 2}
  Commits = {1, 2, 3, 4}
  History <- SmallHistory
  UpdateAsks <- SmallAsks
  Allowed = {}
  Firsts <- FirstRecords
  UpdateChanges = 1
  Revisions = {1, 2}
  InstallAsks <- TwoAsks
  AskRules = {"net", "exec"}
  Allows <- SmallAllows
  InstallChanges = 2
  Scopes = {"project", "global"}
  Requests <- SmallRequests
  MaxMarkers = 1
  Agents = {"a", "b"}
  Declarations = {"d1", "d2"}
  Manifests <- SmallManifests
  SyncChanges = 1
  Paths = {1, 2, 3}
  Cases <- SmallCases
  DoctorChanges = 2
  RunCommits = {1, 2, 3}
  RunAsks <- SessionAsks
  Kinds <- SmallKinds
  MaxMoves = 1
  MaxCalls = 3
  Lines <- SmallLines
  Crowd <- SmallCrowd
  Single <- SmallSingle
SPECIFICATION Spec
SYMMETRY Symmetry
CHECK_DEADLOCK FALSE
INVARIANTS TypesOK ReportsAreTrue NothingIsLost SessionsKeptApart
PROPERTIES OnlyReviewed SyncKeepsAgreements AnswersTrue RotationNeverUndone
