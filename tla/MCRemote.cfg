CONSTANTS
  c1 = c1
  c2 = c2
  w1 = w1
  w2 = w2
  Unread = Unread
  Unavailable = Unavailable
  OtherBytes = OtherBytes
  None = None
  Commits = {c1, c2}
  Asked = {c1, None}
  Timeout = 3
  RequestTimeout = 1
  StalledLimit = 1
  Jitter = 1
  Waits = {1, 2}
  MaxPolls = 2
  MaxRetries = 1
  MaxResolutionRetries = 1
  MaxRedirects = 1
  ArtifactDownloads = 2
  MaxLinkedFiles = 1
  Pin = "root"
  Roots <- SmallRoots
  Attestations <- SmallAttestations
  SignedArchives <- SmallArchives
  LinkedFiles <- SmallServed
  Folded <- Lower
  MaxSignedFiles = 3
  MaxLinkedBytes = 1
  Trees <- SmallTrees
  DirectRequests <- SmallRequests
  Tarballs <- SmallTarballs
  GitTarballs <- SmallGitTarballs
  MaxTarballTree = 3
  MaxFiles = 2
  MaxTreeEntries = 4
  MaxPushes = 1
  InputLists <- SmallInputs
  Workers = {w1, w2}
  ServiceBatch = 2
  PerPage = 2
  MaxCommits = 3
  MaxComparisons = 3
  Unknown = "x"
  Repositories = {"r", "s", "t"}
  Rows <- SmallRows
  InTree <- SmallTreeSkills
  References <- SmallReferences
  PageSize = 2
  MaxPages = 5
  MaxEntries = 3
  MaxDirectSkills = 3
SPECIFICATION Spec
CHECK_DEADLOCK FALSE
INVARIANTS TypesOK DeliveredAsAsked FilesAreTheSource AnswersTheirOwn
PROPERTIES Patience CommandsEnd
