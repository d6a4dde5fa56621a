SPECIFICATION Spec
CONSTANTS
  Media <- MCMedia
  size <- MCsize
  length <- MClength
  encrypted = {"secret", "liar"}
  PartSize = 2
  MaxLoads = 3
  MaxFaults = 2
INVARIANTS DownloadsCounted FilesRight
PROPERTIES WholeStays DownloadsEnd
CHECK_DEADLOCK FALSE
