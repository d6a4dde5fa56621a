SPECIFICATION UpSpec
CONSTANTS
  FileSizes = {0, 3, 5, 8, 9}
  Types = {"photo", "video"}
  Block = 2
  PartSizes = {2, 4}
  ManyParts = 2
  BigFile = 4
  MaxSends = 2
  MaxUpFaults = 2
INVARIANTS UploadsCounted SentIsWhole SentIsKnown
PROPERTY UploadsEnd
CHECK_DEADLOCK FALSE
