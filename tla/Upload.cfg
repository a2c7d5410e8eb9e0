SPECIFICATION FairSpec
CONSTANTS
  Texts <- MCTexts
  TargetChunks = 2
  MinSize = 4
  MaxSize = 6
  Window = 2
  Uploads = {u1}
  Manuals = {m1}
  Counts = {0, 2}
  Failed = Failed
  Pending = Pending
  MaxDeletes = 2
INVARIANTS
  ChunksAreTheText
  ChunksNearTarget
  BatchIsTheChunks
PROPERTIES
  KeepsUploadPromise
  UploadsEnd
\* Each upload is made once.
CHECK_DEADLOCK FALSE
