SPECIFICATION Spec
CONSTANTS
  Jobs = {j1, j2}
  j1 = j1
  j2 = j2
  Uploads = {u1, u2}
  Reqs = {r1, r2}
  NoJob = NoJob
  NoUpload = NoUpload
  FileSize = 2
  MaxRestarts = 0
  KeyOf <- MCKeyOf
  BaseOf <- MCBaseOf
  ContentOf <- OtherContent
  BatchOf <- OwnBatch
SYMMETRY Symmetry
INVARIANTS AckedBytesOnDisk OnlyCompleteFiles NoOrphanTemp DoneIsInLibrary AwaitingHasSession StableFileExists
CHECK_DEADLOCK FALSE
