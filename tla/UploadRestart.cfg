SPECIFICATION FairSpec
CONSTANTS
  Jobs = {j1, j2}
  j1 = j1
  j2 = j2
  Uploads = {u1, u2}
  Reqs = {r1}
  NoJob = NoJob
  NoUpload = NoUpload
  FileSize = 1
  MaxRestarts = 1
  KeyOf <- MCKeyOf
  BaseOf <- MCBaseOf
  ContentOf <- OtherContent
  BatchOf <- OneBatch
INVARIANTS DoneIsInLibrary StableHoldsCurrent StableFileExists
PROPERTIES JobSettles
CHECK_DEADLOCK FALSE
