SPECIFICATION Spec
CONSTANTS
  Jobs = {j1}
  j1 = j1
  j2 = j2
  Uploads = {u1, u2}
  Reqs = {r1}
  NoJob = NoJob
  NoUpload = NoUpload
  FileSize = 1
  MaxRestarts = 1
  KeyOf <- SameKey
  BaseOf <- MCBaseOf
  ContentOf <- SameContent
  BatchOf <- OwnBatch

PROPERTY DuplicateHasFile
CHECK_DEADLOCK FALSE
