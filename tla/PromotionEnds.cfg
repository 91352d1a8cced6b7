SPECIFICATION FairSpec
CONSTANTS
  Files = {doc, video}
  doc = doc
  video = video
  StorageOf <- MCStorageOf
  MaxConcurrency = 1
  MaxJobs = 3
  MaxRuns = 5
  MaxRestarts = 0
INVARIANTS QueuedHasWaker
PROPERTIES EveryJobEnds
CHECK_DEADLOCK FALSE
