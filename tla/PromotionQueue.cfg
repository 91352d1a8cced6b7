SPECIFICATION Spec
CONSTANTS
  Files = {doc, video}
  doc = doc
  video = video
  StorageOf <- MCStorageOf
  MaxConcurrency = 2
  MaxJobs = 2
  MaxRuns = 4
  MaxRestarts = 1
INVARIANTS DoneIsPromoted EndIsRecorded SlotsHaveWorkers
PROPERTIES OnlyTwinUndoesDone
CHECK_DEADLOCK FALSE
