SPECIFICATION PSpec
CONSTANTS
  Assets = {video}
  video = video
  Provisions = {call1}
  call1 = call1
  Batches <- OneVideo
  MaxWorkers = 2
  MaxJobs = 2
  MaxRestarts = 1
INVARIANTS TypeOK NoIdleWorker RecordFollowsJob TranscriptIsThere CacheHolds
CHECK_DEADLOCK FALSE
