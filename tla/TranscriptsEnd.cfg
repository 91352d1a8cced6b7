SPECIFICATION PFairSpec
CONSTANTS
  Assets = {video}
  video = video
  Provisions = {call1}
  call1 = call1
  Batches <- OneVideo
  MaxWorkers = 1
  MaxJobs = 2
  MaxRestarts = 0
PROPERTIES TranscriptSettles ProvisionGoesOn
CHECK_DEADLOCK FALSE
