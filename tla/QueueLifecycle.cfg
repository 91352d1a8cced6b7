SPECIFICATION FairSpec
CONSTANTS
  Jobs = {frameio, sardius}
  frameio = frameio
  sardius = sardius
  UploadTimeout = 3
  ProcessingTimeout = 25
  ActiveWindow = 3
  StallOf <- MCStallOf
  ProcessingStall = 10
  HardTimeoutMult = 2
  MaxAge = 31
  MaxRestarts = 1
INVARIANTS TypeOK CancelledIsMarked
PROPERTIES ImplementsLifecycle SilentJobsEnd
CHECK_DEADLOCK FALSE
