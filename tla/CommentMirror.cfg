SPECIFICATION Spec
CONSTANTS
  note = note
  here = here
  there = there
  Comments = {note}
  Texts = {here, there}
  MaxRemote = 2
  MaxJobs = 3
  MaxSteps = 3
  MaxEvents = 1
  MaxTries = 2
  BatchSize = 2
  MaxRestarts = 1
INVARIANTS OneCopy ChangesReach
CHECK_DEADLOCK FALSE
