SPECIFICATION Spec
CONSTANTS
  link = link
  video = video
  note = note
  here = here
  there = there
  Shares = {link}
  Assets = {video}
  Comments = {note}
  Texts = {here, there}
  AssetsOf <- AllAssets
  CommentsOf <- AllNotes
  MaxLog = 2
  MaxSteps = 3
INVARIANTS AckedIsApplied InSync RevokedIsRemoved
CHECK_DEADLOCK FALSE
