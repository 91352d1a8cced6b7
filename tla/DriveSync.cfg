SPECIFICATION Spec
CONSTANTS
  dir = dir
  doc = doc
  s1 = s1
  s2 = s2
  Folders = {dir}
  Files = {doc}
  Scripts = {s1, s2}
  NoFile = NoFile
  NoScript = NoScript
  MaxChanges = 2
  MaxSteps = 3
SYMMETRY Symmetry
INVARIANTS InTreeIsIndexed TrashedIsDropped OneScriptPerFile
CHECK_DEADLOCK FALSE
