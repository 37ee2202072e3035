SPECIFICATION Spec
CONSTANTS
  src = src
  new = new
  v0 = v0
  v1 = v1
  none = none
  noTree = noTree
  NoTree = noTree
  Absent = none
  Files <- MCFiles
  Contents <- MCOne
  Base <- MCBase
  Alike <- SameOne
  Denied <- NoFiles
  CommandWrites <- NoFiles
  AgentGit <- NoGit
  VisualCommands = TRUE
  PublicBaseURL = TRUE
  MaxRepair = 1
  MaxVisual = 2
  Faults = FALSE
INVARIANTS
  ReviewTookScreenshots
