SPECIFICATION Spec
CONSTANTS
  src = src
  new = new
  v0 = v0
  v1 = v1
  none = none
  noTree = noTree
  NoTree = noTree
  Absent = none
  Files <- MCFiles
  Contents <- MCOne
  Base <- MCBase
  Alike <- SameOne
  Denied <- MCSrc
  CommandWrites <- NoFiles
  AgentGit <- AddOnly
  VisualCommands = FALSE
  PublicBaseURL = TRUE
  MaxRepair = 1
  MaxVisual = 2
  Faults = FALSE
INVARIANTS
  DeniedNeverPushed
