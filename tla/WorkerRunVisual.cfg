SPECIFICATION FairSpec
CONSTANTS
  src = src
  new = new
  v0 = v0
  v1 = v1
  none = none
  noTree = noTree
  NoTree = noTree
  Absent = none
  Files <- MCFiles
  Contents <- MCOne
  Base <- MCBase
  Alike <- SameOne
  Denied <- NoFiles
  CommandWrites <- NoFiles
  AgentGit <- AddOnly
  VisualCommands = TRUE
  PublicBaseURL = TRUE
  MaxRepair = 1
  MaxVisual = 2
  Faults = TRUE
INVARIANTS
  ConfirmedPatchIsPushed
  GivesUpOnlyWhenSpent
  EveryRunIsPaidFor
PROPERTIES
  Settles
