SPECIFICATION Spec
CONSTANTS
  src = src
  new = new
  v0 = v0
  v1 = v1
  none = none
  noTree = noTree
  NoTree = noTree
  Absent = none
  Files <- MCFiles
  Contents <- MCContents
  Base <- MCBase
  Alike <- SameContents
  Denied <- MCSrc
  CommandWrites <- MCSrc
  AgentGit <- AddOrCommit
  VisualCommands = FALSE
  PublicBaseURL = FALSE
  MaxRepair = 2
  MaxVisual = 1
  Faults = TRUE
INVARIANTS
  IInv
  DeniedOnlyRemoved
  PushedWasTested
  ScreenshotsNotPushed
  OutcomeIsReported
PROPERTIES
  LifecycleSpec
