SPECIFICATION Spec
CONSTANTS
  MaxChunk = 4
  Reports <- MCReports
  Fallback <- MCFallback
  Files <- MCFiles
  Kept <- MCKept
  Lower <- MCLower
  MaxShots = 3
  Rounds = 2
  Paths <- MCPaths
  Patterns <- MCPatterns
  Seconds = {0, 1}
  Digits = {0, 1, 2}
  Width = 3
CHECK_DEADLOCK FALSE
INVARIANTS
  ChunksCarryTheReport
  IssueTellsOutcome
  LinksAreServed
  EveryPictureIsShown
  PolicyMeansPattern
  LeasesOlder
  CommentIInv
  ShotsIInv
