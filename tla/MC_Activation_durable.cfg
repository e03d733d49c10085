SPECIFICATION Spec
CONSTANTS
  NoGroup = NoGroup
  codex = codex
  ag = ag
  gemini = gemini
  claude = claude
  weekly = weekly
  fiveHour = fiveHour
  ShortWindows <- MC_ShortWindows
  Windows = {weekly}
  Workers = {w1, w2}
  Manual = {}
  Targets <- TwoTargets
  Resets = {2, 9}
  Remaining = {0, 1}
  MaxConcurrency = 1
  StartFiles <- OldFile
  MaxNow = 4
  MaxReloads = 0
  MaxCrashes = 1
  MaxSaveErrors = 1
INVARIANTS
  ClosedIsNewest
PROPERTIES
  NoWakeInClosedCycle
  WakesOnce
CHECK_DEADLOCK FALSE
