SPECIFICATION Spec
CONSTANTS
  NoGroup = NoGroup
  codex = codex
  ag = ag
  gemini = gemini
  claude = claude
  weekly = weekly
  fiveHour = fiveHour
  ShortWindows <- MC_ShortWindows
  Windows = {weekly}
  Workers = {w1}
  Manual = {m1}
  Targets <- OneTarget
  Resets = {9}
  Remaining = {0, 1}
  MaxConcurrency = 1
  StartFiles <- OldFile
  MaxNow = 5
  MaxReloads = 0
  MaxCrashes = 0
  MaxSaveErrors = 0
PROPERTIES
  NoWakeInClosedCycle
CHECK_DEADLOCK FALSE
