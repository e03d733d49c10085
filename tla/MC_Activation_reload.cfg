SPECIFICATION Spec
CONSTANTS
  NoGroup = NoGroup
  codex = codex
  ag = ag
  gemini = gemini
  claude = claude
  weekly = weekly
  fiveHour = fiveHour
  ShortWindows <- MC_ShortWindows
  Windows = {weekly}
  Workers = {w1}
  Manual = {}
  Targets <- OneTarget
  Resets = {9}
  Remaining = {0, 1}
  MaxConcurrency = 1
  StartFiles <- OldFile
  MaxNow = 4
  MaxReloads = 1
  MaxCrashes = 0
  MaxSaveErrors = 1
PROPERTIES
  ReloadInheritsSuccess
CHECK_DEADLOCK FALSE
