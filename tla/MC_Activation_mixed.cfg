SPECIFICATION Spec
CONSTANTS
  NoGroup = NoGroup
  codex = codex
  ag = ag
  gemini = gemini
  claude = claude
  weekly = weekly
  fiveHour = fiveHour
  ShortWindows <- MC_ShortWindows
  Windows = {weekly}
  Workers = {w1}
  Manual = {m1}
  Targets <- OneTarget
  Resets = {2, 9}
  Remaining = {0}
  MaxConcurrency = 1
  StartFiles <- NewOrOldFile
  MaxNow = 4
  MaxReloads = 1
  MaxCrashes = 1
  MaxSaveErrors = 1
INVARIANTS
  SlotsAreHeld
PROPERTIES
  ReloadMerges
CHECK_DEADLOCK FALSE
