SPECIFICATION Spec
CONSTANTS
  NoGroup = NoGroup
  ag = ag
  codex = codex
  gemini = gemini
  claude = claude
  weekly = weekly
  fiveHour = fiveHour
  ShortWindows <- MC_ShortWindows
  Records <- MC_Records
INVARIANTS
  MissingIsCopied
CHECK_DEADLOCK FALSE
