SPECIFICATION Spec
CONSTANTS
  NoGroup = NoGroup
  codex = codex
  antigravity = antigravity
  gemini = gemini
  claude = claude
  gpt5 = gpt5
  geminiPro = geminiPro
  sonnet = sonnet
  mystery = mystery
  FiveHours = 1
  Week = 2
  Month = 3
  ShortWindows <- MC_ShortWindows
  Models <- MC_Models
  ModelGroup <- MC_ModelGroup
  EnableBefore = FALSE
  Credentials <- MC_Credentials
  HostViews <- MC_HostViews
  StartStores <- MC_StartStores
  MaxNow = 3
  MaxRecords = 3
INVARIANTS
  TypeOK
  QuietWhileOpen
  EndedCycleIsWoken
  PageAgrees
PROPERTY CyclesDoNotOverlap
CHECK_DEADLOCK FALSE
