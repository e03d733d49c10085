SPECIFICATION Spec
CONSTANTS
  MaxLoops = 2
  Configs <- MC_Configs
  Default <- Off
  Slack = 1
  StartupDelay = 1
  MaxCooldown = 2
  MaxStall = 1
  Patience = 1
  Workers = {w1, w2}
  Auths = {auth}
  Candidates = {gemini, claude}
  AuthOf <- MC_AuthOf
  NoSummary = NoSummary
INVARIANTS
  TypeOK
  OneScan
  QuietAfterShutdown
PROPERTIES
  NoWakeAfterShutdown
  EveryCandidateCounted
  RoundsAreKept
  ScansGoOn
  CooldownEnds
