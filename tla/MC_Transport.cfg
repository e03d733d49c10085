SPECIFICATION Spec
CONSTANTS
  c1 = c1  c2 = c2  c3 = c3  A = A  B = B  None = None
  Callers = {c1, c2, c3}
  Auths = {A, B}
  AuthOf <- MC_AuthOf
  Originals <- MC_Originals
  Configs <- MC_Configs
  Disabled = {c1}
  Cancellable = {c2}
  Stubbed = {B}
  Unlisted = {c3}
  Keyless = {B}
  Floor = 3
  HostMayRefuse = TRUE
  MaxUnauthorized = 2
  MaterialAttempts = 2
  BoostConfirmAttempts = 2
INVARIANTS TypeOK AloneOnTop PriorityComesBack TokensSurvive NoWakeAfterVerdict
PROPERTIES SuccessIsEarned BoostIsTriedFirst AllEnd
