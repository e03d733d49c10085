SPECIFICATION Spec
CONSTANTS
  c1 = c1  c2 = c2  c3 = c3  A = A  B = B  None = None
  Callers = {c1}
  Auths = {A, B}
  AuthOf <- MC_AuthOf
  Originals <- MC_Originals
  Configs <- MC_Configs
  Disabled = {}
  Cancellable = {c1}
  Stubbed = {}
  Unlisted = {}
  Keyless = {}
  Floor = 3
  HostMayRefuse = FALSE
  MaxUnauthorized = 2
  MaterialAttempts = 2
  BoostConfirmAttempts = 2
INVARIANT RollbackIsCertain
