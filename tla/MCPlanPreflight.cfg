SPECIFICATION Spec
CONSTANTS
  c1 = c1
  c2 = c2
  Callers = {c1, c2}
  Fold <- MCFold
  AutoId <- MCAutoId
  Requests <- MCRequests
  InitialVaults <- MCInitialVaults
  Writes <- MCWrites
  MaxWrites = 1
  MaxFaults = 1
INVARIANTS PreflightTypeOK StepsAreCovered ChoiceFitsVault
PROPERTIES NoWriteWithoutLeave
