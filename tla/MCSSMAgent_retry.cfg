SPECIFICATION Spec
CONSTANTS
  Ids = {i1}
  NoId = NoId
  MaxFaults = 1
INVARIANT UninstallDeregisters
