SPECIFICATION FairSpec
CONSTANTS
  Versions = {v1, v2}
  Members = {m1, m2}
INVARIANTS InstallInv OkMeansInstalled
PROPERTIES UpToDateIsUntouched CommandReturns
