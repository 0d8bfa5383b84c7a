SPECIFICATION FairSpec
CONSTANTS
  MaxConf = 3
  MaxFaults = 3
INVARIANTS AwaitInv AwaitedIsReconfigured RestartUnderway
PROPERTY EnsureRunningReturns
