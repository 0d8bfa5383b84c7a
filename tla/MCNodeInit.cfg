SPECIFICATION FairSpec
CONSTANTS
    NodeConfigs <- MCNodeConfigs
    NoConfig = NoConfig
    Hosts <- MCHosts
    SkipSets <- MCSkipSets
    MaxCommands = 2
    MaxFaults = 1
INVARIANTS InitInv OkMeansConfigured RefusedIsNotConfigured ForeignCertRefused HostStaysPrepared
PROPERTY CommandReturns
CHECK_DEADLOCK FALSE
