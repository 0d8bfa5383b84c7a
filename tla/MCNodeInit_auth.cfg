SPECIFICATION Spec
CONSTANTS
    NodeConfigs <- MCNodeConfigs
    NoConfig = NoConfig
    Hosts <- MCHosts
    SkipSets <- MCSkipSets
    MaxCommands = 2
    MaxFaults = 1
INVARIANT AuthenticatedUnlessSkipped
CHECK_DEADLOCK FALSE
