SPECIFICATION FairSpec
CONSTANTS
  OsName = "rhel"
  Preinstalled <- Hosts
  Sources <- AllSources
  MaxFaults = 2
  TornSave = TRUE
INVARIANTS FlowInv UserPackagesKept
PROPERTIES ClearedMeansGone ImplementsLifecycle UninstallConverges
