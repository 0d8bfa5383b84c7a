CONSTANTS
    Configs <- MCConfigs
    Hosts <- MCHosts
    MaxPods <- MCMaxPods
    Enis <- MCEnis
    MaxRuns = 2
    None = None

SPECIFICATION Spec
INVARIANT KubeletInv
INVARIANT OkMeansEffective
INVARIANT NodeNameReadBack
INVARIANT ReservedPerTable
