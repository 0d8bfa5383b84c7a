CONSTANTS
    EksOrder <- MCEksOrder
    HostArch = "amd64"
    Manifests <- MCManifests
    Requests <- MCRequests
    Syncs = {s1, s2}
    MaxSecond = 2
    MaxSsm = 2
    MaxInstalls = 1
    Attempts = 2
    None = None

SYMMETRY SyncSymmetry
CONSTRAINT Related

SPECIFICATION Spec
INVARIANT MirrorInv
INVARIANT OkMeansRelease
INVARIANT ResolvedAsRequested
INVARIANT CompleteMirrorInstalls
CHECK_DEADLOCK FALSE
