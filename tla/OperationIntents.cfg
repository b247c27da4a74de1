CONSTANTS
    m0 = m0
    m1 = m1
    m2 = m2
    m3 = m3
    Nil = Nil
    Manifests <- MCManifests
    Empty = m0
    SourcesOf <- MCSourcesOf
    ContentOf <- MCContentOf
    Initial = m1
    Losable = {}
    MaxOps = 2
    MaxCrashes = 2
    MaxLosses = 0
    MaxPowerLosses = 0
SPECIFICATION Spec
INVARIANTS
    SettledOneWay
    RecoveryDecides
    DrainedRootAccounted
    ReceiptsMatchOperations
PROPERTY LedgerSpec
