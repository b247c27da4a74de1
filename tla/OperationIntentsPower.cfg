CONSTANTS
    m0 = m0
    m1 = m1
    m2 = m2
    m3 = m3
    Nil = Nil
    Manifests <- MCManifests
    Empty = m0
    SourcesOf <- MCSourcesOf
    ContentOf <- MCContentOf
    Initial = Nil
    Losable = {"analysis"}
    MaxOps = 2
    MaxCrashes = 0
    MaxLosses = 1
    MaxPowerLosses = 1
SPECIFICATION Spec
INVARIANTS
    OneReceiptPerImport
    CommittedAccounted
    SettledIsDurable
