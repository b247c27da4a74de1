CONSTANTS
    m0 = m0
    m1 = m1
    m2 = m2
    m3 = m3
    Nil = Nil
    Manifests <- MCManifests
    Empty = m0
    SourcesOf <- MCSourcesOf
    ContentOf <- MCContentOf
    Initial = m1
    Losable = {"analysis", "derived"}
    MaxOps = 1
    MaxCrashes = 2
    MaxLosses = 2
    MaxPowerLosses = 0
SPECIFICATION FairSpec
INVARIANT StaleNotServed
PROPERTY IntentsDrain
