CONSTANTS
    m0 = m0
    m1 = m1
    m2 = m2
    m3 = m3
    Nil = Nil
    Manifests <- MCManifests
    Empty = m0
    SourcesOf <- MCSourcesOf
    ContentOf <- MCContentOf
    Initial = Nil
    Losable = {}
    MaxOps = 1
    MaxCrashes = 1
    MaxLosses = 0
    MaxPowerLosses = 0
SPECIFICATION FairSpec
PROPERTY IntentsDrain
